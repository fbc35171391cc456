--------------------------- MODULE AccountsProofs ---------------------------
(***************************************************************************)
(* Proofs about Accounts, for every number of migrate processes, requests, *)
(* names, files and failures.                                              *)
(***************************************************************************)
EXTENDS Accounts, WellFoundedInduction, TLAPS

\* Only the process between its lock and its unlock holds the advisory lock,
\* and what it has not applied yet is what is missing.
LockInv ==
    \A m \in Migrator :
        /\ pc[m] \in {"list", "apply"} => advisory = m
        /\ pc[m] = "apply" => pending[m] = Files \ applied

\* The schema is complete for whoever creates accounts, and stays so.
SchemaInv == SchemaBeforeAccounts /\ (appUp => applied = Files)

\* A process between its two INSERTs is the only one at that username, which
\* is not there yet.
InsertInv ==
    /\ \A p \in Process : pc[p] = "wallet" => inserting[NameOf(p)] = p
    /\ \A n \in Name : inserting[n] # Nobody => role[n] = "none"

\* The admin's username is the admin's or nobody's; it is there once a seed
\* is past its first account, and requests exist only after a seed.
AdminInv ==
    /\ role[Admin] \in {"none", "ADMIN"}
    /\ AdminIsSeeded
    /\ \A m \in Migrator :
          pc[m] \in Creating /\ seedAt[m] > 1 => role[Admin] = "ADMIN"
    /\ \A r \in Request : pc[r] # "idle" => appUp

\* A registration that succeeded left its account behind.
RegisteredInv ==
    /\ \A r \in Request : pc[r] = "registered" => role[wanted[r]] # "none"
    /\ OneRegistrationWins

IInv == /\ TypeOK /\ LockInv /\ AppliedInOrder /\ SchemaInv /\ InsertInv
        /\ AccountsHaveWallets /\ AdminInv /\ RegisteredInv

\* The seed's usernames are usernames.
LEMMA AdminIsName == Admin \in Name
  BY AccountsAssumption DEF Admin

LEMMA NamesAreNames ==
  ASSUME TypeOK, NEW p \in Process
  PROVE  NameOf(p) \in Name
  BY AccountsAssumption DEF NameOf, TypeOK, Process

LEMMA InitInvariant == Init => IInv
<1> SUFFICES ASSUME Init PROVE IInv
  OBVIOUS
<1> USE AccountsAssumption DEF Init
<1>1. TypeOK
  <2>1. seedAt \in [Migrator -> 1 .. Len(SeedNames)]
    <3>1. 1 \in 1 .. Len(SeedNames)
      OBVIOUS
    <3> QED
      BY <3>1
  <2>2. faults \in 0 .. MaxFaults
    OBVIOUS
  <2>3. appUp \in BOOLEAN
    OBVIOUS
  <2>4. /\ applied \subseteq Files /\ wallets \subseteq Name
        /\ pending \in [Migrator -> SUBSET Files] /\ advisory \in Migrator \union {Nobody}
    OBVIOUS
  <2>5. /\ role \in [Name -> {"none", "USER", "ADMIN"}]
        /\ inserting \in [Name -> Process \union {Nobody}]
        /\ wanted \in [Request -> Name]
    BY AdminIsName
  <2>6. pc \in [Process -> Migrating \union Creating \union Stopped \union Answered]
    BY DEF Stopped
  <2> QED
    BY <2>1, <2>2, <2>3, <2>4, <2>5, <2>6, Zenon DEF TypeOK
<1>2. LockInv /\ AppliedInOrder /\ SchemaInv /\ InsertInv
  BY DEF LockInv, AppliedInOrder, SchemaInv, SchemaBeforeAccounts, InsertInv, Creating, Process
<1>3. AccountsHaveWallets /\ RegisteredInv
  BY DEF AccountsHaveWallets, RegisteredInv, OneRegistrationWins, Process
<1>4. AdminInv
  <2>1. role[Admin] = "none" /\ ~ appUp
    BY AdminIsName
  <2>2. \A p \in Process : pc[p] = "idle"
    OBVIOUS
  <2> QED
    BY <2>1, <2>2 DEF AdminInv, AdminIsSeeded, Creating, Process
<1> QED
  BY <1>1, <1>2, <1>3, <1>4 DEF IInv

LEMMA StartMigrateInvariant ==
  ASSUME IInv, NEW m \in Migrator, StartMigrate(m)
  PROVE  IInv'
<1> USE AccountsAssumption DEF IInv, StartMigrate, GoTo, rowsVars
<1>1. TypeOK'
  BY DEF TypeOK, Migrating, Creating, Stopped, Process
<1>2. LockInv'
  BY DEF LockInv, TypeOK, Process, Migrating, Stopped
<1>3. AppliedInOrder' /\ SchemaInv'
  BY DEF AppliedInOrder, SchemaInv, SchemaBeforeAccounts, LockInv, TypeOK, Process,
         Creating, Migrating, Stopped
<1>4. InsertInv' /\ AccountsHaveWallets'
  BY DEF InsertInv, AccountsHaveWallets, NameOf, TypeOK, Process, Migrating, Stopped
<1>5. AdminInv' /\ RegisteredInv'
  BY DEF AdminInv, AdminIsSeeded, RegisteredInv, OneRegistrationWins, TypeOK, Process,
         Creating, Migrating, Stopped
<1> QED
  BY <1>1, <1>2, <1>3, <1>4, <1>5

LEMMA AcquireLockInvariant ==
  ASSUME IInv, NEW m \in Migrator, AcquireLock(m)
  PROVE  IInv'
<1> USE AccountsAssumption DEF IInv, AcquireLock, LockIsFree, GoTo, rowsVars
<1>1. TypeOK'
  BY DEF TypeOK, Migrating, Creating, Stopped, Process
<1>2. LockInv'
  BY DEF LockInv, TypeOK, Process, Migrating, Stopped
<1>3. AppliedInOrder' /\ SchemaInv'
  BY DEF AppliedInOrder, SchemaInv, SchemaBeforeAccounts, LockInv, TypeOK, Process,
         Creating, Migrating, Stopped
<1>4. InsertInv' /\ AccountsHaveWallets'
  BY DEF InsertInv, AccountsHaveWallets, NameOf, TypeOK, Process, Migrating, Stopped
<1>5. AdminInv' /\ RegisteredInv'
  BY DEF AdminInv, AdminIsSeeded, RegisteredInv, OneRegistrationWins, TypeOK, Process,
         Creating, Migrating, Stopped
<1> QED
  BY <1>1, <1>2, <1>3, <1>4, <1>5

LEMMA ListPendingInvariant ==
  ASSUME IInv, NEW m \in Migrator, ListPending(m)
  PROVE  IInv'
<1> USE AccountsAssumption DEF IInv, ListPending, GoTo, rowsVars
<1>1. TypeOK'
  BY DEF TypeOK, Migrating, Creating, Stopped, Process
<1>2. LockInv'
  BY DEF LockInv, TypeOK, Process, Migrating, Stopped
<1>3. AppliedInOrder' /\ SchemaInv'
  BY DEF AppliedInOrder, SchemaInv, SchemaBeforeAccounts, LockInv, TypeOK, Process,
         Creating, Migrating, Stopped
<1>4. InsertInv' /\ AccountsHaveWallets'
  BY DEF InsertInv, AccountsHaveWallets, NameOf, TypeOK, Process, Migrating, Stopped
<1>5. AdminInv' /\ RegisteredInv'
  BY DEF AdminInv, AdminIsSeeded, RegisteredInv, OneRegistrationWins, TypeOK, Process,
         Creating, Migrating, Stopped
<1> QED
  BY <1>1, <1>2, <1>3, <1>4, <1>5

LEMMA UnlockInvariant ==
  ASSUME IInv, NEW m \in Migrator, Unlock(m)
  PROVE  IInv'
<1> USE AccountsAssumption DEF IInv, Unlock, ReleaseAdvisory, GoTo, rowsVars
<1>1. TypeOK'
  BY DEF TypeOK, Migrating, Creating, Stopped, Process
<1>2. LockInv'
  BY DEF LockInv, TypeOK, Process, Migrating, Stopped
<1>3. AppliedInOrder' /\ SchemaInv'
  BY DEF AppliedInOrder, SchemaInv, SchemaBeforeAccounts, LockInv, TypeOK, Process,
         Creating, Migrating, Stopped
<1>4. InsertInv' /\ AccountsHaveWallets'
  BY DEF InsertInv, AccountsHaveWallets, NameOf, TypeOK, Process, Migrating, Stopped
<1>5. AdminInv' /\ RegisteredInv'
  BY DEF AdminInv, AdminIsSeeded, RegisteredInv, OneRegistrationWins, TypeOK, Process,
         Creating, Migrating, Stopped
<1> QED
  BY <1>1, <1>2, <1>3, <1>4, <1>5

LEMMA MigrateFailsInvariant ==
  ASSUME IInv, NEW m \in Migrator, MigrateFails(m)
  PROVE  IInv'
<1> USE AccountsAssumption DEF IInv, MigrateFails, ReleaseAdvisory, Fault, GoTo, rowsVars
<1>1. TypeOK'
  BY DEF TypeOK, Migrating, Creating, Stopped, Process
<1>2. LockInv'
  BY DEF LockInv, TypeOK, Process, Migrating, Stopped
<1>3. AppliedInOrder' /\ SchemaInv'
  BY DEF AppliedInOrder, SchemaInv, SchemaBeforeAccounts, LockInv, TypeOK, Process,
         Creating, Migrating, Stopped
<1>4. InsertInv' /\ AccountsHaveWallets'
  BY DEF InsertInv, AccountsHaveWallets, NameOf, TypeOK, Process, Migrating, Stopped
<1>5. AdminInv' /\ RegisteredInv'
  BY DEF AdminInv, AdminIsSeeded, RegisteredInv, OneRegistrationWins, TypeOK, Process,
         Creating, Migrating, Stopped
<1> QED
  BY <1>1, <1>2, <1>3, <1>4, <1>5

LEMMA ApplyFileInvariant ==
  ASSUME IInv, NEW m \in Migrator, NEW f \in Files, ApplyFile(m, f)
  PROVE  IInv'
<1> USE AccountsAssumption DEF IInv, ApplyFile, GoTo, rowsVars
<1>1. /\ f \notin applied /\ IsNextFile(m, f)
      /\ applied' = applied \union {f}
      /\ pending' = [pending EXCEPT ![m] = @ \ {f}]
      /\ UNCHANGED <<advisory, pc, rowsVars, seedAt, wanted, appUp, faults>>
  BY DEF IsNextFile, LockInv, TypeOK
<1> HIDE DEF ApplyFile
<1>2. TypeOK'
  BY <1>1 DEF TypeOK
<1>3. LockInv'
  <2>1. pc[m] = "apply" /\ advisory = m /\ pending[m] = Files \ applied
    BY DEF ApplyFile, LockInv
  <2>2. pending'[m] = Files \ applied'
    BY <1>1, <2>1 DEF TypeOK
  <2> QED
    BY <1>1, <2>1, <2>2 DEF LockInv, TypeOK
<1>4. AppliedInOrder'
  <2>1. pending[m] = Files \ applied
    BY DEF ApplyFile, LockInv
  <2>2. ASSUME NEW g \in Files, g < f PROVE g \in applied
    BY <1>1, <2>1, <2>2 DEF IsNextFile, Files
  <2>3. applied' = applied \union {f} /\ applied \subseteq Files
    BY <1>1 DEF TypeOK
  <2> QED
    BY <2>2, <2>3 DEF AppliedInOrder
<1>5. SchemaInv'
  BY <1>1 DEF SchemaInv, SchemaBeforeAccounts, TypeOK
<1>6. InsertInv' /\ AccountsHaveWallets' /\ AdminInv' /\ RegisteredInv'
  BY <1>1 DEF InsertInv, AccountsHaveWallets, AdminInv, AdminIsSeeded, RegisteredInv,
              OneRegistrationWins, NameOf, TypeOK
<1> QED
  BY <1>2, <1>3, <1>4, <1>5, <1>6

LEMMA RegisterInvariant ==
  ASSUME IInv, NEW r \in Request, NEW n \in Name, Register(r, n)
  PROVE  IInv'
<1> USE AccountsAssumption DEF IInv, Register, ApiIsUp, GoTo, rowsVars
<1>0. r \in Process /\ r \notin Migrator
  BY DEF Process
<1>1. TypeOK'
  BY DEF TypeOK, Creating, Process
<1>2. LockInv' /\ AppliedInOrder' /\ SchemaInv'
  BY <1>0 DEF LockInv, AppliedInOrder, SchemaInv, SchemaBeforeAccounts, TypeOK, Process
<1>3. InsertInv' /\ AccountsHaveWallets'
  BY <1>0 DEF InsertInv, AccountsHaveWallets, NameOf, TypeOK, Process, Answered
<1>4. AdminInv'
  BY <1>0 DEF AdminInv, AdminIsSeeded, TypeOK, Process
<1>5. RegisteredInv'
  BY <1>0 DEF RegisteredInv, OneRegistrationWins, TypeOK, Process
<1> QED
  BY <1>1, <1>2, <1>3, <1>4, <1>5

\* How AccountDone moves a process on.
Moved(p, answer) ==
    \/ /\ p \in Request /\ p \notin Migrator
       /\ pc' = [pc EXCEPT ![p] = answer]
       /\ UNCHANGED <<seedAt, appUp>>
    \/ /\ p \in Migrator /\ p \notin Request
       /\ pc' = [pc EXCEPT ![p] = "find"]
       /\ seedAt' = [seedAt EXCEPT ![p] = @ + 1]
       /\ seedAt[p] + 1 \in 1 .. Len(SeedNames)
       /\ UNCHANGED appUp
    \/ /\ p \in Migrator /\ p \notin Request
       /\ pc' = [pc EXCEPT ![p] = "done"]
       /\ UNCHANGED seedAt
       /\ appUp' = TRUE

LEMMA AccountDoneMoves ==
  ASSUME TypeOK, NEW p \in Process, NEW answer \in Answered \ {"idle"}, AccountDone(p, answer)
  PROVE  Moved(p, answer)
  BY AccountsAssumption DEF AccountDone, GoTo, Process, TypeOK, Moved

\* What such a move leaves intact, for a process that was creating.
LEMMA MovedKeepsSchema ==
  ASSUME IInv, NEW p \in Process, NEW answer \in Answered \ {"idle"}, Moved(p, answer),
         pc[p] \in Creating,
         role' \in [Name -> {"none", "USER", "ADMIN"}], wallets' \subseteq Name,
         inserting' \in [Name -> Process \union {Nobody}],
         UNCHANGED <<applied, advisory, pending, wanted, faults>>
  PROVE  TypeOK' /\ LockInv' /\ AppliedInOrder' /\ SchemaInv'
<1> USE AccountsAssumption DEF IInv, Moved
<1>1. pc' \in [Process -> Migrating \union Creating \union Stopped \union Answered]
  BY DEF TypeOK, Creating, Stopped
<1>2. seedAt' \in [Migrator -> 1 .. Len(SeedNames)]
  BY DEF TypeOK
<1>3. appUp' \in BOOLEAN
  BY DEF TypeOK
<1>4. TypeOK'
  <2>1. /\ applied' \subseteq Files /\ advisory' \in Migrator \union {Nobody}
        /\ pending' \in [Migrator -> SUBSET Files] /\ wanted' \in [Request -> Name]
        /\ faults' \in 0 .. MaxFaults
    BY DEF TypeOK
  <2> QED
    BY <1>1, <1>2, <1>3, <2>1, Zenon DEF TypeOK
<1>5. applied = Files /\ AppliedInOrder'
  BY DEF AppliedInOrder, SchemaInv, SchemaBeforeAccounts
<1>6. LockInv'
  BY DEF LockInv, TypeOK, Creating, Answered, Process
<1>7. SchemaInv'
  BY <1>5 DEF SchemaInv, SchemaBeforeAccounts
<1> QED
  BY <1>4, <1>5, <1>6, <1>7

LEMMA FindByUsernameInvariant ==
  ASSUME IInv, NEW p \in Process, FindByUsername(p)
  PROVE  IInv'
<1> USE AccountsAssumption DEF IInv, rowsVars
<1>0. /\ pc[p] = "find" /\ NameOf(p) \in Name /\ Admin \in Name
      /\ UNCHANGED <<applied, advisory, role, wallets, inserting, pending, wanted, faults>>
  BY AdminIsName, NamesAreNames DEF FindByUsername
<1>1. CASE role[NameOf(p)] # "none" /\ AccountDone(p, "USERNAME_TAKEN")
  <2>m. Moved(p, "USERNAME_TAKEN")
    BY <1>1, AccountDoneMoves DEF Answered
  <2>1. p \in Migrator => role[Admin] = "ADMIN"
    <3>1. seedAt[p] = 1 /\ p \in Migrator => NameOf(p) = Admin
      BY DEF NameOf, Admin
    <3>2. p \in Migrator => seedAt[p] = 1 \/ seedAt[p] > 1
      BY DEF TypeOK
    <3> QED
      BY <1>0, <1>1, <3>1, <3>2 DEF AdminInv, Creating
  <2>2. TypeOK' /\ LockInv' /\ AppliedInOrder' /\ SchemaInv'
    <3>1. "USERNAME_TAKEN" \in Answered \ {"idle"} /\ pc[p] \in Creating
      BY <1>0 DEF Creating, Answered
    <3>2. /\ role' \in [Name -> {"none", "USER", "ADMIN"}] /\ wallets' \subseteq Name
          /\ inserting' \in [Name -> Process \union {Nobody}]
      BY <1>0 DEF TypeOK
    <3> QED
      BY <1>0, <2>m, <3>1, <3>2, MovedKeepsSchema
  <2>3. InsertInv' /\ AccountsHaveWallets'
    BY <1>0, <2>m DEF Moved, InsertInv, AccountsHaveWallets, NameOf, TypeOK, Process
  <2>4. AdminInv'
    BY <1>0, <2>1, <2>m DEF Moved, AdminInv, AdminIsSeeded, TypeOK, Creating, Process
  <2>5. RegisteredInv'
    BY <1>0, <2>m DEF Moved, RegisteredInv, OneRegistrationWins, TypeOK, Process
  <2> QED
    BY <2>2, <2>3, <2>4, <2>5
<1>2. CASE GoTo(p, "insert") /\ UNCHANGED <<seedAt, appUp>>
  <2> USE DEF GoTo
  <2>1. TypeOK'
    BY <1>0, <1>2 DEF TypeOK, Creating
  <2>2. LockInv' /\ AppliedInOrder' /\ SchemaInv'
    BY <1>0, <1>2 DEF LockInv, AppliedInOrder, SchemaInv, SchemaBeforeAccounts, TypeOK, Creating, Process
  <2>3. InsertInv' /\ AccountsHaveWallets'
    BY <1>0, <1>2 DEF InsertInv, AccountsHaveWallets, NameOf, TypeOK, Process
  <2>4. AdminInv' /\ RegisteredInv'
    BY <1>0, <1>2 DEF AdminInv, AdminIsSeeded, RegisteredInv, OneRegistrationWins, TypeOK, Creating, Process
  <2> QED
    BY <2>1, <2>2, <2>3, <2>4
<1> QED
  BY <1>1, <1>2 DEF FindByUsername

LEMMA InsertUserInvariant ==
  ASSUME IInv, NEW p \in Process, InsertUser(p)
  PROVE  IInv'
<1> USE AccountsAssumption DEF IInv, rowsVars, GoTo
<1>0. /\ pc[p] = "insert" /\ NameOf(p) \in Name /\ inserting[NameOf(p)] = Nobody
      /\ UNCHANGED <<applied, advisory, role, wallets, pending, seedAt, wanted, appUp, faults>>
  BY NamesAreNames DEF InsertUser, NoRivalInsert
<1>n. \A q \in Process : NameOf(q)' = NameOf(q)
  BY <1>0 DEF NameOf
<1>1. CASE /\ role[NameOf(p)] # "none"
           /\ GoTo(p, IF p \in Request THEN "DUPLICATE_RESOURCE" ELSE "failed")
           /\ UNCHANGED inserting
  <2>1. TypeOK'
    BY <1>0, <1>1 DEF TypeOK, Stopped, Answered
  <2>2. LockInv' /\ AppliedInOrder' /\ SchemaInv'
    BY <1>0, <1>1 DEF LockInv, AppliedInOrder, SchemaInv, SchemaBeforeAccounts, TypeOK, Creating, Process
  <2>3. InsertInv' /\ AccountsHaveWallets'
    BY <1>0, <1>1, <1>n DEF InsertInv, AccountsHaveWallets, TypeOK
  <2>4. AdminInv' /\ RegisteredInv'
    BY <1>0, <1>1 DEF AdminInv, AdminIsSeeded, RegisteredInv, OneRegistrationWins, TypeOK, Creating, Process
  <2> QED
    BY <2>1, <2>2, <2>3, <2>4
<1>2. CASE /\ role[NameOf(p)] = "none"
           /\ GoTo(p, "wallet")
           /\ inserting' = [inserting EXCEPT ![NameOf(p)] = p]
  <2>1. TypeOK'
    BY <1>0, <1>2 DEF TypeOK, Creating
  <2>2. LockInv' /\ AppliedInOrder' /\ SchemaInv'
    BY <1>0, <1>2 DEF LockInv, AppliedInOrder, SchemaInv, SchemaBeforeAccounts, TypeOK, Creating, Process
  <2>3. InsertInv'
    <3>1. ASSUME NEW q \in Process, pc'[q] = "wallet" PROVE inserting'[NameOf(q)'] = q
      <4>1. CASE q = p
        BY <1>0, <1>2, <1>n, <4>1 DEF TypeOK
      <4>2. CASE q # p
        <5>1. pc[q] = "wallet" /\ inserting[NameOf(q)] = q /\ q # Nobody
          BY <1>2, <3>1, <4>2 DEF InsertInv, TypeOK
        <5>2. NameOf(q) # NameOf(p)
          BY <1>0, <5>1
        <5> QED
          BY <1>0, <1>2, <1>n, <5>1, <5>2, NamesAreNames DEF TypeOK
      <4> QED
        BY <4>1, <4>2
    <3>2. ASSUME NEW n \in Name, inserting'[n] # Nobody PROVE role'[n] = "none"
      BY <1>0, <1>2, <3>2 DEF InsertInv, TypeOK
    <3> QED
      BY <3>1, <3>2 DEF InsertInv
  <2>4. AccountsHaveWallets' /\ AdminInv' /\ RegisteredInv'
    BY <1>0, <1>2 DEF AccountsHaveWallets, AdminInv, AdminIsSeeded, RegisteredInv, OneRegistrationWins,
                      TypeOK, Creating, Process
  <2> QED
    BY <2>1, <2>2, <2>3, <2>4
<1> QED
  BY <1>1, <1>2 DEF InsertUser

\* The rows and waits that the end of a transaction leaves.
LEMMA EndTransactionFrees ==
  ASSUME TypeOK, NEW p \in Process, EndTransaction(p)
  PROVE  /\ inserting' \in [Name -> Process \union {Nobody}]
         /\ \A n \in Name : inserting'[n] # Nobody => inserting'[n] = inserting[n] /\ inserting[n] # p
         /\ \A n \in Name : inserting[n] # p => inserting'[n] = inserting[n]
  BY DEF TypeOK, EndTransaction

\* What publishing an account leaves true of the accounts, whatever becomes of
\* the process.
LEMMA PublishKeepsRows ==
  ASSUME IInv, NEW p \in Process, pc[p] = "wallet", Publish(p), EndTransaction(p)
  PROVE  /\ role' \in [Name -> {"none", "USER", "ADMIN"}] /\ wallets' \subseteq Name
         /\ NameOf(p) \in Name /\ role[NameOf(p)] = "none" /\ role'[NameOf(p)] # "none"
         /\ AccountsHaveWallets'
         /\ \A n \in Name : inserting'[n] # Nobody => role'[n] = "none"
         /\ role'[Admin] \in {"none", "ADMIN"}
         /\ \A n \in Name : role[n] # "none" => role'[n] = role[n]
<1> USE DEF IInv, Publish
<1>1. NameOf(p) \in Name /\ Admin \in Name /\ RoleOf(p) \in {"USER", "ADMIN"}
  BY NamesAreNames, AdminIsName DEF RoleOf
<1>2. inserting[NameOf(p)] = p /\ role[NameOf(p)] = "none"
  BY <1>1, AccountsAssumption DEF InsertInv
<1>3. role' \in [Name -> {"none", "USER", "ADMIN"}] /\ wallets' \subseteq Name
      /\ role'[NameOf(p)] = RoleOf(p)
  BY <1>1 DEF TypeOK
<1>4. AccountsHaveWallets'
  BY <1>1, <1>3 DEF AccountsHaveWallets, TypeOK
<1>5. \A n \in Name : inserting'[n] # Nobody => role'[n] = "none"
  <2>1. ASSUME NEW n \in Name, inserting'[n] # Nobody PROVE role'[n] = "none"
    <3>1. n # NameOf(p) /\ role[n] = "none"
      BY <1>2, <2>1, EndTransactionFrees DEF InsertInv
    <3> QED
      BY <1>1, <3>1 DEF TypeOK
  <2> QED
    BY <2>1
<1>6. role'[Admin] \in {"none", "ADMIN"}
  <2>1. CASE NameOf(p) # Admin
    BY <1>1, <2>1 DEF AdminInv, TypeOK
  <2>2. CASE NameOf(p) = Admin
    <3>1. role[Admin] = "none" /\ ~ appUp
      BY <1>2, <2>2 DEF AdminInv, AdminIsSeeded
    <3>2. p \in Migrator
      BY <3>1 DEF AdminInv, Process
    <3>3. seedAt[p] = 1
      BY <3>1, <3>2 DEF AdminInv, Creating, TypeOK
    <3> QED
      BY <1>1, <1>3, <2>2, <3>2, <3>3 DEF RoleOf
  <2> QED
    BY <2>1, <2>2
<1>7. \A n \in Name : role[n] # "none" => role'[n] = role[n]
  BY <1>1, <1>2 DEF TypeOK
<1> QED
  BY <1>1, <1>2, <1>3, <1>4, <1>5, <1>6, <1>7

LEMMA CommitAccountInvariant ==
  ASSUME IInv, NEW p \in Process, CommitAccount(p)
  PROVE  IInv'
<1> USE AccountsAssumption DEF IInv
<1>0. /\ pc[p] = "wallet" /\ Publish(p) /\ EndTransaction(p) /\ Moved(p, "registered")
      /\ UNCHANGED <<applied, advisory, pending, wanted, faults>>
  BY AccountDoneMoves DEF CommitAccount, Answered
<1>1. /\ role' \in [Name -> {"none", "USER", "ADMIN"}] /\ wallets' \subseteq Name
      /\ NameOf(p) \in Name /\ role[NameOf(p)] = "none" /\ role'[NameOf(p)] # "none"
      /\ AccountsHaveWallets'
      /\ \A n \in Name : inserting'[n] # Nobody => role'[n] = "none"
      /\ role'[Admin] \in {"none", "ADMIN"}
      /\ \A n \in Name : role[n] # "none" => role'[n] = role[n]
  BY <1>0, PublishKeepsRows
<1>2. /\ inserting' \in [Name -> Process \union {Nobody}]
      /\ \A n \in Name : inserting[n] # p => inserting'[n] = inserting[n]
  BY <1>0, EndTransactionFrees
<1>3. TypeOK' /\ LockInv' /\ AppliedInOrder' /\ SchemaInv'
  <2>1. "registered" \in Answered \ {"idle"} /\ pc[p] \in Creating
    BY <1>0 DEF Creating, Answered
  <2> QED
    BY <1>0, <1>1, <1>2, <2>1, MovedKeepsSchema
<1>4. InsertInv'
  <2>1. ASSUME NEW q \in Process, pc'[q] = "wallet" PROVE inserting'[NameOf(q)'] = q
    <3>1. q # p /\ pc[q] = "wallet"
      BY <1>0, <2>1 DEF Moved, TypeOK
    <3>2. NameOf(q)' = NameOf(q) /\ NameOf(q) \in Name
      BY <1>0, <3>1, NamesAreNames DEF Moved, NameOf, TypeOK
    <3>3. inserting[NameOf(q)] = q
      BY <3>1 DEF InsertInv
    <3> QED
      BY <1>2, <3>1, <3>2, <3>3
  <2> QED
    BY <1>1, <2>1 DEF InsertInv
<1>5. AdminInv'
  <2>1. p \in Migrator => role'[Admin] = "ADMIN"
    <3>1. CASE p \in Migrator /\ seedAt[p] = 1
      <4>1. NameOf(p) = Admin
        BY <3>1 DEF NameOf, Admin
      <4> QED
        BY <1>1, <4>1
    <3>2. CASE p \in Migrator /\ seedAt[p] > 1
      <4>1. role[Admin] = "ADMIN" /\ Admin \in Name
        BY <1>0, <3>2, AdminIsName DEF AdminInv, Creating
      <4> QED
        BY <1>1, <4>1
    <3> QED
      BY <3>1, <3>2 DEF TypeOK
  <2>2. role[Admin] = "ADMIN" => role'[Admin] = "ADMIN"
    BY <1>1, AdminIsName
  <2>3. AdminIsSeeded'
    BY <1>0, <2>1, <2>2 DEF AdminInv, AdminIsSeeded, Moved
  <2>4. \A m \in Migrator : (pc[m] \in Creating /\ seedAt[m] > 1)' => role'[Admin] = "ADMIN"
    BY <1>0, <2>1, <2>2 DEF AdminInv, Moved, TypeOK, Process
  <2>5. \A r \in Request : pc'[r] # "idle" => appUp'
    BY <1>0 DEF AdminInv, Moved, TypeOK, Process
  <2> QED
    BY <1>1, <2>3, <2>4, <2>5 DEF AdminInv
<1>6. RegisteredInv'
  <2>1. ASSUME NEW r \in Request, pc'[r] = "registered"
        PROVE  /\ role'[wanted'[r]] # "none"
               /\ wanted[r] = NameOf(p) /\ p \in Request => r = p
    <3>1. CASE r = p
      BY <1>0, <1>1, <3>1 DEF NameOf
    <3>2. CASE r # p
      <4>1. pc[r] = "registered" /\ role[wanted[r]] # "none" /\ wanted[r] \in Name
        BY <1>0, <2>1, <3>2 DEF Moved, RegisteredInv, TypeOK, Process
      <4> QED
        BY <1>0, <1>1, <4>1
    <3> QED
      BY <3>1, <3>2
  <2>2. OneRegistrationWins'
    <3>1. ASSUME NEW r \in Request, NEW q \in Request,
                 pc'[r] = "registered", pc'[q] = "registered", wanted'[r] = wanted'[q]
          PROVE  r = q
      <4>1. CASE r # p /\ q # p
        BY <1>0, <3>1, <4>1 DEF Moved, RegisteredInv, OneRegistrationWins, TypeOK, Process
      <4>2. CASE r = p \/ q = p
        <5>1. wanted[r] = NameOf(p) /\ wanted[q] = NameOf(p) /\ p \in Request
          BY <1>0, <3>1, <4>2 DEF NameOf
        <5> QED
          BY <2>1, <3>1, <5>1
      <4> QED
        BY <4>1, <4>2
    <3> QED
      BY <3>1 DEF OneRegistrationWins
  <2> QED
    BY <2>1, <2>2 DEF RegisteredInv
<1> QED
  BY <1>1, <1>3, <1>4, <1>5, <1>6

LEMMA AccountFailsInvariant ==
  ASSUME IInv, NEW p \in Process, AccountFails(p)
  PROVE  IInv'
<1> USE AccountsAssumption DEF IInv, GoTo
<1>0. /\ pc[p] \in Creating /\ EndTransaction(p)
      /\ pc' = [pc EXCEPT ![p] = IF p \in Request THEN "errored" ELSE "failed"]
      /\ UNCHANGED <<applied, advisory, pending, seedAt, wanted, appUp>>
  BY DEF AccountFails, Rollback
<1>1. /\ role' \in [Name -> {"none", "USER", "ADMIN"}] /\ wallets' \subseteq Name
      /\ AccountsHaveWallets'
      /\ \A n \in Name : inserting'[n] # Nobody => role'[n] = "none"
      /\ role'[Admin] \in {"none", "ADMIN"}
      /\ \A n \in Name : role[n] # "none" => role'[n] = role[n]
  <2>1. CASE UNCHANGED <<role, wallets>>
    <3>1. \A n \in Name : inserting'[n] # Nobody => role'[n] = "none"
      BY <1>0, <2>1, EndTransactionFrees DEF InsertInv
    <3> QED
      BY <2>1, <3>1 DEF TypeOK, AccountsHaveWallets, AdminInv
  <2>2. CASE pc[p] = "wallet" /\ Publish(p)
    BY <1>0, <2>2, PublishKeepsRows
  <2> QED
    BY <2>1, <2>2 DEF AccountFails
<1>2. /\ inserting' \in [Name -> Process \union {Nobody}]
      /\ \A n \in Name : inserting[n] # p => inserting'[n] = inserting[n]
  BY <1>0, EndTransactionFrees
<1>3. TypeOK'
  <2>1. pc' \in [Process -> Migrating \union Creating \union Stopped \union Answered]
    BY <1>0 DEF TypeOK, Stopped, Answered
  <2>2. faults' \in 0 .. MaxFaults
    BY DEF AccountFails, Fault, TypeOK
  <2>3. /\ applied' \subseteq Files /\ advisory' \in Migrator \union {Nobody}
        /\ pending' \in [Migrator -> SUBSET Files] /\ wanted' \in [Request -> Name]
        /\ seedAt' \in [Migrator -> 1 .. Len(SeedNames)]
    BY <1>0 DEF TypeOK
  <2>4. appUp' \in BOOLEAN
    BY <1>0 DEF TypeOK
  <2> QED
    BY <1>1, <1>2, <2>1, <2>2, <2>3, <2>4, Zenon DEF TypeOK
<1>4. LockInv' /\ AppliedInOrder' /\ SchemaInv'
  BY <1>0 DEF LockInv, AppliedInOrder, SchemaInv, SchemaBeforeAccounts, TypeOK, Creating, Process
<1>5. InsertInv'
  <2>1. ASSUME NEW q \in Process, pc'[q] = "wallet" PROVE inserting'[NameOf(q)'] = q
    <3>1. q # p /\ pc[q] = "wallet"
      BY <1>0, <2>1 DEF TypeOK
    <3>2. NameOf(q)' = NameOf(q) /\ NameOf(q) \in Name
      BY <1>0, NamesAreNames DEF NameOf
    <3>3. inserting[NameOf(q)] = q
      BY <3>1 DEF InsertInv
    <3> QED
      BY <1>2, <3>1, <3>2, <3>3
  <2> QED
    BY <1>1, <2>1 DEF InsertInv
<1>6. AdminInv'
  <2>1. role[Admin] = "ADMIN" => role'[Admin] = "ADMIN"
    BY <1>1, AdminIsName
  <2> QED
    BY <1>0, <1>1, <2>1 DEF AdminInv, AdminIsSeeded, TypeOK, Creating, Process
<1>7. RegisteredInv'
  <2>1. \A r \in Request : pc'[r] = "registered" => pc[r] = "registered" /\ wanted[r] \in Name
    BY <1>0 DEF TypeOK, Process
  <2> QED
    BY <1>0, <1>1, <2>1 DEF RegisteredInv, OneRegistrationWins
<1> QED
  BY <1>1, <1>3, <1>4, <1>5, <1>6, <1>7

LEMMA NextInvariant == IInv /\ [Next]_vars => IInv'
<1> SUFFICES ASSUME IInv, [Next]_vars PROVE IInv'
  OBVIOUS
<1>1. ASSUME NEW m \in Migrator, StartMigrate(m) \/ AcquireLock(m) \/ MigrateStep(m) \/ MigrateFails(m)
      PROVE  IInv'
  BY <1>1, StartMigrateInvariant, AcquireLockInvariant, ListPendingInvariant, ApplyFileInvariant,
     UnlockInvariant, MigrateFailsInvariant DEF MigrateStep
<1>2. ASSUME NEW r \in Request, NEW n \in Name, Register(r, n) PROVE IInv'
  BY <1>2, RegisterInvariant
<1>3. ASSUME NEW p \in Process, AccountStep(p) \/ AccountFails(p) PROVE IInv'
  BY <1>3, FindByUsernameInvariant, InsertUserInvariant, CommitAccountInvariant,
     AccountFailsInvariant DEF AccountStep
<1>4. CASE UNCHANGED vars
  BY <1>4 DEF vars, rowsVars, IInv, TypeOK, LockInv, AppliedInOrder, SchemaInv, SchemaBeforeAccounts,
     InsertInv, NameOf, AccountsHaveWallets, AdminInv, AdminIsSeeded, RegisteredInv, OneRegistrationWins
<1> QED
  BY <1>1, <1>2, <1>3, <1>4 DEF Next

\* The inductive invariant holds throughout.
THEOREM Invariant == Spec => []IInv
<1>1. Init => IInv
  BY InitInvariant
<1>2. IInv /\ [Next]_vars => IInv'
  BY NextInvariant
<1> QED
  BY <1>1, <1>2, PTL DEF Spec

\* Every variable of Accounts keeps its type.
THEOREM TypeCorrect == Spec => []TypeOK
<1>1. IInv => TypeOK
  BY DEF IInv
<1> QED
  BY <1>1, Invariant, PTL

\* A migrate process never runs a file on a schema that has it (migrator.js).
THEOREM PendingIsFreshTheorem == Spec => []PendingIsFresh
<1>1. IInv => PendingIsFresh
  BY DEF IInv, LockInv, PendingIsFresh
<1> QED
  BY <1>1, Invariant, PTL

\* Migrations are applied in their order, without gaps (migrator.js).
THEOREM AppliedInOrderTheorem == Spec => []AppliedInOrder
<1>1. IInv => AppliedInOrder
  BY DEF IInv
<1> QED
  BY <1>1, Invariant, PTL

\* No account is created before the whole schema is there (scripts/migrate.js,
\* docker-compose.yml).
THEOREM SchemaBeforeAccountsTheorem == Spec => []SchemaBeforeAccounts
<1>1. IInv => SchemaBeforeAccounts
  BY DEF IInv, SchemaInv
<1> QED
  BY <1>1, Invariant, PTL

\* Users and wallets come in pairs (auth.service.js, seeder.js).
THEOREM AccountsHaveWalletsTheorem == Spec => []AccountsHaveWallets
<1>1. IInv => AccountsHaveWallets
  BY DEF IInv
<1> QED
  BY <1>1, Invariant, PTL

\* Of two registrations of one username at most one succeeds
\* (auth.service.js).
THEOREM OneRegistrationWinsTheorem == Spec => []OneRegistrationWins
<1>1. IInv => OneRegistrationWins
  BY DEF IInv, RegisteredInv
<1> QED
  BY <1>1, Invariant, PTL

\* The API never serves registrations before the admin's account is the
\* admin's (seeder.js, docker-compose.yml).
THEOREM AdminIsSeededTheorem == Spec => []AdminIsSeeded
<1>1. IInv => AdminIsSeeded
  BY DEF IInv, AdminInv
<1> QED
  BY <1>1, Invariant, PTL

-----------------------------------------------------------------------------
(* What EveryProcessEnds rests on besides fairness.                         *)

\* A process that need not wait for another.
Moves(p) ==
    \/ pc[p] \in {"list", "find", "wallet"}
    \/ pc[p] = "apply" /\ (pending[p] = {} \/ \E f \in Files : IsNextFile(p, f))

\* Whoever waits, for the advisory lock or for a rival's INSERT, waits for a process
\* that does not wait itself: no lock is left by one that died, and no two wait for
\* each other.
WaitersWaitForMovers ==
    /\ \A m \in Migrator : pc[m] = "lock" /\ ~LockIsFree => Moves(advisory)
    /\ \A p \in Process : pc[p] = "insert" /\ ~NoRivalInsert(NameOf(p)) =>
          Moves(inserting[NameOf(p)])

\* The lock and the uncommitted rows belong to processes that are at them.
HoldersInv ==
    /\ advisory # Nobody => pc[advisory] \in {"list", "apply"}
    /\ \A n \in Name : inserting[n] # Nobody =>
          pc[inserting[n]] = "wallet" /\ NameOf(inserting[n]) = n

\* A set of files has a first one.
LEMMA FirstFile ==
  ASSUME NEW S \in SUBSET Files, S # {}
  PROVE  \E f \in S : \A g \in S : f <= g
<1>1. S \subseteq Nat
  BY AccountsAssumption DEF Files
<1>2. PICK f \in S : \A g \in S : ~ (<<g, f>> \in OpToRel(<, Nat))
  BY <1>1, WFMin, NatLessThanWellFounded
<1>3. \A g \in S : ~(g < f)
  BY <1>1, <1>2 DEF OpToRel
<1> QED
  BY <1>1, <1>3

\* What an account's end does to its process, and to no other.
LEMMA OthersStay ==
  ASSUME TypeOK, NEW p \in Process, NEW answer, AccountDone(p, answer),
         UNCHANGED wanted, NEW q \in Process, q # p
  PROVE  pc'[q] = pc[q] /\ NameOf(q)' = NameOf(q)
BY DEF AccountDone, GoTo, TypeOK, NameOf, Process

LEMMA HoldersStep == IInv /\ HoldersInv /\ [Next]_vars => HoldersInv'
<1> SUFFICES ASSUME IInv, HoldersInv, [Next]_vars PROVE HoldersInv'
  OBVIOUS
<1> USE AccountsAssumption
<1>a. /\ advisory \in Migrator \union {Nobody}
      /\ inserting \in [Name -> Process \union {Nobody}]
      /\ pc \in [Process -> Migrating \union Creating \union Stopped \union Answered]
      /\ seedAt \in [Migrator -> 1 .. Len(SeedNames)] /\ wanted \in [Request -> Name]
      /\ \A p \in Process : NameOf(p) \in Name
  BY NamesAreNames DEF IInv, TypeOK
<1>1. ASSUME NEW m \in Migrator, NEW next, GoTo(m, next), pc[m] # "wallet",
             UNCHANGED <<inserting, wanted>>,
             \A q \in Migrator \ {m} : seedAt'[q] = seedAt[q],
             advisory' # Nobody => /\ advisory' \in Migrator
                                   /\ IF advisory' = m THEN next \in {"list", "apply"}
                                                       ELSE advisory' = advisory
      PROVE  HoldersInv'
  <2>1. \A q \in Process : q # m => pc'[q] = pc[q] /\ NameOf(q)' = NameOf(q)
    BY <1>1, <1>a DEF GoTo, NameOf
  <2>2. pc'[m] = next
    BY <1>1, <1>a DEF GoTo, Process
  <2>3. advisory' # Nobody => pc'[advisory'] \in {"list", "apply"}
    BY <1>1, <2>1, <2>2 DEF HoldersInv, Process
  <2>4. \A n \in Name : inserting[n] # Nobody => inserting[n] \in Process \ {m}
    BY <1>1, <1>a DEF HoldersInv
  <2> QED
    BY <1>1, <2>1, <2>3, <2>4 DEF HoldersInv
<1>2. ASSUME NEW m \in Migrator, StartMigrate(m) PROVE HoldersInv'
  <2>1. pc[m] \notin {"wallet", "list", "apply"} /\ GoTo(m, "lock")
        /\ UNCHANGED <<advisory, inserting, wanted, seedAt>>
    BY <1>2 DEF StartMigrate, Stopped, rowsVars
  <2> QED
    BY <1>1, <1>a, <2>1 DEF HoldersInv
<1>3. ASSUME NEW m \in Migrator, AcquireLock(m) PROVE HoldersInv'
  <2>1. pc[m] = "lock" /\ GoTo(m, "list") /\ advisory' = m
        /\ UNCHANGED <<inserting, wanted, seedAt>>
    BY <1>3 DEF AcquireLock, rowsVars
  <2> QED
    BY <1>1, <2>1
<1>4. ASSUME NEW m \in Migrator, ListPending(m) PROVE HoldersInv'
  <2>1. pc[m] = "list" /\ GoTo(m, "apply") /\ UNCHANGED <<advisory, inserting, wanted, seedAt>>
    BY <1>4 DEF ListPending, rowsVars
  <2> QED
    BY <1>1, <1>a, <2>1
<1>5. ASSUME NEW m \in Migrator, NEW f \in Files, ApplyFile(m, f) PROVE HoldersInv'
  <2>1. CASE f \in applied
    <3>1. pc[m] = "apply" /\ GoTo(m, "failed") /\ UNCHANGED <<inserting, wanted, seedAt>>
          /\ advisory' = IF advisory = m THEN Nobody ELSE advisory
      BY <1>5, <2>1 DEF ApplyFile, ReleaseAdvisory, rowsVars
    <3> QED
      BY <1>1, <1>a, <3>1
  <2>2. CASE f \notin applied
    BY <1>5, <2>2 DEF ApplyFile, HoldersInv, NameOf, rowsVars
  <2> QED
    BY <2>1, <2>2
<1>6. ASSUME NEW m \in Migrator, Unlock(m) PROVE HoldersInv'
  <2>1. /\ pc[m] = "apply" /\ GoTo(m, "find") /\ UNCHANGED <<inserting, wanted>>
        /\ seedAt' = [seedAt EXCEPT ![m] = 1]
        /\ advisory' = IF advisory = m THEN Nobody ELSE advisory
    BY <1>6 DEF Unlock, ReleaseAdvisory, rowsVars
  <2>2. \A q \in Migrator \ {m} : seedAt'[q] = seedAt[q]
    BY <1>a, <2>1
  <2> QED
    BY <1>1, <1>a, <2>1, <2>2
<1>7. ASSUME NEW m \in Migrator, MigrateFails(m) PROVE HoldersInv'
  <2>1. /\ pc[m] # "wallet" /\ GoTo(m, "failed") /\ UNCHANGED <<inserting, wanted, seedAt>>
        /\ advisory' = IF advisory = m THEN Nobody ELSE advisory
    BY <1>7 DEF MigrateFails, ReleaseAdvisory, Migrating, rowsVars
  <2> QED
    BY <1>1, <1>a, <2>1
<1>8. ASSUME NEW r \in Request, NEW n \in Name, Register(r, n) PROVE HoldersInv'
  <2>1. pc[r] # "wallet" /\ r \notin Migrator /\ r \in Process
    BY <1>8 DEF Register, Answered, Process
  <2>2. /\ pc' = [pc EXCEPT ![r] = "find"] /\ wanted' = [wanted EXCEPT ![r] = n]
        /\ UNCHANGED <<advisory, inserting, seedAt>>
    BY <1>8 DEF Register, GoTo, rowsVars
  <2> QED
    BY <2>1, <2>2, <1>a DEF HoldersInv, NameOf, Process
<1>9. ASSUME NEW p \in Process, pc[p] \in Creating
      PROVE  advisory # p /\ \A n \in Name : inserting[n] = p => pc[p] = "wallet"
  BY <1>9, <1>a DEF HoldersInv, Creating
<1>10. ASSUME NEW p \in Process, FindByUsername(p) PROVE HoldersInv'
  <2>1. pc[p] = "find" /\ UNCHANGED <<advisory, inserting, wanted>>
    BY <1>10 DEF FindByUsername, rowsVars
  <2>2. \A q \in Process : q # p => pc'[q] = pc[q] /\ NameOf(q)' = NameOf(q)
    <3>1. CASE AccountDone(p, "USERNAME_TAKEN")
      BY <2>1, <3>1, OthersStay DEF IInv
    <3>2. CASE GoTo(p, "insert") /\ UNCHANGED seedAt
      BY <2>1, <3>2, <1>a DEF GoTo, NameOf
    <3> QED
      BY <1>10, <3>1, <3>2 DEF FindByUsername
  <2> QED
    BY <2>1, <2>2, <1>9, <1>a DEF HoldersInv, Creating, Process
<1>11. ASSUME NEW p \in Process, InsertUser(p) PROVE HoldersInv'
  <2>1. /\ pc[p] = "insert" /\ UNCHANGED <<advisory, seedAt, wanted>>
        /\ \A q \in Process : q # p => pc'[q] = pc[q]
        /\ \A q \in Process : NameOf(q)' = NameOf(q)
    BY <1>11, <1>a DEF InsertUser, GoTo, NameOf
  <2>2. \/ inserting' = inserting
        \/ pc'[p] = "wallet" /\ inserting' = [inserting EXCEPT ![NameOf(p)] = p]
    BY <1>11, <1>a DEF InsertUser, GoTo
  <2> QED
    BY <2>1, <2>2, <1>9, <1>a DEF HoldersInv, Creating, Process
<1>12. ASSUME NEW p \in Process, pc[p] \in Creating, EndTransaction(p), UNCHANGED advisory,
              \A q \in Process : q # p => pc'[q] = pc[q] /\ NameOf(q)' = NameOf(q)
       PROVE  HoldersInv'
  BY <1>12, <1>9, <1>a DEF HoldersInv, EndTransaction, Process
<1>13. ASSUME NEW p \in Process, CommitAccount(p) PROVE HoldersInv'
  <2>1. /\ AccountDone(p, "registered") /\ UNCHANGED <<advisory, wanted>>
        /\ EndTransaction(p) /\ pc[p] \in Creating
    BY <1>13 DEF CommitAccount, Creating
  <2> QED
    BY <2>1, <1>12, OthersStay DEF IInv
<1>14. ASSUME NEW p \in Process, AccountFails(p) PROVE HoldersInv'
  <2>1. /\ EndTransaction(p) /\ pc[p] \in Creating /\ UNCHANGED <<advisory, seedAt, wanted>>
        /\ \A q \in Process : q # p => pc'[q] = pc[q] /\ NameOf(q)' = NameOf(q)
    BY <1>14, <1>a DEF AccountFails, Rollback, GoTo, NameOf
  <2> QED
    BY <2>1, <1>12
<1>15. CASE UNCHANGED vars
  BY <1>15 DEF vars, rowsVars, HoldersInv, NameOf
<1> QED
  BY <1>2, <1>3, <1>4, <1>5, <1>6, <1>7, <1>8, <1>10, <1>11, <1>13, <1>14, <1>15
     DEF Next, MigrateStep, AccountStep

\* Nobody waits in vain, however many migrate processes and registrations run side
\* by side and wherever they fail (migrator.js:37, pool.js withTransaction).
THEOREM NobodyWaitsInVainTheorem == Spec => []WaitersWaitForMovers
<1>1. Init => HoldersInv
  BY DEF Init, HoldersInv
<1>2. IInv /\ HoldersInv /\ [Next]_vars => HoldersInv'
  BY HoldersStep
<1>3. IInv /\ HoldersInv => WaitersWaitForMovers
  <2> SUFFICES ASSUME IInv, HoldersInv PROVE WaitersWaitForMovers
    OBVIOUS
  <2>1. ASSUME advisory # Nobody PROVE Moves(advisory)
    <3>1. advisory \in Migrator /\ pending[advisory] \in SUBSET Files
      BY <2>1 DEF IInv, TypeOK
    <3>2. pending[advisory] # {} => \E f \in Files : IsNextFile(advisory, f)
      BY <3>1, FirstFile DEF IsNextFile
    <3> QED
      BY <2>1, <3>2 DEF HoldersInv, Moves
  <2>2. ASSUME NEW p \in Process, ~NoRivalInsert(NameOf(p))
        PROVE  Moves(inserting[NameOf(p)])
    BY <2>2, NamesAreNames DEF IInv, HoldersInv, NoRivalInsert, Moves
  <2> QED
    BY <2>1, <2>2 DEF WaitersWaitForMovers, LockIsFree
<1> QED
  BY <1>1, <1>2, <1>3, Invariant, PTL DEF Spec
=============================================================================
