------------------------------ MODULE Accounts ------------------------------
(***************************************************************************)
(* How accounts come to exist: the migrate process (scripts/migrate.js:    *)
(* the migrations under an advisory lock, then the seed without it), which *)
(* may be started several times side by side, and the registrations that   *)
(* the API serves once a migrate process has completed                     *)
(* (docker-compose.yml).                                                   *)
(*                                                                         *)
(* Both create an account in a transaction of its own: a users row, whose  *)
(* username is UNIQUE, then a wallets row.  A row of a running transaction *)
(* is seen by nobody, but an INSERT of the same username waits for that    *)
(* transaction to end.                                                     *)
(***************************************************************************)
EXTENDS Integers, Sequences, FiniteSets

CONSTANTS Name,
          Migrator,   \* migrate processes that can run side by side
          Request,    \* registration requests in the API
          SeedNames,  \* the usernames of runSeed's accounts, the admin first
          LastFile,   \* the migration files are 1 .. LastFile in sorted order
          MaxFaults,  \* bound: failures of statements and processes
          Nobody

Process == Migrator \union Request

ASSUME AccountsAssumption ==
    /\ SeedNames \in Seq(Name) /\ SeedNames # <<>>
    /\ LastFile \in Nat /\ MaxFaults \in Nat
    /\ Migrator \intersect Request = {}
    /\ Nobody \notin Process

VARIABLES
    applied,    \* the rows of schema_migrations
    advisory,   \* who holds pg_advisory_lock(MIGRATION_LOCK_ID)
    role,       \* users.role by committed username, "none" when there is no row
    wallets,    \* the usernames with a committed wallets row
    inserting,  \* the process whose uncommitted row has each username
    pc,         \* the await each process is in, or how it ended
    pending,    \* runMigrations: the files it found to apply
    seedAt,     \* runSeed: the account it is at
    wanted,     \* register: the username asked for
    appUp,      \* whether the API has been started
    faults      \* failures so far

rowsVars == <<role, wallets, inserting>>
vars == <<applied, advisory, rowsVars, pc, pending, seedAt, wanted, appUp, faults>>

Files == 1 .. LastFile
Admin == SeedNames[1]

Migrating == {"lock", "list", "apply"}
Creating == {"find", "insert", "wallet"}
Stopped == {"idle", "done", "failed"}
Answered == {"idle", "registered", "USERNAME_TAKEN", "DUPLICATE_RESOURCE", "errored"}

NameOf(p) == IF p \in Migrator THEN SeedNames[seedAt[p]] ELSE wanted[p]
RoleOf(p) == IF p \in Migrator /\ seedAt[p] = 1 THEN "ADMIN" ELSE "USER"

Init ==
    /\ applied = {} /\ advisory = Nobody
    /\ role = [n \in Name |-> "none"]
    /\ wallets = {}
    /\ inserting = [n \in Name |-> Nobody]
    /\ pc = [p \in Process |-> "idle"]
    /\ pending = [m \in Migrator |-> {}]
    /\ seedAt = [m \in Migrator |-> 1]
    /\ wanted = [r \in Request |-> Admin]
    /\ appUp = FALSE
    /\ faults = 0

Fault == faults < MaxFaults /\ faults' = faults + 1

GoTo(p, next) == pc' = [pc EXCEPT ![p] = next]

-----------------------------------------------------------------------------
(* runMigrations.                                                           *)

\* docker-compose runs the migrate container, at every start.
StartMigrate(m) ==
    /\ pc[m] \in Stopped
    /\ GoTo(m, "lock")
    /\ UNCHANGED <<applied, advisory, rowsVars, pending, seedAt, wanted, appUp, faults>>

LockIsFree == advisory = Nobody

\* pg_advisory_lock waits, and CREATE TABLE IF NOT EXISTS follows under it.
AcquireLock(m) ==
    /\ pc[m] = "lock"
    /\ LockIsFree
    /\ advisory' = m
    /\ GoTo(m, "list")
    /\ UNCHANGED <<applied, rowsVars, pending, seedAt, wanted, appUp, faults>>

ListPending(m) ==
    /\ pc[m] = "list"
    /\ pending' = [pending EXCEPT ![m] = Files \ applied]
    /\ GoTo(m, "apply")
    /\ UNCHANGED <<applied, advisory, rowsVars, seedAt, wanted, appUp, faults>>

IsNextFile(m, f) == f \in pending[m] /\ \A g \in pending[m] : f <= g

\* A session's end, or its unlock, frees the advisory lock it holds.
ReleaseAdvisory(m) == advisory' = IF advisory = m THEN Nobody ELSE advisory

\* One file and its schema_migrations row, in one transaction.  The SQL of a
\* file that is there already fails (its types and tables exist).
ApplyFile(m, f) ==
    /\ pc[m] = "apply"
    /\ IsNextFile(m, f)
    /\ IF f \in applied
       THEN /\ GoTo(m, "failed")
            /\ ReleaseAdvisory(m)
            /\ UNCHANGED <<applied, pending>>
       ELSE /\ applied' = applied \union {f}
            /\ pending' = [pending EXCEPT ![m] = @ \ {f}]
            /\ UNCHANGED <<advisory, pc>>
    /\ UNCHANGED <<rowsVars, seedAt, wanted, appUp, faults>>

\* The lock is given back before the seed starts.
Unlock(m) ==
    /\ pc[m] = "apply"
    /\ pending[m] = {}
    /\ ReleaseAdvisory(m)
    /\ GoTo(m, "find")
    /\ seedAt' = [seedAt EXCEPT ![m] = 1]
    /\ UNCHANGED <<applied, rowsVars, pending, wanted, appUp, faults>>

\* A statement fails or the process dies: the file in hand is rolled back and
\* the process exits, its session's lock with it.
MigrateFails(m) ==
    /\ pc[m] \in Migrating
    /\ Fault
    /\ GoTo(m, "failed")
    /\ ReleaseAdvisory(m)
    /\ UNCHANGED <<applied, rowsVars, pending, seedAt, wanted, appUp>>

-----------------------------------------------------------------------------
(* ensureUser and register: one account, by a migrate process or a request. *)

\* Mutant of ApiIsUp: the API does not wait for the migrate container.
ApiIsAlwaysUp == TRUE

ApiIsUp == appUp

Register(r, n) ==
    /\ ApiIsUp
    /\ pc[r] \in Answered
    /\ GoTo(r, "find")
    /\ wanted' = [wanted EXCEPT ![r] = n]
    /\ UNCHANGED <<applied, advisory, rowsVars, pending, seedAt, appUp, faults>>

\* After an account, a request answers; runSeed goes to its next account, or
\* the process completes, and the API may be started.
AccountDone(p, answer) ==
    IF p \in Request
    THEN GoTo(p, answer) /\ UNCHANGED <<seedAt, appUp>>
    ELSE IF seedAt[p] < Len(SeedNames)
    THEN /\ GoTo(p, "find")
         /\ seedAt' = [seedAt EXCEPT ![p] = @ + 1]
         /\ UNCHANGED appUp
    ELSE GoTo(p, "done") /\ appUp' = TRUE /\ UNCHANGED seedAt

\* findByUsername; the password is hashed before anything else is awaited.
FindByUsername(p) ==
    /\ pc[p] = "find"
    /\ IF role[NameOf(p)] # "none"
       THEN AccountDone(p, "USERNAME_TAKEN")
       ELSE GoTo(p, "insert") /\ UNCHANGED <<seedAt, appUp>>
    /\ UNCHANGED <<applied, advisory, rowsVars, pending, wanted, faults>>

\* Mutant of NoRivalInsert: users_username_key is not UNIQUE.
RivalsIgnored(n) == TRUE

NoRivalInsert(n) == inserting[n] = Nobody

\* Mutant of InsertUser: no BEGIN, so the users row is committed on its own.
InsertUserAlone(p) ==
    /\ pc[p] = "insert"
    /\ NoRivalInsert(NameOf(p))
    /\ role[NameOf(p)] = "none"
    /\ GoTo(p, "wallet")
    /\ role' = [role EXCEPT ![NameOf(p)] = RoleOf(p)]
    /\ UNCHANGED <<applied, advisory, wallets, inserting, pending, seedAt, wanted, appUp, faults>>

\* INSERT INTO users: waits for a transaction that is inserting the same name,
\* and fails with 23505 if the name is there: DUPLICATE_RESOURCE from the API,
\* and the end of a migrate process.
InsertUser(p) ==
    /\ pc[p] = "insert"
    /\ NoRivalInsert(NameOf(p))
    /\ IF role[NameOf(p)] # "none"
       THEN /\ GoTo(p, IF p \in Request THEN "DUPLICATE_RESOURCE" ELSE "failed")
            /\ UNCHANGED inserting
       ELSE /\ GoTo(p, "wallet")
            /\ inserting' = [inserting EXCEPT ![NameOf(p)] = p]
    /\ UNCHANGED <<applied, advisory, role, wallets, pending, seedAt, wanted, appUp, faults>>

\* The session's transaction ends, one way or the other.
EndTransaction(p) ==
    inserting' = [n \in Name |-> IF inserting[n] = p THEN Nobody ELSE inserting[n]]

Publish(p) == /\ role' = [role EXCEPT ![NameOf(p)] = RoleOf(p)]
              /\ wallets' = wallets \union {NameOf(p)}

\* INSERT INTO wallets and COMMIT.
CommitAccount(p) ==
    /\ pc[p] = "wallet"
    /\ Publish(p)
    /\ EndTransaction(p)
    /\ AccountDone(p, "registered")
    /\ UNCHANGED <<applied, advisory, pending, wanted, faults>>

\* Mutant of Rollback: the connection goes back to the pool inside its
\* transaction.
RollbackForgotten(p) == UNCHANGED inserting

\* withTransaction's catch, or the server's for a lost connection.
Rollback(p) == EndTransaction(p)

\* A statement fails or a process dies: rolled back, or committed without
\* anybody being told.  The caller gets an error, a migrate process ends.
AccountFails(p) ==
    /\ pc[p] \in Creating
    /\ Fault
    /\ \/ UNCHANGED <<role, wallets>>
       \/ pc[p] = "wallet" /\ Publish(p)
    /\ Rollback(p)
    /\ GoTo(p, IF p \in Request THEN "errored" ELSE "failed")
    /\ UNCHANGED <<applied, advisory, pending, seedAt, wanted, appUp>>

-----------------------------------------------------------------------------
AccountStep(p) == FindByUsername(p) \/ InsertUser(p) \/ CommitAccount(p)

MigrateStep(m) == \/ ListPending(m)
                  \/ \E f \in Files : ApplyFile(m, f)
                  \/ Unlock(m)

Next ==
    \/ \E m \in Migrator : \/ StartMigrate(m)
                           \/ AcquireLock(m)
                           \/ MigrateStep(m)
                           \/ MigrateFails(m)
    \/ \E r \in Request, n \in Name : Register(r, n)
    \/ \E p \in Process : AccountStep(p) \/ AccountFails(p)

Spec == Init /\ [][Next]_vars

\* Every await settles, and PostgreSQL grants an advisory lock to its waiters
\* in the order they asked, so none is passed over for ever.
FairSpec ==
    /\ Spec
    /\ \A m \in Migrator : SF_vars(AcquireLock(m)) /\ WF_vars(MigrateStep(m))
    /\ \A p \in Process : WF_vars(AccountStep(p))

-----------------------------------------------------------------------------
(* Properties.                                                              *)

\* Every variable holds values of its kind.
TypeOK ==
    /\ applied \subseteq Files
    /\ advisory \in Migrator \union {Nobody}
    /\ role \in [Name -> {"none", "USER", "ADMIN"}]
    /\ wallets \subseteq Name
    /\ inserting \in [Name -> Process \union {Nobody}]
    /\ pc \in [Process -> Migrating \union Creating \union Stopped \union Answered]
    /\ pending \in [Migrator -> SUBSET Files]
    /\ seedAt \in [Migrator -> 1 .. Len(SeedNames)]
    /\ wanted \in [Request -> Name]
    /\ appUp \in BOOLEAN
    /\ faults \in 0 .. MaxFaults

\* What a migrate process found to apply under the lock is still to be
\* applied when it gets to it, whatever other processes started, crashed or
\* completed meanwhile: no file is ever run on a schema that has it.
PendingIsFresh == \A m \in Migrator : pc[m] = "apply" => pending[m] \intersect applied = {}

\* Files are applied in their order, without gaps.
AppliedInOrder == \A f \in applied : \A g \in Files : g < f => g \in applied

\* No account is looked for or inserted before the whole schema is there,
\* triggers included: an opening balance never goes without its ledger row.
SchemaBeforeAccounts == \A p \in Process : pc[p] \in Creating => applied = Files

\* Every user has a wallet and every wallet its user, through failures
\* between the two INSERTs and unacknowledged commits.
AccountsHaveWallets == wallets = {n \in Name : role[n] # "none"}

\* Two registrations of one username never both succeed, in whatever order
\* their lookups, inserts and commits interleave.
OneRegistrationWins ==
    \A r, q \in Request :
        pc[r] = "registered" /\ pc[q] = "registered" /\ wanted[r] = wanted[q] => r = q

\* The username of the seeded admin is the admin's whenever the API serves
\* registrations: nobody can have taken it first (README: "The admin account
\* is created by the seed, not through the API").
AdminIsSeeded == appUp => role[Admin] = "ADMIN"

\* Every migrate process and every registration ends: no lock is kept by one
\* that is gone, and no two wait for each other.
Busy == Migrating \union Creating
EveryProcessEnds == \A p \in Process : pc[p] \in Busy ~> pc[p] \notin Busy
=============================================================================
