CONSTANTS
    admin = admin
    demo = demo
    Name = {admin, demo, reza}
    SeedNames <- MCSeedNames
    Migrator = {m1, m2}
    Request = {r1, r2}
    LastFile = 2
    MaxFaults = 2
    Nobody = nobody
SPECIFICATION FairSpec
INVARIANTS
    AccountsHaveWallets
    OneRegistrationWins
    AdminIsSeeded
PROPERTIES
    EveryProcessEnds
CHECK_DEADLOCK FALSE
