CONSTANTS
    User = {ali, sara, root}
    Admin = {root}
    Seeded = {ali, root}
    Txn = {t1, t2, t3}
    NoTxn = NoTxn
    Large = {t1}
    Request = {r1, r2}
    Limit = {2}
SPECIFICATION Spec
SYMMETRY Symmetry
INVARIANTS
    HiddenLooksAbsent
    NothingSkipped
    ServerErrorIsFailure
