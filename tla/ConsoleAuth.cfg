\* Three requests: a claim and two that race each other.
SPECIFICATION Spec
CONSTANTS
    Requests = {r1, r2, r3}
    Names = {admin, other}
    Admin = admin
    Addresses = {home}
    UserLimit = 2
    IpLimit = 2
    Window = 1
    MaxNow = 2
SYMMETRY RequestSymmetry
INVARIANTS
    TypeOK ClaimedOnce StepUsedOnce BudgetIsFailures RevocationIsFinal
    OldPasswordNeedsARace
CHECK_DEADLOCK FALSE
