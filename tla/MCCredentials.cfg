SPECIFICATION Spec
CONSTANTS
    NoTurn = noTurn
    Nobody = nobody
    Other = other
    None = none
    Login = login
    Pending = pending
    Plan = plan
    t1 = t1
    t2 = t2
    t3 = t3
    a = a
    b = b
    c = c
    x = x
    y = y
    p = p
    q = q
    j1 = j1
    j2 = j2
    j3 = j3
INVARIANTS
    RenewalsAreKept
    SignInsAreTheirOwn
    AccountsStandOnce
PROPERTIES
    CustodyIsKept
    VaultAndRegistryAgree
    GrantsSpendTheNodesOwn
    EveryAskEnds
CHECK_DEADLOCK FALSE
