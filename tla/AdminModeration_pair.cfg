SPECIFICATION FairSpec
CONSTANTS
    a1 = a1
    a2 = a2
    a3 = a3
    Users = {a1, a2, a3}
    NoUser = NoUser
    Ids = {a1, a2, a3, NoUser}
    Requests = {r1, r2}
    Bodies <- SomeBodies
    InitialUsers <- TwoManagersOneMember
    Unverified = {a2}
    MaxNow = 2
CHECK_DEADLOCK FALSE
INVARIANTS
    TypeOK
    LogExplainsUsers
    LogIsChained
    ActsOnCommittedAuthority
PROPERTIES
    ImplementsLedger
    OnlyOverlapLocksOut
    EveryRequestAnswered
