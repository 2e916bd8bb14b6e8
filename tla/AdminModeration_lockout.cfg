SPECIFICATION Spec
CONSTANTS
    a1 = a1
    a2 = a2
    a3 = a3
    Users = {a1, a2, a3}
    NoUser = NoUser
    Ids = {a1, a2, a3, NoUser}
    Requests = {r1, r2}
    Bodies <- Lockouts
    InitialUsers <- TwoManagersOneMember
    Unverified = {}
    MaxNow = 1
CHECK_DEADLOCK FALSE
INVARIANT SomeManagerRemains
