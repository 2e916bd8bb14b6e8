SPECIFICATION Spec
CONSTANTS
    Passwords = {p1, p2}
    Logins = {l1, l2}
    Changers = {c1}
    Resetters = {r1}
    MaxCodes = 3
CHECK_DEADLOCK FALSE
INVARIANTS
    TypeOK
    SessionsEndUnlessRaced
    TokensKnowPasswordUnlessRaced
    EachWriteHasItsCode
