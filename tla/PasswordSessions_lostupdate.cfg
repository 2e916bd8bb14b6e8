SPECIFICATION Spec
CONSTANTS
    Passwords = {p1, p2}
    Logins = {l1}
    Changers = {c1}
    Resetters = {r1}
    MaxCodes = 2
CHECK_DEADLOCK FALSE
INVARIANT OlderTokensRefused
