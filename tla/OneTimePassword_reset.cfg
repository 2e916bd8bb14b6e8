SPECIFICATION FairSpec
CONSTANTS
    Purposes = {"reset"}
    Senders = {s1, s2}
    Codes = {c1, c2}
    NoCode = NoCode
    Ttl = 4
    Cooldown = 2
    Window = 8
    MaxSends = 2
    MaxAttempts = 3
INVARIANTS
    TypeOK
    GuessesPerCode
    ConsumedOnce
    SendRateBounded
PROPERTIES
    ImplementsOneTimeCode
    ThrottlesOpen
