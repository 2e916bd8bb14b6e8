SPECIFICATION FairSpec
CONSTANTS
    Emails = {a, b}
    Ips = {x}
    Attempts = {h1, h2}
    MaxPerEmail = 2
    MaxPerIp = 3
    Window = 3
    MaxOutages = 1
INVARIANTS
    TypeOK
    FailuresStayUnlessStray
    SuccessesLeaveNoTrace
    ChecksPerAccount
PROPERTY LimitsReopen
