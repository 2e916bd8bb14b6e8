SPECIFICATION MCSpec
CONSTANTS
    c1 = c1
    c2 = c2
    q1 = q1
    q2 = q2
    post = post
    comment = comment
    ViewsHorizon = 2
    Junk = Junk
    NoPost = NoPost
    NoAddress = NoAddress
    Trusted = {q1, q2}
    Clients = {c1, c2}
    Prefixes <- SomePrefixes
    Routes <- UpToTwoProxies
    Posts = {p1}
    Readers = {r1, r2}
    ViewTtl = 2
    Keys = {post, comment}
    Limit <- Limits
    Window <- Windows
    Horizon = 6
    MaxOutages = 1
    MaxRestarts = 1
INVARIANTS
    TypeOK
    AccountedToItself
    ViewsPerWindow
    ViewsNotLost
    WritesPerWindow
    RetryAfterIsKept
SYMMETRY Interchangeable
