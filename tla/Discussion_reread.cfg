SPECIFICATION MCSpec
CONSTANTS
    h1 = h1
    h2 = h2
    h3 = h3
    l1 = l1
    l2 = l2
    u1 = u1
    u2 = u2
    p1 = p1
    t1 = t1
    NoRow = NoRow
    NoPost = NoPost
    Posts = {p1}
    Users = {u1, u2}
    Texts = {t1}
    Talkers = {h1, h2, h3}
    Likers = {}
    UserOf <- TwoUsers
    MaxComments = 1
INVARIANT RereadFindsPost
