SPECIFICATION MCSpec
CONSTANTS
    h1 = h1
    h2 = h2
    h3 = h3
    l1 = l1
    l2 = l2
    u1 = u1
    u2 = u2
    p1 = p1
    t1 = t1
    NoRow = NoRow
    NoPost = NoPost
    Posts = {p1, p2}
    Users = {u1, u2}
    Texts = {t1, t2}
    Talkers = {h1, h2, h3}
    Likers = {l1, l2}
    UserOf <- TwoUsers
    MaxComments = 3
INVARIANTS
    TypeOK
    AnswersShownWithParent
    LikesFollowPresses
PROPERTY DeletedCommentsStay
