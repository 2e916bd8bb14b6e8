SPECIFICATION Spec
CONSTANTS
    c1 = c1
    c2 = c2
    c3 = c3
    i1 = i1
    i2 = i2
    NoPost = NoPost
    NoImage = NoImage
    PostIds = {p1, p2}
    CategoryIds = {uncategorized, news}
    Uncategorized = uncategorized
    InitialCategories = {uncategorized}
    Contents <- TwoBodies
    Images = {i1, i2}
    FirstImage <- TwoImages
    Editors = {e1}
    Writers = {w1, w2}
INVARIANTS
    TypeOK
    ThumbnailIsFirstImage
    OnlyLateArrivalsStay
PROPERTY NothingUndone
SYMMETRY Interchangeable
