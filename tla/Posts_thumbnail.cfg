SPECIFICATION Spec
CONSTANTS
    c1 = c1
    c2 = c2
    c3 = c3
    i1 = i1
    i2 = i2
    NoPost = NoPost
    NoImage = NoImage
    PostIds = {p1}
    CategoryIds = {uncategorized}
    Uncategorized = uncategorized
    InitialCategories = {uncategorized}
    Contents <- ThreeBodies
    Images = {i1, i2}
    FirstImage <- SharedImage
    Editors = {e1, e2}
    Writers = {w1}
INVARIANT ThumbnailIsFirstImage
