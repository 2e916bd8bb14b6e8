SPECIFICATION Spec
CONSTANTS
    Emails = {e1, e2}
    Nicknames = {n1, n2}
    Files = {f1, f2, f3}
    Handlers = {h1, h2}
    None = None
INVARIANTS
    TypeOK
    NamedFilesExist
    LeftoversExplained
    OnlyRenamesAreRefused
SYMMETRY Symmetry
