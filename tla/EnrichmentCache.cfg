SPECIFICATION Spec
CONSTANTS
    c1 = c1
    c2 = c2
    b1 = b1
    d1 = d1
    pr = pr
    issue = issue
    html = html
    n1 = n1
    n2 = n2
    None = None
    Caller = {c1, c2}
    Batcher = {b1}
    Editor = {d1}
    Url = {pr, issue}
    Node = {n1, n2}
    Kind <- MCKind
    GqlNode = n1
    RestNode = n2
    Html = issue
    MaxVersion = 1
    MaxCalls = 2
SYMMETRY MCSymmetry
INVARIANTS
    TypeOK
    AliasesCover
    StaleNeedsAnOverlap
    OneFetchPerKey
CHECK_DEADLOCK FALSE
