\* A sweep after an interrupted one.
SPECIFICATION MCSpec
CONSTANTS
    h1 = h1  h2 = h2
    c1 = c1  c2 = c2
    p1 = p1  p2 = p2
    d1 = d1  d2 = d2
    Handle = {h1, h2}
    Capture = {c1, c2}
    Dir = {d1, d2}
    Path = {p1, p2}
    Folders <- MCFolders
    l1 = l1  l2 = l2  l3 = l3
    n1 = n1  n2 = n2
    Line = {l1, l2, l3}
    Name = {n1, n2}
    NameOf <- MCNameOf
    Lists <- MCLists
    Last = 1
    Flush = 1
    NoCache = FALSE
    Closed = Closed  Bare = Bare  NoCapture = NoCapture  NoScan = NoScan
    Absent = Absent  Torn = Torn  NoDump = NoDump  NoIds = NoIds
    NoRun = NoRun  NoRow = NoRow  NoText = NoText
    MaxRuns = 2
INVARIANT FailedForCause
CHECK_DEADLOCK FALSE
