\* Any client of one host after another.
SPECIFICATION MCSpec
CONSTANTS
    h1 = h1  h2 = h2
    c1 = c1  c2 = c2
    d1 = d1  d2 = d2
    Handle = {h1, h2}
    Capture = {c1, c2}
    Dir = {d1}
    Last = 3
    Flush = 2
    NoCache = FALSE
    Closed = Closed  Bare = Bare  NoCapture = NoCapture  NoScan = NoScan
    Absent = Absent  Torn = Torn  NoDump = NoDump  NoIds = NoIds
    MaxCalls = 6
SYMMETRY Twins
INVARIANTS TypeOK ProbeCacheFresh ProbeKnowsItsPlace ManifestMeansWhole OneFramePerBundle ExeMarkersOwn
CHECK_DEADLOCK FALSE
