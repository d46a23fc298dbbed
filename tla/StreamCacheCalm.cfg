SPECIFICATION Spec
CONSTANTS
    p1 = p1
    p2 = p2
    c1 = c1
    s1 = s1
    s2 = s2
    old = old
    new = new
    NoVersion = NoVersion
    NoInode = NoInode
    NoStream = NoStream
    NoJob = NoJob
    Proc = {p1, p2}
    Capture = {c1}
    Section = {s1}
    Version <- MCVersion
    Len <- MCLen
    Raw = {}
    NoCache = {}
    Inode <- MCInode
    Leftover <- MCLeftover
    Calm = TRUE
    MapLocks = FALSE
VIEW Seen
SYMMETRY AnyProc
INVARIANTS
    EntryHonest
    ServedIsParsed
PROPERTIES
    PruneLeavesOne
    ImplementsService
