SPECIFICATION Spec
CONSTANTS
    p1 = p1
    p2 = p2
    s1 = s1
    k1 = k1
    NoSource = NoSource
    NoInode = NoInode
    NoAnswer = NoAnswer
    NoBlock = NoBlock
    NoEnd = NoEnd
    NoJob = NoJob
    Proc = {p1, p2}
    Stream = {s1}
    Identity = {k1}
    Where <- OwnEntry
    Digest <- TellsApart
    MinLen = {6, 10}
    Rows = {1, 2}
    Unique = 3
    Size <- MCSize
    Blocks = 2
    Seams <- AnySeam
    Inode <- MCInode
    Alike = FALSE
    OpenLocks = FALSE
VIEW Seen
SYMMETRY AnyProc
INVARIANTS
    AnswerRight
