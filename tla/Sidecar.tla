------------------------------ MODULE Sidecar ------------------------------
(***************************************************************************)
(* Derived answers kept beside a cached stream: `.strings.json`,           *)
(* `.names.json`, `.bindnames.json` and `.psos.json`.  One path per stream *)
(* identity holds one JSON document, stamped with the stream's digest and  *)
(* with the question it answers; a document that does not match is a miss  *)
(* and the scan is run.  Unlike the stream cache the temporary name is     *)
(* shared by every writer, so two of them may write one inode at once: a   *)
(* file is therefore modelled block by block, as the writes land, and what *)
(* two documents leave of each other may read as one document again.       *)
(***************************************************************************)
EXTENDS Naturals, FiniteSets

CONSTANTS
    Proc,        \* processes running a command that scans a stream
    Stream,      \* decompressed streams
    Identity,    \* stream-cache names (capture, version, section)
    Where,       \* Where[s]: the cache entries stream_source may return for s
    Digest,      \* Digest[s]: stream_digest and the length, what a document is stamped with
    MinLen,      \* the minimum string lengths asked for
    Rows,        \* the numbers of ranked rows asked for
    Unique,      \* how many rows a scan has in all
    Size,        \* Size[n]: blocks the document of n rows takes on disk
    Blocks,      \* the largest Size
    Seams,       \* <<t, u, b>>: t's document up to block b and u's after it read as one, with u's length that of t
    Inode,
    Alike,       \* TRUE: commands that work on one sidecar at once ask for one text
    OpenLocks,   \* TRUE: a file another process has open cannot be renamed or removed (Windows)
    NoSource, NoInode, NoAnswer, NoBlock, NoEnd, NoJob

Least(a, b) == IF a <= b THEN a ELSE b
Block == 1 .. Blocks
Stored == {Least(n, Unique) : n \in Rows}
Question == [stream : Stream, at : Identity \cup {NoSource}, minlen : MinLen, rows : Rows]
Document == [stream : Stream, minlen : MinLen, rows : Stored]

(* What is printed: a document, whole if all its rows are of one text.       *)
Answer == [stream : Stream, minlen : MinLen, rows : Stored, whole : BOOLEAN]

(* What a document says but for how many of the ranked rows it holds.        *)
Text == [stream : Stream, minlen : MinLen]
TextOf(d) == [stream |-> d.stream, minlen |-> d.minlen]

(* Documents of one text agree block by block until one of them ends.        *)
Piece == [text : Text, ends : Stored \cup {NoEnd}]
File == [Block -> Piece \cup {NoBlock}]

ASSUME SidecarAssumption ==
    /\ Where \in [Stream -> SUBSET (Identity \cup {NoSource})]
    /\ Rows \subseteq Nat /\ Unique \in Nat
    /\ Inode \subseteq Nat
    /\ Blocks \in Nat
    /\ Size \in [Stored -> Block]
    /\ Seams \subseteq Text \X Text \X Block
    /\ OpenLocks \in BOOLEAN /\ Alike \in BOOLEAN
    /\ NoSource \notin Identity /\ NoInode \notin Inode
    /\ NoJob \notin Question
    /\ NoAnswer \notin Answer /\ NoBlock \notin Piece /\ NoEnd \notin Stored

VARIABLES
    entry,       \* entry[k]: inode of the sidecar, or NoInode
    tmp,         \* tmp[k]: inode of `<sidecar>.tmp`
    data,        \* data[i]: the blocks of file i
    pc, job,
    fd,          \* inode a process has open, for reading or writing
    at,          \* next block it reads or writes
    copy,        \* the blocks a reader has read so far
    answer       \* what the command will print

fileVars == <<entry, tmp, data>>
procVars == <<pc, job, fd, at, copy, answer>>
vars == <<fileVars, procVars>>

-----------------------------------------------------------------------------
Empty == [b \in Block |-> NoBlock]

(* json.dump: one block of a document.                                       *)
PieceOf(d, b) == [text |-> TextOf(d), ends |-> IF b = Size[d.rows] THEN d.rows ELSE NoEnd]

(* json.load: a hole, a cut tail or text after the end do not parse.  Blocks *)
(* of two texts do where the seam between them happens to fit, as inside a   *)
(* string of both; the stamp is then that of the first block, and the rows   *)
(* are as many as it may be.                                                 *)
Joins(f, b) == f[b].text = f[b + 1].text \/ <<f[b].text, f[b + 1].text, b>> \in Seams
Parsed(f) ==
    {d \in Answer : \E n \in Block :
        /\ \A b \in Block : f[b] # NoBlock <=> b <= n
        /\ \A b \in 1 .. n : f[b].ends # NoEnd <=> b = n
        /\ \A b \in 1 .. n - 1 : Joins(f, b)
        /\ TextOf(d) = f[1].text
        /\ d.whole <=> \A b \in 1 .. n : f[b].text = f[1].text
        /\ d.whole => d.rows = f[n].ends}

(* The checks of _load_string_rows / _load_name_rows / _load_index.          *)
AcceptsAnyMinlen(d, q) ==
    /\ Digest[d.stream] = Digest[q.stream]
    /\ d.rows >= q.rows \/ d.rows >= Unique
Accepts(d, q) ==
    /\ Digest[d.stream] = Digest[q.stream]
    /\ d.minlen = q.minlen
    /\ d.rows >= q.rows \/ d.rows >= Unique

(* What the scan of the stream gives: scan_runs, ranked and cut to q.rows.   *)
ScanOf(q) == [stream |-> q.stream, minlen |-> q.minlen, rows |-> Least(q.rows, Unique), whole |-> TRUE]

Path(p) == job[p].at

Free(i) ==
    /\ \A k \in Identity : entry[k] # i /\ tmp[k] # i
    /\ \A p \in Proc : fd[p] # i

Fresh(i) == Free(i) /\ \A j \in Inode : Free(j) => i <= j

HeldByOther(p, i) == OpenLocks /\ i # NoInode /\ \E q \in Proc \ {p} : fd[q] = i

Init ==
    /\ entry = [k \in Identity |-> NoInode]
    /\ tmp = [k \in Identity |-> NoInode]
    /\ data = [i \in Inode |-> Empty]
    /\ pc = [p \in Proc |-> "idle"]
    /\ job = [p \in Proc |-> NoJob]
    /\ fd = [p \in Proc |-> NoInode]
    /\ at = [p \in Proc |-> 1]
    /\ copy = [p \in Proc |-> Empty]
    /\ answer = [p \in Proc |-> NoAnswer]

-----------------------------------------------------------------------------
(* A command asks; without a cache entry (stream_source gave None) there is  *)
(* no sidecar and the scan is its only answer.                               *)
Welcome(q) ==
    Alike /\ q.at # NoSource =>
        \A o \in Proc : pc[o] # "idle" /\ job[o].at = q.at => TextOf(job[o]) = TextOf(q)

Ask(p) ==
    /\ pc[p] = "idle"
    /\ \E q \in Question :
          /\ q.at \in Where[q.stream] /\ Welcome(q)
          /\ job' = [job EXCEPT ![p] = q]
          /\ pc' = [pc EXCEPT ![p] = IF q.at = NoSource THEN "scan" ELSE "load"]
    /\ UNCHANGED <<fileVars, fd, at, copy, answer>>

OpenSidecarUnchecked(p) ==
    /\ pc[p] = "load"
    /\ fd' = [fd EXCEPT ![p] = entry[Path(p)]]
    /\ pc' = [pc EXCEPT ![p] = "read"]
    /\ UNCHANGED <<fileVars, job, at, copy, answer>>
OpenSidecar(p) ==
    /\ pc[p] = "load"
    /\ IF entry[Path(p)] = NoInode
       THEN pc' = [pc EXCEPT ![p] = "scan"] /\ UNCHANGED fd
       ELSE /\ fd' = [fd EXCEPT ![p] = entry[Path(p)]]
            /\ pc' = [pc EXCEPT ![p] = "read"]
    /\ UNCHANGED <<fileVars, job, at, copy, answer>>

ReadBlock(p) ==
    /\ pc[p] = "read"
    /\ at[p] \in Block
    /\ copy' = [copy EXCEPT ![p][at[p]] = data[fd[p]][at[p]]]
    /\ at' = [at EXCEPT ![p] = @ + 1]
    /\ UNCHANGED <<fileVars, pc, job, fd, answer>>

(* The text is complete: serve the document or scan, never an error.         *)
Judge(p) ==
    /\ pc[p] = "read"
    /\ at[p] \notin Block
    /\ LET fit == {d \in Parsed(copy[p]) : Accepts(d, job[p])}
       IN IF fit = {}
          THEN pc' = [pc EXCEPT ![p] = "scan"] /\ UNCHANGED answer
          ELSE /\ \E d \in fit : answer' = [answer EXCEPT ![p] = d]
               /\ pc' = [pc EXCEPT ![p] = "done"]
    /\ fd' = [fd EXCEPT ![p] = NoInode]
    /\ at' = [at EXCEPT ![p] = 1]
    /\ copy' = [copy EXCEPT ![p] = Empty]
    /\ UNCHANGED <<fileVars, job>>

Scan(p) ==
    /\ pc[p] = "scan"
    /\ answer' = [answer EXCEPT ![p] = ScanOf(job[p])]
    /\ pc' = [pc EXCEPT ![p] = IF job[p].at = NoSource THEN "done" ELSE "open"]
    /\ UNCHANGED <<fileVars, job, fd, at, copy>>

(* open(path + '.tmp', 'w'): whoever wrote it, the file is truncated.        *)
OpenTmpUntruncated(p) ==
    /\ pc[p] = "open"
    /\ \E i \in Inode :
          /\ IF tmp[Path(p)] = NoInode THEN Fresh(i) ELSE i = tmp[Path(p)]
          /\ tmp' = [tmp EXCEPT ![Path(p)] = i]
          /\ data' = [data EXCEPT ![i] = IF tmp[Path(p)] = NoInode THEN Empty ELSE @]
          /\ fd' = [fd EXCEPT ![p] = i]
    /\ pc' = [pc EXCEPT ![p] = "write"]
    /\ UNCHANGED <<entry, job, at, copy, answer>>
OpenTmp(p) ==
    /\ pc[p] = "open"
    /\ \E i \in Inode :
          /\ IF tmp[Path(p)] = NoInode THEN Fresh(i) ELSE i = tmp[Path(p)]
          /\ tmp' = [tmp EXCEPT ![Path(p)] = i]
          /\ data' = [data EXCEPT ![i] = Empty]
          /\ fd' = [fd EXCEPT ![p] = i]
    /\ pc' = [pc EXCEPT ![p] = "write"]
    /\ UNCHANGED <<entry, job, at, copy, answer>>

WriteBlock(p) ==
    /\ pc[p] = "write"
    /\ at[p] <= Size[answer[p].rows]
    /\ data' = [data EXCEPT ![fd[p]][at[p]] = PieceOf(answer[p], at[p])]
    /\ at' = [at EXCEPT ![p] = @ + 1]
    /\ UNCHANGED <<entry, tmp, pc, job, fd, copy, answer>>

CloseTmp(p) ==
    /\ pc[p] = "write"
    /\ at[p] > Size[answer[p].rows]
    /\ fd' = [fd EXCEPT ![p] = NoInode]
    /\ at' = [at EXCEPT ![p] = 1]
    /\ pc' = [pc EXCEPT ![p] = "rename"]
    /\ UNCHANGED <<fileVars, job, copy, answer>>

(* os.replace(tmp, path): by name, whatever the name refers to by now.       *)
Publish(p) ==
    /\ pc[p] = "rename"
    /\ LET k == Path(p)
       IN /\ tmp[k] # NoInode
          /\ ~HeldByOther(p, tmp[k]) /\ ~HeldByOther(p, entry[k])
          /\ entry' = [entry EXCEPT ![k] = tmp[k]]
          /\ tmp' = [tmp EXCEPT ![k] = NoInode]
    /\ pc' = [pc EXCEPT ![p] = "done"]
    /\ UNCHANGED <<data, job, fd, at, copy, answer>>

(* OSError in open, write or replace: the temporary file is removed.         *)
StoreFails(p) ==
    /\ pc[p] \in {"open", "write", "rename"}
    /\ fd' = [fd EXCEPT ![p] = NoInode]
    /\ at' = [at EXCEPT ![p] = 1]
    /\ pc' = [pc EXCEPT ![p] = "discard"]
    /\ UNCHANGED <<fileVars, job, copy, answer>>

Discard(p) ==
    /\ pc[p] = "discard"
    /\ tmp' = IF HeldByOther(p, tmp[Path(p)])
              THEN tmp ELSE [tmp EXCEPT ![Path(p)] = NoInode]
    /\ pc' = [pc EXCEPT ![p] = "done"]
    /\ UNCHANGED <<entry, data, job, fd, at, copy, answer>>

Exit(p) ==
    /\ pc' = [pc EXCEPT ![p] = "idle"]
    /\ job' = [job EXCEPT ![p] = NoJob]
    /\ fd' = [fd EXCEPT ![p] = NoInode]
    /\ at' = [at EXCEPT ![p] = 1]
    /\ copy' = [copy EXCEPT ![p] = Empty]
    /\ answer' = [answer EXCEPT ![p] = NoAnswer]
    /\ UNCHANGED fileVars

Finish(p) == pc[p] = "done" /\ Exit(p)

Crash(p) == pc[p] \notin {"idle", "done"} /\ Exit(p)

(* A `cache clear` running elsewhere reaches one of the files it listed.     *)
Clear(k) ==
    /\ \A p \in Proc : fd[p] # NoInode /\ OpenLocks => fd[p] \notin {entry[k], tmp[k]}
    /\ \/ entry' = [entry EXCEPT ![k] = NoInode] /\ UNCHANGED tmp
       \/ tmp' = [tmp EXCEPT ![k] = NoInode] /\ UNCHANGED entry
    /\ UNCHANGED <<data, procVars>>

Step(p) ==
    \/ OpenSidecar(p) \/ ReadBlock(p) \/ Judge(p) \/ Scan(p)
    \/ OpenTmp(p) \/ WriteBlock(p) \/ CloseTmp(p) \/ Publish(p) \/ StoreFails(p) \/ Discard(p)
    \/ Finish(p)

Next ==
    \/ \E p \in Proc : Ask(p) \/ Step(p) \/ Crash(p)
    \/ \E k \in Identity : Clear(k)

Spec == Init /\ [][Next]_vars

-----------------------------------------------------------------------------
TypeOK ==
    /\ entry \in [Identity -> Inode \cup {NoInode}]
    /\ tmp \in [Identity -> Inode \cup {NoInode}]
    /\ data \in [Inode -> File]
    /\ pc \in [Proc -> {"idle", "load", "read", "scan", "open", "write", "rename",
                        "discard", "done"}]
    /\ job \in [Proc -> Question \cup {NoJob}]
    /\ fd \in [Proc -> Inode \cup {NoInode}]
    /\ at \in [Proc -> Nat \ {0}]
    /\ copy \in [Proc -> File]
    /\ answer \in [Proc -> Answer \cup {NoAnswer}]
    /\ \A p \in Proc :
          /\ pc[p] # "idle" => job[p] \in Question
          /\ pc[p] \in {"read", "write"} => fd[p] \in Inode
          /\ pc[p] \in {"load", "read", "open", "write", "rename", "discard"} =>
                job[p].at \in Identity
          /\ pc[p] \in {"open", "write", "rename", "discard", "done"} => answer[p] \in Answer

(* "the output is unchanged and byte-identical either way" (cmd_strings):    *)
(* what is printed answers the question that was asked, about the stream     *)
(* that was decompressed, with every row asked for that exists and none of   *)
(* another document -- although writers share a temporary name, files are    *)
(* torn, killed runs leave halves and a `cache clear` removes any of it at   *)
(* any time.  True of commands Alike, whose texts agree; a second minimum    *)
(* length at the same time is enough to splice two documents that parse.     *)
AnswerRight ==
    \A p \in Proc : answer[p] # NoAnswer =>
        /\ TextOf(answer[p]) = TextOf(job[p]) /\ answer[p].whole
        /\ answer[p].rows >= Least(job[p].rows, Unique)
=============================================================================
