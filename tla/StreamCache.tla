---------------------------- MODULE StreamCache ----------------------------
(***************************************************************************)
(* The decompressed-stream cache of src/py/rdc_cache.py: a directory that  *)
(* any number of command processes share with no lock.  Each process runs  *)
(* `load_stream`, `stream_stats` or `cache clear`, one file-system call a  *)
(* step, and may be killed between any two of them.                        *)
(*                                                                         *)
(* A directory entry is a name bound to an inode, because that is what the *)
(* design rests on: the temporary name carries the pid, the rename moves   *)
(* the inode under the final name, and a reader's map keeps the inode when *)
(* the name goes.  A file holds a header (the key it was stored under, the *)
(* length of its stream) and a stream (the version it was decoded from).   *)
(***************************************************************************)
EXTENDS Naturals, FiniteSets

CONSTANTS
    Proc,         \* processes: a pid each, reused by the next command
    Capture,      \* capture paths (normcase(abspath), as _cache_identity spells them)
    Section,      \* section indices
    Version,      \* contents of a capture; its (size, mtime) identity is the version
    Len,          \* Len[v]: uncompLen, the bytes v's sections decompress to
    Raw,          \* versions whose sections are stored raw (METHOD_RAW)
    NoCache,      \* processes started with $RDC_NO_CACHE
    Inode,        \* inodes of the cache directory's file system
    Leftover,     \* contents an earlier run or tool version may have left in an entry
    Calm,         \* TRUE: nobody replaces a capture while a command runs on it
    MapLocks,     \* TRUE: a mapped or open file cannot be replaced or removed (Windows)
    NoVersion, NoInode, NoStream, NoJob

Key == [cap : Capture, ver : Version, sec : Section]
TmpFile == Key \X Proc
Stream == [ver : Version, len : Nat]
Content == [extent : {"empty", "head", "whole"}, key : Key, len : Nat, body : Version]
Job == [op : {"load", "stats"}, cap : Capture, sec : Section]

ASSUME ConstantAssumption ==
    /\ Capture # {} /\ Section # {} /\ Version # {}
    /\ Len \in [Version -> Nat]
    /\ Raw \subseteq Version
    /\ NoCache \subseteq Proc
    /\ Inode \subseteq Nat
    /\ Leftover \subseteq Content
    /\ Calm \in BOOLEAN /\ MapLocks \in BOOLEAN
    /\ NoVersion \notin Version
    /\ NoInode \notin Inode
    /\ NoStream \notin Stream
    /\ NoJob \notin Job

(* No leftover claims a whole stream that its own key does not decode to.    *)
ASSUME LeftoverAssumption ==
    \A f \in Leftover :
        f.extent # "empty" /\ f.len >= Len[f.key.ver] =>
            f.body = f.key.ver /\ f.len = Len[f.key.ver]

VARIABLES
    version,      \* version[c]: what the capture path holds
    entry,        \* entry[k]: the inode under k's final name, or NoInode
    tmp,          \* tmp[n]: the inode under a temporary name
    data,         \* data[i]: what inode i holds
    pc, job,      \* control state and arguments of each process
    info,         \* the version parse_container mapped
    ident,        \* the version the last _cache_identity saw
    want,         \* streamLen of the header _cache_entry accepted
    heap,         \* the version _decompress_section produced
    wfd,          \* inode a process has open for writing
    got,          \* inode a process has mapped
    served,       \* the stream returned to the caller
    listed,       \* names a prune found in the directory, headers still to read
    doomed,       \* names chosen for removal, still to remove
    doomedTmp

dirVars == <<entry, tmp, data>>
localVars == <<pc, job, info, ident, want, heap, wfd, got, served, listed, doomed, doomedTmp>>
vars == <<version, dirVars, localVars>>

-----------------------------------------------------------------------------
Slot(k) == <<k.cap, k.sec>>

(* _cache_file: the name hashes the path, the identity and the section. *)
CacheFileNoIdentity(p) ==
    [cap |-> job[p].cap, ver |-> CHOOSE v \in Version : TRUE, sec |-> job[p].sec]
CacheFile(p) == [cap |-> job[p].cap, ver |-> ident[p], sec |-> job[p].sec]

(* '%s.tmp%d' % (cfile, os.getpid()) *)
TmpNameNoPid(k, p) == <<k, CHOOSE q \in Proc : TRUE>>
TmpName(k, p) == <<k, p>>

Readable(i) == i # NoInode /\ data[i].extent # "empty"

(* What an accepted header must say of the file under the name k. *)
UsableAnyLength(i, k, expect) == data[i].key = k
Usable(i, k, expect) == data[i].key = k /\ data[i].len >= expect

(* Bytes of stream actually in the file: none until the write completed. *)
Payload(i) == IF i # NoInode /\ data[i].extent = "whole" THEN data[i].len ELSE 0

FileOf(p, extent) ==
    [extent |-> extent, key |-> CacheFile(p), len |-> Len[heap[p]], body |-> heap[p]]

Truncated == [extent |-> "empty",
              key    |-> CHOOSE k \in Key : TRUE,
              len    |-> 0,
              body   |-> CHOOSE v \in Version : TRUE]

Free(i) ==
    /\ \A k \in Key : entry[k] # i
    /\ \A n \in TmpFile : tmp[n] # i
    /\ \A p \in Proc : wfd[p] # i /\ got[p] # i

(* The lowest free inode: which one it is makes no difference. *)
Fresh(i) == Free(i) /\ \A j \in Inode : Free(j) => i <= j

(* A file another handle pins: Windows refuses to remove or replace it. *)
Pinned(i) == MapLocks /\ i # NoInode /\ \E p \in Proc : wfd[p] = i \/ got[p] = i

(* ... and a removal may meet the handle of somebody reading its header. *)
MayBeRead(k) ==
    MapLocks /\ \E p \in Proc : (pc[p] = "head" /\ k = CacheFile(p)) \/ k \in listed[p]

(* _remove_file: failures are ignored. *)
RemoveEntry(k) ==
    \/ ~Pinned(entry[k]) /\ entry' = [entry EXCEPT ![k] = NoInode]
    \/ (Pinned(entry[k]) \/ MayBeRead(k)) /\ entry' = entry

RemoveTmp(n) ==
    tmp' = IF Pinned(tmp[n])
           THEN tmp ELSE [tmp EXCEPT ![n] = NoInode]

-----------------------------------------------------------------------------
(* An earlier life of the directory: entries bound to distinct inodes, some *)
(* holding what a power cut or another tool version left, the rest absent.  *)
Init ==
    /\ version \in [Capture -> Version]
    /\ tmp = [n \in TmpFile |-> NoInode]
    /\ entry \in [Key -> Inode \cup {NoInode}]
    /\ \A k, l \in Key : entry[k] = entry[l] /\ entry[k] # NoInode => k = l
    /\ data \in [Inode -> Leftover \cup {Truncated}]
    /\ \A i \in Inode : (\A k \in Key : entry[k] # i) => data[i] = Truncated
    /\ \A i, j \in Inode : i < j /\ (\E k \in Key : entry[k] = j) => \E k \in Key : entry[k] = i
    /\ pc = [p \in Proc |-> "idle"]
    /\ job = [p \in Proc |-> NoJob]
    /\ info = [p \in Proc |-> NoVersion]
    /\ ident = [p \in Proc |-> NoVersion]
    /\ want = [p \in Proc |-> 0]
    /\ heap = [p \in Proc |-> NoVersion]
    /\ wfd = [p \in Proc |-> NoInode]
    /\ got = [p \in Proc |-> NoInode]
    /\ served = [p \in Proc |-> NoStream]
    /\ listed = [p \in Proc |-> {}]
    /\ doomed = [p \in Proc |-> {}]
    /\ doomedTmp = [p \in Proc |-> {}]

-----------------------------------------------------------------------------
(* A command starts: load_stream and `sections` parse the container first,   *)
(* `cache clear` lists the directory.                                        *)
Begin(p) ==
    /\ pc[p] = "idle"
    /\ \E o \in {"load", "stats"}, c \in Capture, s \in Section :
          /\ version[c] # NoVersion
          /\ job' = [job EXCEPT ![p] = [op |-> o, cap |-> c, sec |-> s]]
          /\ info' = [info EXCEPT ![p] = version[c]]
    /\ pc' = [pc EXCEPT ![p] = "stat"]
    /\ UNCHANGED <<version, dirVars, ident, want, heap, wfd, got, served,
                   listed, doomed, doomedTmp>>

BeginClear(p) ==
    /\ pc[p] = "idle"
    /\ doomed' = [doomed EXCEPT ![p] = {k \in Key : entry[k] # NoInode}]
    /\ doomedTmp' = [doomedTmp EXCEPT ![p] = {n \in TmpFile : tmp[n] # NoInode}]
    /\ pc' = [pc EXCEPT ![p] = "clear"]
    /\ UNCHANGED <<version, dirVars, job, info, ident, want, heap, wfd, got, served, listed>>

(* The call returns v's stream, n bytes of it. *)
Serve(p, v, n) ==
    /\ served' = [served EXCEPT ![p] = [ver |-> v, len |-> n]]
    /\ pc' = [pc EXCEPT ![p] = "done"]

(* If a miss stored what it had not decompressed, or decompressed again      *)
(* after each store ...                                                      *)
MissStores(p) == pc' = [pc EXCEPT ![p] = "store"] /\ UNCHANGED served
MissDecodesAgain(p) == pc' = [pc EXCEPT ![p] = "decode"] /\ UNCHANGED served

(* ... where the first lookup that finds nothing decompresses, and the one   *)
(* after the store falls back to the heap copy.                              *)
Miss(p) ==
    IF heap[p] = NoVersion
    THEN pc' = [pc EXCEPT ![p] = "decode"] /\ UNCHANGED served
    ELSE Serve(p, heap[p], Len[heap[p]])

(* cache_store returned, with or without a file.                             *)
AfterStore(p) ==
    IF job[p].op = "load"
    THEN pc' = [pc EXCEPT ![p] = "stat"] /\ UNCHANGED served
    ELSE Serve(p, heap[p], Len[heap[p]])

-----------------------------------------------------------------------------
(* _cache_entry: enabled? then the identity, then the header.                *)
StatForLookup(p) ==
    /\ pc[p] = "stat"
    /\ ident' = [ident EXCEPT ![p] = version[job[p].cap]]
    /\ IF p \in NoCache \/ version[job[p].cap] = NoVersion
       THEN Miss(p)
       ELSE pc' = [pc EXCEPT ![p] = "head"] /\ UNCHANGED served
    /\ UNCHANGED <<version, dirVars, job, info, want, heap, wfd, got,
                   listed, doomed, doomedTmp>>

HeaderMissing(p) ==
    /\ pc[p] = "head"
    /\ ~Readable(entry[CacheFile(p)])
    /\ Miss(p)
    /\ UNCHANGED <<version, dirVars, job, info, ident, want, heap, wfd, got,
                   listed, doomed, doomedTmp>>

HeaderRefused(p) ==
    /\ pc[p] = "head"
    /\ LET i == entry[CacheFile(p)]
       IN Readable(i) /\ ~Usable(i, CacheFile(p), Len[info[p]])
    /\ pc' = [pc EXCEPT ![p] = "evict"]
    /\ UNCHANGED <<version, dirVars, job, info, ident, want, heap, wfd, got, served,
                   listed, doomed, doomedTmp>>

(* cache_stats answers from the header; cache_lookup goes on to the stream.  *)
HeaderAccepted(p) ==
    /\ pc[p] = "head"
    /\ LET i == entry[CacheFile(p)]
       IN /\ Readable(i) /\ Usable(i, CacheFile(p), Len[info[p]])
          /\ want' = [want EXCEPT ![p] = data[i].len]
          /\ IF job[p].op = "stats"
             THEN Serve(p, data[i].body, data[i].len)
             ELSE pc' = [pc EXCEPT ![p] = "map"] /\ UNCHANGED served
    /\ UNCHANGED <<version, dirVars, job, info, ident, heap, wfd, got,
                   listed, doomed, doomedTmp>>

(* open + mmap by name: the file may not be the one whose header was read.   *)
MapEntry(p) ==
    /\ pc[p] = "map"
    /\ LET i == entry[CacheFile(p)]
       IN /\ i # NoInode /\ Payload(i) >= want[p]
          /\ got' = [got EXCEPT ![p] = i]
          /\ Serve(p, data[i].body, want[p])
    /\ UNCHANGED <<version, dirVars, job, info, ident, want, heap, wfd,
                   listed, doomed, doomedTmp>>

MapFails(p) ==
    /\ pc[p] = "map"
    /\ LET i == entry[CacheFile(p)] IN ~(i # NoInode /\ Payload(i) >= want[p])
    /\ pc' = [pc EXCEPT ![p] = "evict"]
    /\ UNCHANGED <<version, dirVars, job, info, ident, want, heap, wfd, got, served,
                   listed, doomed, doomedTmp>>

(* The refused file is removed by name, whatever is under the name by now.   *)
Evict(p) ==
    /\ pc[p] = "evict"
    /\ RemoveEntry(CacheFile(p))
    /\ Miss(p)
    /\ UNCHANGED <<version, tmp, data, job, info, ident, want, heap, wfd, got,
                   listed, doomed, doomedTmp>>

Decode(p) ==
    /\ pc[p] = "decode"
    /\ heap' = [heap EXCEPT ![p] = info[p]]
    /\ pc' = [pc EXCEPT ![p] = "store"]
    /\ UNCHANGED <<version, dirVars, job, info, ident, want, wfd, got, served,
                   listed, doomed, doomedTmp>>

-----------------------------------------------------------------------------
(* cache_store: the capture is stat'ed again, after the decompression.       *)
StatForStore(p) ==
    /\ pc[p] = "store"
    /\ IF heap[p] \in Raw \/ p \in NoCache \/ version[job[p].cap] = NoVersion
       THEN AfterStore(p) /\ UNCHANGED ident
       ELSE /\ ident' = [ident EXCEPT ![p] = version[job[p].cap]]
            /\ pc' = [pc EXCEPT ![p] = "open"]
            /\ UNCHANGED served
    /\ UNCHANGED <<version, dirVars, job, info, want, heap, wfd, got,
                   listed, doomed, doomedTmp>>

(* open(tmp, 'wb'): a new inode, or the truncated one a killed run left.     *)
OpenTmp(p) ==
    /\ pc[p] = "open"
    /\ LET n == TmpName(CacheFile(p), p)
       IN \E i \in Inode :
             /\ IF tmp[n] = NoInode THEN Fresh(i) ELSE i = tmp[n]
             /\ tmp' = [tmp EXCEPT ![n] = i]
             /\ data' = [data EXCEPT ![i] = Truncated]
             /\ wfd' = [wfd EXCEPT ![p] = i]
    /\ pc' = [pc EXCEPT ![p] = "write"]
    /\ UNCHANGED <<version, entry, job, info, ident, want, heap, got, served,
                   listed, doomed, doomedTmp>>

WriteHead(p) ==
    /\ pc[p] = "write"
    /\ data' = [data EXCEPT ![wfd[p]] = FileOf(p, "head")]
    /\ pc' = [pc EXCEPT ![p] = "fill"]
    /\ UNCHANGED <<version, entry, tmp, job, info, ident, want, heap, wfd, got, served,
                   listed, doomed, doomedTmp>>

(* The stream is written and the file closed. *)
WriteStream(p) ==
    /\ pc[p] = "fill"
    /\ data' = [data EXCEPT ![wfd[p]] = FileOf(p, "whole")]
    /\ wfd' = [wfd EXCEPT ![p] = NoInode]
    /\ pc' = [pc EXCEPT ![p] = "rename"]
    /\ UNCHANGED <<version, entry, tmp, job, info, ident, want, heap, got, served,
                   listed, doomed, doomedTmp>>

(* os.replace: fails when `cache clear` took the temporary file, or when     *)
(* Windows has the old file mapped.                                          *)
Publish(p) ==
    /\ pc[p] = "rename"
    /\ LET k == CacheFile(p)
           n == TmpName(k, p)
       IN /\ tmp[n] # NoInode
          /\ ~Pinned(entry[k])
          /\ entry' = [entry EXCEPT ![k] = tmp[n]]
          /\ tmp' = [tmp EXCEPT ![n] = NoInode]
    /\ pc' = [pc EXCEPT ![p] = "prune"]
    /\ UNCHANGED <<version, data, job, info, ident, want, heap, wfd, got, served,
                   listed, doomed, doomedTmp>>

(* Any OSError on the way there (no space, no permission, no such file).     *)
StoreFails(p) ==
    /\ pc[p] \in {"open", "write", "fill", "rename"}
    /\ wfd' = [wfd EXCEPT ![p] = NoInode]
    /\ pc' = [pc EXCEPT ![p] = "discard"]
    /\ UNCHANGED <<version, dirVars, job, info, ident, want, heap, got, served,
                   listed, doomed, doomedTmp>>

Discard(p) ==
    /\ pc[p] = "discard"
    /\ RemoveTmp(TmpName(CacheFile(p), p))
    /\ AfterStore(p)
    /\ UNCHANGED <<version, entry, data, job, info, ident, want, heap, wfd, got,
                   listed, doomed, doomedTmp>>

(* _cache_prune_stale: a listing of the directory, then every listed header, *)
(* one open a file; the readable files of this capture and section but the   *)
(* one just stored...                                                        *)
StaleAnySection(p) == {k \in Key : /\ Readable(entry[k]) /\ k # CacheFile(p)
                                   /\ data[entry[k]].key.cap = job[p].cap}
StaleSameVersion(p) == {k \in Key : /\ Readable(entry[k]) /\ k # CacheFile(p)
                                    /\ data[entry[k]].key = CacheFile(p)}
Stale(p) == {k \in Key : /\ Readable(entry[k]) /\ k # CacheFile(p)
                         /\ Slot(data[entry[k]].key) = Slot(CacheFile(p))}

PruneList(p) ==
    /\ pc[p] = "prune"
    /\ listed' = [listed EXCEPT ![p] = {k \in Key : entry[k] # NoInode /\ k # CacheFile(p)}]
    /\ doomed' = [doomed EXCEPT ![p] = {}]
    /\ pc' = [pc EXCEPT ![p] = "pruning"]
    /\ UNCHANGED <<version, dirVars, job, info, ident, want, heap, wfd, got, served, doomedTmp>>

PruneRead(p) ==
    /\ pc[p] = "pruning"
    /\ \E k \in listed[p] :
          /\ listed' = [listed EXCEPT ![p] = @ \ {k}]
          /\ doomed' = [doomed EXCEPT ![p] = @ \cup ({k} \cap Stale(p))]
    /\ UNCHANGED <<version, dirVars, pc, job, info, ident, want, heap, wfd, got, served,
                   doomedTmp>>

(* ... and then the chosen names go one by one.                              *)
PruneOne(p) ==
    /\ pc[p] = "pruning" /\ listed[p] = {}
    /\ \E k \in doomed[p] :
          /\ RemoveEntry(k)
          /\ doomed' = [doomed EXCEPT ![p] = @ \ {k}]
    /\ UNCHANGED <<version, tmp, data, pc, job, info, ident, want, heap, wfd, got, served,
                   listed, doomedTmp>>

PruneDone(p) ==
    /\ pc[p] = "pruning"
    /\ listed[p] = {} /\ doomed[p] = {}
    /\ AfterStore(p)
    /\ UNCHANGED <<version, dirVars, job, info, ident, want, heap, wfd, got,
                   listed, doomed, doomedTmp>>

-----------------------------------------------------------------------------
(* cache_clear: the same, over every stream and temporary name.              *)
ClearOne(p) ==
    /\ pc[p] = "clear"
    /\ \/ \E k \in doomed[p] :
             /\ RemoveEntry(k)
             /\ doomed' = [doomed EXCEPT ![p] = @ \ {k}]
             /\ UNCHANGED <<tmp, doomedTmp>>
       \/ \E n \in doomedTmp[p] :
             /\ RemoveTmp(n)
             /\ doomedTmp' = [doomedTmp EXCEPT ![p] = @ \ {n}]
             /\ UNCHANGED <<entry, doomed>>
    /\ UNCHANGED <<version, data, pc, job, info, ident, want, heap, wfd, got, served, listed>>

(* What a process holds ends with it; the directory does not change.         *)
Exit(p) ==
    /\ pc' = [pc EXCEPT ![p] = "idle"]
    /\ job' = [job EXCEPT ![p] = NoJob]
    /\ info' = [info EXCEPT ![p] = NoVersion]
    /\ ident' = [ident EXCEPT ![p] = NoVersion]
    /\ want' = [want EXCEPT ![p] = 0]
    /\ heap' = [heap EXCEPT ![p] = NoVersion]
    /\ wfd' = [wfd EXCEPT ![p] = NoInode]
    /\ got' = [got EXCEPT ![p] = NoInode]
    /\ served' = [served EXCEPT ![p] = NoStream]
    /\ listed' = [listed EXCEPT ![p] = {}]
    /\ doomed' = [doomed EXCEPT ![p] = {}]
    /\ doomedTmp' = [doomedTmp EXCEPT ![p] = {}]
    /\ UNCHANGED <<version, dirVars>>

Finish(p) ==
    /\ \/ pc[p] = "done"
       \/ pc[p] = "clear" /\ doomed[p] = {} /\ doomedTmp[p] = {}
    /\ Exit(p)

Crash(p) ==
    /\ pc[p] \notin {"idle", "done"}
    /\ Exit(p)

(* Another capture is renamed over the path, or the path is deleted.  A      *)
(* command keeps its container mapped, so Windows refuses while one runs.    *)
Recapture(c) ==
    /\ Calm \/ MapLocks =>
          \A p \in Proc : info[p] # NoVersion => job[p].cap # c
    /\ \E v \in Version \cup {NoVersion} :
          /\ v # version[c]
          /\ version' = [version EXCEPT ![c] = v]
    /\ UNCHANGED <<dirVars, localVars>>

Step(p) ==
    \/ StatForLookup(p) \/ HeaderMissing(p) \/ HeaderRefused(p) \/ HeaderAccepted(p)
    \/ MapEntry(p) \/ MapFails(p) \/ Evict(p) \/ Decode(p)
    \/ StatForStore(p) \/ OpenTmp(p) \/ WriteHead(p) \/ WriteStream(p) \/ Publish(p)
    \/ StoreFails(p) \/ Discard(p) \/ PruneList(p) \/ PruneRead(p) \/ PruneOne(p)
    \/ PruneDone(p) \/ ClearOne(p) \/ Finish(p)

Next ==
    \/ \E p \in Proc : Begin(p) \/ BeginClear(p) \/ Step(p) \/ Crash(p)
    \/ \E c \in Capture : Recapture(c)

Spec == Init /\ [][Next]_vars

(* A process that is running keeps running; nobody has to start one.         *)
LiveSpec == Spec /\ \A p \in Proc : WF_vars(Step(p))

-----------------------------------------------------------------------------
Asleep == {"idle", "clear"}
Lookup == {"stat", "head", "map", "evict"}
Storing == {"open", "write", "fill", "rename", "discard", "prune", "pruning"}

(* The type of every variable, and what each control point has at hand.      *)
TypeOK ==
    /\ version \in [Capture -> Version \cup {NoVersion}]
    /\ entry \in [Key -> Inode \cup {NoInode}]
    /\ tmp \in [TmpFile -> Inode \cup {NoInode}]
    /\ data \in [Inode -> Content]
    /\ pc \in [Proc -> Asleep \cup Lookup \cup Storing \cup {"decode", "store", "done"}]
    /\ job \in [Proc -> Job \cup {NoJob}]
    /\ info \in [Proc -> Version \cup {NoVersion}]
    /\ ident \in [Proc -> Version \cup {NoVersion}]
    /\ want \in [Proc -> Nat]
    /\ heap \in [Proc -> Version \cup {NoVersion}]
    /\ wfd \in [Proc -> Inode \cup {NoInode}]
    /\ got \in [Proc -> Inode \cup {NoInode}]
    /\ served \in [Proc -> Stream \cup {NoStream}]
    /\ listed \in [Proc -> SUBSET Key]
    /\ doomed \in [Proc -> SUBSET Key]
    /\ doomedTmp \in [Proc -> SUBSET TmpFile]
    /\ \A p \in Proc :
          /\ pc[p] \notin Asleep => job[p] \in Job /\ info[p] \in Version
          /\ pc[p] \in Storing \cup {"store"} => heap[p] \in Version
          /\ pc[p] \in Storing \cup {"head", "map", "evict"} => ident[p] \in Version
          /\ pc[p] \in {"write", "fill"} => wfd[p] \in Inode

(* "so an interrupted run can never leave a half-written stream behind for   *)
(* the next one to read" (cache_store): whatever the processes do and        *)
(* wherever they are killed, a file under a final name is what was there at  *)
(* the start or a complete stream, and nobody has it open for writing.       *)
PublishedIsWhole ==
    \A k \in Key : entry[k] # NoInode =>
        /\ data[entry[k]] \in Leftover \cup {Truncated} \/ data[entry[k]].extent = "whole"
        /\ \A p \in Proc : wfd[p] # entry[k]

(* The bytes a command mapped, or that a name offers to the next one, never  *)
(* change under it: a truncating open or a write only ever hits an inode     *)
(* that no final name and no map refers to.                                  *)
ReadersUndisturbed ==
    /\ \A p \in Proc : got[p] # NoInode => data'[got[p]] = data[got[p]]
    /\ \A k \in Key : entry[k] # NoInode => data'[entry[k]] = data[entry[k]]

MappedBytesFixed == [][ReadersUndisturbed]_vars

(* The cache "cannot change what a command prints" (REFERENCE 4.8): the      *)
(* caller of load_stream / stream_stats gets the whole stream of the version *)
(* it parsed, from a hit, a warmed map or the heap.                          *)
ServedIsParsed ==
    \A p \in Proc : served[p] # NoStream =>
        served[p] = [ver |-> info[p], len |-> Len[info[p]]]

(* "An entry is usable only when it was built from exactly this file"        *)
(* (_cache_entry): a file the header checks accept under a name holds the    *)
(* version in that name, and all of it unless a power cut shortened it.      *)
Honest(i, k) ==
    Readable(i) /\ Usable(i, k, Len[k.ver]) =>
        data[i].body = k.ver /\ data[i].len = Len[k.ver]

EntryHonest == \A k \in Key : Honest(entry[k], k)

(* `cache clear` aside, a command only ever takes away entries of the        *)
(* capture and section it works on: storing one section never costs another  *)
(* section, or another capture, its entry.                                   *)
RemovesOwnSlotOnly ==
    [][\A k \in Key : entry[k] # NoInode /\ entry'[k] = NoInode =>
          \E p \in Proc :
             \/ pc[p] = "clear"
             \/ pc[p] = "evict" /\ k = CacheFile(p)
             \/ /\ pc[p] = "pruning"
                /\ Slot(k) = Slot(CacheFile(p))
      ]_vars

(* "an edited capture does not accumulate a several-hundred-MB orphan per    *)
(* edit" (_cache_prune_stale): when captures keep still under the commands   *)
(* on them, a store that ran to the end of its prune leaves at most its own  *)
(* entry for the slot, however many processes were storing, clearing or      *)
(* being killed meanwhile.                                                   *)
PruneLeavesOne ==
    [][\A p \in Proc : PruneDone(p) =>
          \A k \in Key : /\ Readable(entry[k])
                         /\ Slot(data[entry[k]].key) = Slot(CacheFile(p))
                         => k = CacheFile(p)]_vars

(* No lock, no retry: a command that began is answered or dies, whatever the *)
(* other processes hold, publish or remove.                                  *)
EveryCallReturns == \A p \in Proc : pc[p] = "stat" ~> pc[p] \in {"done", "idle"}

(* The abstract service: what a command asked for and was given.             *)
Service == INSTANCE StreamService WITH asked <- info, answer <- served

ImplementsService == Service!ServiceSpec
=============================================================================
