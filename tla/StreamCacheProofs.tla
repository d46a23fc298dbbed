------------------------ MODULE StreamCacheProofs ------------------------
(***************************************************************************)
(* Theorems about StreamCache, for any number of processes, captures,      *)
(* sections and versions.                                                  *)
(***************************************************************************)
EXTENDS StreamCache, TLAPS

(* The key a running command computes is one of the directory's names.     *)
LEMMA CacheFileType ==
    ASSUME TypeOK, NEW p \in Proc, pc[p] \notin Asleep, ident[p] \in Version
    PROVE  CacheFile(p) \in Key /\ TmpName(CacheFile(p), p) \in TmpFile
BY DEF TypeOK, CacheFile, TmpName, TmpFile, Key, Job

LEMMA FileType ==
    ASSUME TypeOK, NEW p \in Proc, pc[p] \in Storing, NEW e \in {"empty", "head", "whole"}
    PROVE  FileOf(p, e) \in Content
<1>1. CacheFile(p) \in Key
  BY CacheFileType DEF TypeOK, Storing, Asleep
<1>2. heap[p] \in Version /\ Len[heap[p]] \in Nat
  BY ConstantAssumption DEF TypeOK
<1> QED
  BY <1>1, <1>2 DEF FileOf, Content

LEMMA TruncatedType == Truncated \in Content
<1>1. PICK c \in Capture, s \in Section, v \in Version : TRUE
  BY ConstantAssumption
<1>2. [cap |-> c, ver |-> v, sec |-> s] \in Key
  BY <1>1 DEF Key
<1> QED
  BY <1>1, <1>2 DEF Truncated, Content

(* What the two exits of a lookup and of a store do to pc and served.      *)
LEMMA ServeType ==
    ASSUME TypeOK, NEW p \in Proc, NEW v \in Version, NEW n \in Nat, Serve(p, v, n)
    PROVE  /\ served' \in [Proc -> Stream \cup {NoStream}]
           /\ pc' = [pc EXCEPT ![p] = "done"]
BY DEF Serve, TypeOK, Stream

LEMMA MissType ==
    ASSUME TypeOK, NEW p \in Proc, Miss(p)
    PROVE  /\ served' \in [Proc -> Stream \cup {NoStream}]
           /\ \/ pc' = [pc EXCEPT ![p] = "decode"]
              \/ pc' = [pc EXCEPT ![p] = "done"]
<1>1. CASE heap[p] = NoVersion
  BY <1>1 DEF Miss, TypeOK
<1>2. CASE heap[p] # NoVersion
  <2>1. heap[p] \in Version /\ Len[heap[p]] \in Nat
    BY <1>2, ConstantAssumption DEF TypeOK
  <2> QED
    BY <1>2, <2>1, ServeType DEF Miss
<1> QED
  BY <1>1, <1>2

LEMMA AfterStoreType ==
    ASSUME TypeOK, NEW p \in Proc, heap[p] \in Version, AfterStore(p)
    PROVE  /\ served' \in [Proc -> Stream \cup {NoStream}]
           /\ \/ pc' = [pc EXCEPT ![p] = "stat"]
              \/ pc' = [pc EXCEPT ![p] = "done"]
<1>1. CASE job[p].op = "load"
  BY <1>1 DEF AfterStore, TypeOK
<1>2. CASE job[p].op # "load"
  <2>1. Len[heap[p]] \in Nat
    BY ConstantAssumption
  <2> QED
    BY <1>2, <2>1, ServeType DEF AfterStore
<1> QED
  BY <1>1, <1>2

LEMMA InitType == Init => TypeOK
BY ConstantAssumption, TruncatedType DEF Init, TypeOK, Asleep, Lookup, Storing

LEMMA TypeStep == TypeOK /\ [Next]_vars => TypeOK'
<1> SUFFICES ASSUME TypeOK, [Next]_vars PROVE TypeOK'
  OBVIOUS
<1> USE DEF dirVars, localVars, Asleep, Lookup, Storing
<1>1. ASSUME NEW p \in Proc, Begin(p) PROVE TypeOK'
  BY <1>1 DEF Begin, TypeOK, Job, Stream, Content
<1>2. ASSUME NEW p \in Proc, BeginClear(p) PROVE TypeOK'
  BY <1>2 DEF BeginClear, TypeOK, Job, Stream, Content
<1>3. ASSUME NEW p \in Proc, StatForLookup(p) PROVE TypeOK'
  <2>1. /\ served' \in [Proc -> Stream \cup {NoStream}]
        /\ \E to \in {"decode", "done", "head"} : pc' = [pc EXCEPT ![p] = to]
        /\ pc'[p] = "head" => version[job[p].cap] # NoVersion
    BY <1>3, MissType DEF StatForLookup, TypeOK
  <2>2. /\ pc[p] = "stat" /\ ident' = [ident EXCEPT ![p] = version[job[p].cap]]
        /\ UNCHANGED <<version, entry, tmp, data, job, info, want, heap, wfd, got,
                       listed, doomed, doomedTmp>>
    BY <1>3 DEF StatForLookup
  <2>3. version[job[p].cap] \in Version \cup {NoVersion}
    BY <2>2 DEF TypeOK, Job
  <2> QED
    BY <2>1, <2>2, <2>3 DEF TypeOK
<1>4. ASSUME NEW p \in Proc, HeaderMissing(p) PROVE TypeOK'
  <2>1. pc[p] = "head" /\ Miss(p)
    BY <1>4 DEF HeaderMissing
  <2>2. UNCHANGED <<version, entry, tmp, data, job, info, heap, wfd, got,
                  listed, doomed, doomedTmp>>
    BY <1>4 DEF HeaderMissing
  <2>3. UNCHANGED <<ident, want>>
    BY <1>4 DEF HeaderMissing
  <2> QED
    BY <2>1, <2>2, <2>3, MissType DEF TypeOK
<1>5. ASSUME NEW p \in Proc, HeaderRefused(p) PROVE TypeOK'
  BY <1>5 DEF HeaderRefused, TypeOK, Job, Stream, Content
<1>6. ASSUME NEW p \in Proc, HeaderAccepted(p) PROVE TypeOK'
  <2> DEFINE i == entry[CacheFile(p)]
  <2>1. i \in Inode /\ data[i] \in Content
    BY <1>6, CacheFileType DEF HeaderAccepted, Readable, TypeOK
  <2>2. data[i].body \in Version /\ data[i].len \in Nat
    BY <2>1 DEF Content
  <2>3. /\ pc[p] = "head" /\ want' \in [Proc -> Nat]
        /\ UNCHANGED <<version, entry, tmp, data, job, info, ident, heap, wfd, got,
                       listed, doomed, doomedTmp>>
    BY <1>6, <2>2 DEF HeaderAccepted, TypeOK
  <2>4. CASE job[p].op = "stats"
    <3>1. Serve(p, data[i].body, data[i].len)
      BY <1>6, <2>4 DEF HeaderAccepted
    <3>2. /\ served' \in [Proc -> Stream \cup {NoStream}]
          /\ pc' = [pc EXCEPT ![p] = "done"]
      BY <2>2, <3>1, ServeType
    <3> QED
      BY <2>3, <3>2 DEF TypeOK
  <2>5. CASE job[p].op # "stats"
    <3>1. pc' = [pc EXCEPT ![p] = "map"] /\ UNCHANGED served
      BY <1>6, <2>5 DEF HeaderAccepted
    <3> QED
      BY <2>3, <3>1 DEF TypeOK
  <2> QED
    BY <2>4, <2>5
<1>7. ASSUME NEW p \in Proc, MapEntry(p) PROVE TypeOK'
  BY <1>7, CacheFileType DEF MapEntry, Serve, TypeOK, Job, Stream, Content
<1>8. ASSUME NEW p \in Proc, MapFails(p) PROVE TypeOK'
  BY <1>8 DEF MapFails, TypeOK, Job, Stream, Content
<1>9. ASSUME NEW p \in Proc, Evict(p) PROVE TypeOK'
  <2>1. pc[p] = "evict" /\ Miss(p) /\ RemoveEntry(CacheFile(p))
    BY <1>9 DEF Evict
  <2>2. UNCHANGED <<version, tmp, data, job, info, ident, want, heap, wfd, got,
                    listed, doomed, doomedTmp>>
    BY <1>9 DEF Evict
  <2>3. entry' \in [Key -> Inode \cup {NoInode}]
    BY <2>1 DEF RemoveEntry, TypeOK
  <2> QED
    BY <2>1, <2>2, <2>3, MissType DEF TypeOK
<1>10. ASSUME NEW p \in Proc, Decode(p) PROVE TypeOK'
  BY <1>10 DEF Decode, TypeOK, Job, Stream, Content
<1>11. ASSUME NEW p \in Proc, StatForStore(p) PROVE TypeOK'
  <2>1. pc[p] = "store" /\ heap[p] \in Version
    BY <1>11 DEF StatForStore, TypeOK
  <2>2. CASE AfterStore(p) /\ UNCHANGED ident
    <3>1. /\ served' \in [Proc -> Stream \cup {NoStream}]
          /\ \/ pc' = [pc EXCEPT ![p] = "stat"]
             \/ pc' = [pc EXCEPT ![p] = "done"]
      BY <2>1, <2>2, AfterStoreType
    <3> QED
      BY <1>11, <2>1, <2>2, <3>1 DEF StatForStore, TypeOK
  <2>3. CASE /\ version[job[p].cap] # NoVersion
             /\ ident' = [ident EXCEPT ![p] = version[job[p].cap]]
             /\ pc' = [pc EXCEPT ![p] = "open"]
             /\ UNCHANGED served
    BY <1>11, <2>1, <2>3 DEF StatForStore, TypeOK, Job
  <2> QED
    BY <1>11, <2>2, <2>3 DEF StatForStore
<1>12. ASSUME NEW p \in Proc, OpenTmp(p) PROVE TypeOK'
  <2>1. PICK i \in Inode :
           /\ tmp' = [tmp EXCEPT ![TmpName(CacheFile(p), p)] = i]
           /\ data' = [data EXCEPT ![i] = Truncated]
           /\ wfd' = [wfd EXCEPT ![p] = i]
    BY <1>12 DEF OpenTmp
  <2>2. /\ pc[p] = "open" /\ pc' = [pc EXCEPT ![p] = "write"]
        /\ UNCHANGED <<version, entry, job, info, ident, want, heap, got, served,
                       listed, doomed, doomedTmp>>
    BY <1>12 DEF OpenTmp
  <2> QED
    BY <2>1, <2>2, TruncatedType DEF TypeOK
<1>13. ASSUME NEW p \in Proc, WriteHead(p) PROVE TypeOK'
  <2>1. pc[p] \in Storing /\ data' \in [Inode -> Content]
    BY <1>13, FileType DEF WriteHead, TypeOK
  <2> QED
    BY <1>13, <2>1 DEF WriteHead, TypeOK
<1>14. ASSUME NEW p \in Proc, WriteStream(p) PROVE TypeOK'
  <2>1. pc[p] \in Storing /\ data' \in [Inode -> Content]
    BY <1>14, FileType DEF WriteStream, TypeOK
  <2> QED
    BY <1>14, <2>1 DEF WriteStream, TypeOK
<1>15. ASSUME NEW p \in Proc, Publish(p) PROVE TypeOK'
  BY <1>15, CacheFileType DEF Publish, TypeOK, Job, Stream, Content
<1>16. ASSUME NEW p \in Proc, StoreFails(p) PROVE TypeOK'
  BY <1>16 DEF StoreFails, TypeOK, Job, Stream, Content
<1>17. ASSUME NEW p \in Proc, Discard(p) PROVE TypeOK'
  <2>1. pc[p] = "discard" /\ AfterStore(p) /\ RemoveTmp(TmpName(CacheFile(p), p))
    BY <1>17 DEF Discard
  <2>2. UNCHANGED <<version, entry, data, job, info, ident, want, heap, wfd, got,
                    listed, doomed, doomedTmp>>
    BY <1>17 DEF Discard
  <2>3. tmp' \in [TmpFile -> Inode \cup {NoInode}]
    BY <2>1 DEF RemoveTmp, TypeOK
  <2> QED
    BY <2>1, <2>2, <2>3, AfterStoreType DEF TypeOK
<1>18. ASSUME NEW p \in Proc, PruneList(p) PROVE TypeOK'
  BY <1>18 DEF PruneList, TypeOK, Job, Stream, Content
<1>18a. ASSUME NEW p \in Proc, PruneRead(p) PROVE TypeOK'
  BY <1>18a DEF PruneRead, TypeOK, Job, Stream, Content
<1>19. ASSUME NEW p \in Proc, PruneOne(p) PROVE TypeOK'
  BY <1>19, CacheFileType DEF PruneOne, RemoveEntry, TypeOK, Job, Stream, Content
<1>20. ASSUME NEW p \in Proc, PruneDone(p) PROVE TypeOK'
  BY <1>20, AfterStoreType, CacheFileType DEF PruneDone, TypeOK, Job
<1>21. ASSUME NEW p \in Proc, ClearOne(p) PROVE TypeOK'
  <2>1. ASSUME NEW k \in doomed[p], RemoveEntry(k),
               doomed' = [doomed EXCEPT ![p] = @ \ {k}], UNCHANGED <<tmp, doomedTmp>>
        PROVE  TypeOK'
    BY <1>21, <2>1 DEF ClearOne, RemoveEntry, TypeOK
  <2>2. ASSUME NEW n \in doomedTmp[p], RemoveTmp(n),
               doomedTmp' = [doomedTmp EXCEPT ![p] = @ \ {n}], UNCHANGED <<entry, doomed>>
        PROVE  TypeOK'
    BY <1>21, <2>2 DEF ClearOne, RemoveTmp, TypeOK
  <2> QED
    BY <1>21, <2>1, <2>2 DEF ClearOne
<1>22. ASSUME NEW p \in Proc, Finish(p) PROVE TypeOK'
  BY <1>22 DEF Finish, Exit, TypeOK, Job, Stream, Content
<1>23. ASSUME NEW p \in Proc, Crash(p) PROVE TypeOK'
  BY <1>23 DEF Crash, Exit, TypeOK, Job, Stream, Content
<1>24. ASSUME NEW c \in Capture, Recapture(c) PROVE TypeOK'
  BY <1>24 DEF Recapture, TypeOK
<1>25. CASE UNCHANGED vars
  BY <1>25 DEF vars, TypeOK
<1> QED
  BY <1>1, <1>2, <1>3, <1>4, <1>5, <1>6, <1>7, <1>8, <1>9, <1>10, <1>11, <1>12, <1>13, <1>14, <1>15, <1>16, <1>17, <1>18, <1>19, <1>20, <1>21, <1>22, <1>23, <1>24, <1>25, <1>18a DEF Next, Step

(* Every variable keeps its type and every control point has what its step  *)
(* uses: the theorem of TypeOK for any instance.                            *)
THEOREM TypeCorrect == Spec => []TypeOK
BY InitType, TypeStep, PTL DEF Spec

-----------------------------------------------------------------------------
(***************************************************************************)
(* Who may refer to an inode.  A file being written is known to its writer *)
(* and to the writer's own temporary name, nobody else; that is what makes *)
(* the rename publish a file nobody is writing.                            *)
(***************************************************************************)
MyTmp(p) == TmpName(CacheFile(p), p)

NamesApart ==
    /\ \A k, l \in Key : entry[k] = entry[l] /\ entry[k] # NoInode => k = l
    /\ \A n, m \in TmpFile : tmp[n] = tmp[m] /\ tmp[n] # NoInode => n = m
    /\ \A k \in Key, n \in TmpFile : entry[k] = tmp[n] => entry[k] = NoInode

MapsApart == \A q \in Proc, n \in TmpFile : got[q] # NoInode => tmp[n] # got[q]

WriterAlone ==
    \A p \in Proc : wfd[p] # NoInode =>
        /\ pc[p] \in {"write", "fill"}
        /\ \A k \in Key : entry[k] # wfd[p]
        /\ \A n \in TmpFile : tmp[n] = wfd[p] => n = MyTmp(p)
        /\ \A q \in Proc : got[q] # wfd[p] /\ (wfd[q] = wfd[p] => q = p)

TmpIsMine ==
    \A p \in Proc :
        /\ pc[p] \in {"write", "fill"} => tmp[MyTmp(p)] \in {NoInode, wfd[p]}
        /\ pc[p] = "rename" /\ tmp[MyTmp(p)] # NoInode =>
              data[tmp[MyTmp(p)]] = FileOf(p, "whole")

EntryWhole ==
    \A k \in Key : entry[k] # NoInode =>
        data[entry[k]] \in Leftover \cup {Truncated} \/ data[entry[k]].extent = "whole"

Ownership == NamesApart /\ MapsApart /\ WriterAlone /\ TmpIsMine /\ EntryWhole

(* Control points at which the process relies on its temporary name.       *)
Writing == {"write", "fill", "rename"}

(* A step that writes nothing, and only drops names, handles and maps.     *)
OnlyDrops ==
    /\ data' = data
    /\ \A k \in Key : entry'[k] \in {entry[k], NoInode}
    /\ \A n \in TmpFile : tmp'[n] \in {tmp[n], NoInode}
    /\ \A q \in Proc : wfd'[q] \in {wfd[q], NoInode} /\ got'[q] \in {got[q], NoInode}
    /\ \A q \in Proc : pc'[q] \in Writing \/ wfd'[q] # NoInode =>
          /\ pc'[q] = pc[q] /\ wfd'[q] = wfd[q]
          /\ job'[q] = job[q] /\ ident'[q] = ident[q] /\ heap'[q] = heap[q]

LEMMA MyTmpType ==
    ASSUME TypeOK, NEW p \in Proc, pc[p] \in Storing
    PROVE  MyTmp(p) \in TmpFile /\ CacheFile(p) \in Key
BY CacheFileType DEF MyTmp, TypeOK, Storing, Asleep

LEMMA MyTmpApart ==
    ASSUME NEW p \in Proc, NEW q \in Proc, MyTmp(p) = MyTmp(q)
    PROVE  p = q
BY DEF MyTmp, TmpName

LEMMA DropsKeepOwnership ==
    ASSUME TypeOK, Ownership, OnlyDrops
    PROVE  Ownership'
<1>1. ASSUME NEW q \in Proc, pc'[q] \in Writing \/ wfd'[q] # NoInode
      PROVE  /\ pc'[q] = pc[q] /\ wfd'[q] = wfd[q]
             /\ MyTmp(q)' = MyTmp(q) /\ FileOf(q, "whole")' = FileOf(q, "whole")
  BY <1>1 DEF OnlyDrops, MyTmp, TmpName, CacheFile, FileOf
<1>2. ASSUME NEW q \in Proc, pc[q] \in Writing
      PROVE  MyTmp(q) \in TmpFile
  BY <1>2, MyTmpType DEF Writing, Storing
<1>3. NamesApart'
  BY DEF Ownership, NamesApart, OnlyDrops
<1>4. MapsApart'
  BY DEF Ownership, MapsApart, OnlyDrops
<1>5. WriterAlone'
  <2> SUFFICES ASSUME NEW p \in Proc, wfd'[p] # NoInode
               PROVE  /\ pc'[p] \in {"write", "fill"}
                      /\ \A k \in Key : entry'[k] # wfd'[p]
                      /\ \A n \in TmpFile : tmp'[n] = wfd'[p] => n = MyTmp(p)'
                      /\ \A q \in Proc : got'[q] # wfd'[p] /\ (wfd'[q] = wfd'[p] => q = p)
    BY DEF WriterAlone
  <2> QED
    BY <1>1 DEF Ownership, WriterAlone, OnlyDrops
<1>6. TmpIsMine'
  <2> SUFFICES ASSUME NEW p \in Proc, pc'[p] \in Writing
               PROVE  /\ pc'[p] \in {"write", "fill"} => tmp'[MyTmp(p)'] \in {NoInode, wfd'[p]}
                      /\ pc'[p] = "rename" /\ tmp'[MyTmp(p)'] # NoInode =>
                            data'[tmp'[MyTmp(p)']] = FileOf(p, "whole")'
    BY DEF TmpIsMine, Writing
  <2> QED
    BY <1>1, <1>2 DEF Ownership, TmpIsMine, OnlyDrops
<1>7. EntryWhole'
  BY DEF Ownership, EntryWhole, OnlyDrops
<1> QED
  BY <1>3, <1>4, <1>5, <1>6, <1>7 DEF Ownership

LEMMA InitOwnership == Init => Ownership
BY DEF Init, Ownership, NamesApart, MapsApart, WriterAlone, TmpIsMine, EntryWhole

LEMMA OwnershipStep == TypeOK /\ Ownership /\ [Next]_vars => Ownership'
<1> SUFFICES ASSUME TypeOK, Ownership, [Next]_vars PROVE Ownership'
  OBVIOUS
<1> USE DEF dirVars, localVars
<1>1. ASSUME NEW p \in Proc, Begin(p) PROVE Ownership'
  BY <1>1, DropsKeepOwnership DEF Begin, OnlyDrops, Writing, TypeOK, Ownership, WriterAlone
<1>2. ASSUME NEW p \in Proc, BeginClear(p) PROVE Ownership'
  BY <1>2, DropsKeepOwnership DEF BeginClear, OnlyDrops, Writing, TypeOK, Ownership, WriterAlone
<1>3. ASSUME NEW p \in Proc, StatForLookup(p) PROVE Ownership'
  BY <1>3, DropsKeepOwnership DEF StatForLookup, Miss, Serve, OnlyDrops, Writing, TypeOK, Ownership, WriterAlone
<1>4. ASSUME NEW p \in Proc, HeaderMissing(p) PROVE Ownership'
  BY <1>4, DropsKeepOwnership DEF HeaderMissing, Miss, Serve, OnlyDrops, Writing, TypeOK, Ownership, WriterAlone
<1>5. ASSUME NEW p \in Proc, HeaderRefused(p) PROVE Ownership'
  BY <1>5, DropsKeepOwnership DEF HeaderRefused, OnlyDrops, Writing, TypeOK, Ownership, WriterAlone
<1>6. ASSUME NEW p \in Proc, HeaderAccepted(p) PROVE Ownership'
  BY <1>6, DropsKeepOwnership DEF HeaderAccepted, Serve, OnlyDrops, Writing, TypeOK, Ownership, WriterAlone
<1>7. ASSUME NEW p \in Proc, MapFails(p) PROVE Ownership'
  BY <1>7, DropsKeepOwnership DEF MapFails, OnlyDrops, Writing, TypeOK, Ownership, WriterAlone
<1>8. ASSUME NEW p \in Proc, Evict(p) PROVE Ownership'
  BY <1>8, DropsKeepOwnership DEF Evict, Miss, Serve, RemoveEntry, OnlyDrops, Writing, TypeOK, Ownership, WriterAlone
<1>9. ASSUME NEW p \in Proc, Decode(p) PROVE Ownership'
  BY <1>9, DropsKeepOwnership DEF Decode, OnlyDrops, Writing, TypeOK, Ownership, WriterAlone
<1>10. ASSUME NEW p \in Proc, StatForStore(p) PROVE Ownership'
  BY <1>10, DropsKeepOwnership DEF StatForStore, AfterStore, Serve, OnlyDrops, Writing, TypeOK, Ownership, WriterAlone
<1>11. ASSUME NEW p \in Proc, StoreFails(p) PROVE Ownership'
  BY <1>11, DropsKeepOwnership DEF StoreFails, OnlyDrops, Writing, TypeOK, Ownership, WriterAlone
<1>12. ASSUME NEW p \in Proc, Discard(p) PROVE Ownership'
  BY <1>12, DropsKeepOwnership DEF Discard, AfterStore, Serve, RemoveTmp, OnlyDrops, Writing, TypeOK, Ownership, WriterAlone
<1>13. ASSUME NEW p \in Proc, PruneList(p) PROVE Ownership'
  BY <1>13, DropsKeepOwnership DEF PruneList, OnlyDrops, Writing, TypeOK, Ownership, WriterAlone
<1>13a. ASSUME NEW p \in Proc, PruneRead(p) PROVE Ownership'
  BY <1>13a, DropsKeepOwnership DEF PruneRead, OnlyDrops, Writing, TypeOK, Ownership, WriterAlone
<1>14. ASSUME NEW p \in Proc, PruneOne(p) PROVE Ownership'
  BY <1>14, DropsKeepOwnership DEF PruneOne, RemoveEntry, OnlyDrops, Writing, TypeOK, Ownership, WriterAlone
<1>15. ASSUME NEW p \in Proc, PruneDone(p) PROVE Ownership'
  BY <1>15, DropsKeepOwnership DEF PruneDone, AfterStore, Serve, OnlyDrops, Writing, TypeOK, Ownership, WriterAlone
<1>16. ASSUME NEW p \in Proc, ClearOne(p) PROVE Ownership'
  BY <1>16, DropsKeepOwnership DEF ClearOne, RemoveEntry, RemoveTmp, OnlyDrops, Writing, TypeOK, Ownership, WriterAlone
<1>17. ASSUME NEW p \in Proc, Finish(p) PROVE Ownership'
  BY <1>17, DropsKeepOwnership DEF Finish, Exit, OnlyDrops, Writing, TypeOK, Ownership, WriterAlone
<1>18. ASSUME NEW p \in Proc, Crash(p) PROVE Ownership'
  BY <1>18, DropsKeepOwnership DEF Crash, Exit, OnlyDrops, Writing, TypeOK, Ownership, WriterAlone
<1>19. ASSUME NEW p \in Proc, MapEntry(p) PROVE Ownership'
  <2> DEFINE i == entry[CacheFile(p)]
  <2>1. CacheFile(p) \in Key /\ i # NoInode
    BY <1>19, CacheFileType DEF MapEntry, TypeOK, Asleep
  <2>2. \A q \in Proc : got'[q] # NoInode => got'[q] = got[q] \/ got'[q] = i
    BY <1>19 DEF MapEntry, TypeOK
  <2>3. pc' = [pc EXCEPT ![p] = "done"]
    BY <1>19 DEF MapEntry, Serve
  <2>4. \A q \in Proc : MyTmp(q)' = MyTmp(q) /\ FileOf(q, "whole")' = FileOf(q, "whole")
    BY <1>19 DEF MapEntry, MyTmp, TmpName, CacheFile, FileOf
  <2>5. NamesApart' /\ EntryWhole'
    BY <1>19 DEF MapEntry, Ownership, NamesApart, EntryWhole
  <2>6. MapsApart'
    BY <1>19, <2>1, <2>2 DEF MapEntry, Ownership, NamesApart, MapsApart
  <2>7. WriterAlone'
    BY <1>19, <2>1, <2>2, <2>3, <2>4 DEF MapEntry, Ownership, WriterAlone, TypeOK
  <2>8. TmpIsMine'
    BY <1>19, <2>3, <2>4 DEF MapEntry, Ownership, TmpIsMine, TypeOK
  <2> QED
    BY <2>5, <2>6, <2>7, <2>8 DEF Ownership
<1>20. ASSUME NEW p \in Proc, OpenTmp(p) PROVE Ownership'
  <2> DEFINE n == MyTmp(p)
  <2>1. n \in TmpFile
    BY <1>20, MyTmpType DEF OpenTmp, Storing
  <2>2. PICK i \in Inode :
           /\ IF tmp[n] = NoInode THEN Fresh(i) ELSE i = tmp[n]
           /\ tmp' = [tmp EXCEPT ![n] = i]
           /\ data' = [data EXCEPT ![i] = Truncated]
           /\ wfd' = [wfd EXCEPT ![p] = i]
    BY <1>20 DEF OpenTmp, MyTmp
  <2>3. wfd[p] = NoInode
    BY <1>20 DEF OpenTmp, Ownership, WriterAlone
  <2>4. i # NoInode
    BY ConstantAssumption
  <2>5. /\ \A k \in Key : entry[k] # i
        /\ \A m \in TmpFile : tmp[m] = i => m = n
        /\ \A q \in Proc : got[q] # i
    BY <2>1, <2>2, <2>4 DEF Fresh, Free, Ownership, NamesApart, MapsApart
  <2>6. \A q \in Proc : wfd[q] # i
    <3> SUFFICES ASSUME NEW q \in Proc, wfd[q] = i PROVE FALSE
      OBVIOUS
    <3>1. tmp[n] = i
      BY <2>2 DEF Fresh, Free
    <3>2. n = MyTmp(q)
      BY <2>1, <2>4, <3>1 DEF Ownership, WriterAlone
    <3> QED
      BY <2>3, <2>4, <3>2, MyTmpApart
  <2>7. /\ \A q \in Proc : MyTmp(q)' = MyTmp(q) /\ FileOf(q, "whole")' = FileOf(q, "whole")
        /\ pc' = [pc EXCEPT ![p] = "write"] /\ entry' = entry /\ got' = got
    BY <1>20 DEF OpenTmp, MyTmp, TmpName, CacheFile, FileOf
  <2>8. NamesApart'
    BY <2>1, <2>2, <2>4, <2>5, <2>7 DEF Ownership, NamesApart, TypeOK
  <2>9. MapsApart'
    BY <2>1, <2>2, <2>4, <2>5, <2>7 DEF Ownership, MapsApart, TypeOK
  <2>10. WriterAlone'
    BY <2>1, <2>2, <2>4, <2>5, <2>6, <2>7 DEF Ownership, WriterAlone, TypeOK
  <2>11. TmpIsMine'
    <3> SUFFICES ASSUME NEW q \in Proc, pc'[q] \in Writing
                 PROVE  /\ pc'[q] \in {"write", "fill"} => tmp'[MyTmp(q)] \in {NoInode, wfd'[q]}
                        /\ pc'[q] = "rename" /\ tmp'[MyTmp(q)] # NoInode =>
                              data'[tmp'[MyTmp(q)]] = FileOf(q, "whole")
      BY <2>7 DEF TmpIsMine, Writing
    <3>1. CASE q = p
      BY <2>1, <2>2, <2>7, <3>1 DEF TypeOK
    <3>2. CASE q # p
      <4>1. pc'[q] = pc[q] /\ wfd'[q] = wfd[q] /\ MyTmp(q) \in TmpFile /\ MyTmp(q) # n
        BY <2>2, <2>7, <3>2, MyTmpType, MyTmpApart DEF TypeOK, Writing, Storing
      <4>2. tmp'[MyTmp(q)] = tmp[MyTmp(q)] /\ tmp[MyTmp(q)] # i
        BY <2>1, <2>2, <2>5, <4>1 DEF TypeOK
      <4> QED
        BY <2>2, <4>1, <4>2 DEF Ownership, TmpIsMine, TypeOK
    <3> QED
      BY <3>1, <3>2
  <2>12. EntryWhole'
    BY <2>2, <2>5, <2>7 DEF Ownership, EntryWhole, TypeOK
  <2> QED
    BY <2>8, <2>9, <2>10, <2>11, <2>12 DEF Ownership
<1>21. ASSUME NEW p \in Proc, WriteHead(p) PROVE Ownership'
  <2> DEFINE i == wfd[p]
  <2>1. i \in Inode /\ pc[p] \in {"write", "fill"} /\ MyTmp(p) \in TmpFile
    BY <1>21, MyTmpType DEF WriteHead, TypeOK, Storing
  <2>2. i # NoInode
    BY <2>1, ConstantAssumption
  <2>3. /\ \A k \in Key : entry[k] # i
        /\ \A m \in TmpFile : tmp[m] = i => m = MyTmp(p)
        /\ \A q \in Proc : got[q] # i /\ (wfd[q] = i => q = p)
    BY <2>1, <2>2 DEF Ownership, WriterAlone
  <2>4. /\ \A q \in Proc : MyTmp(q)' = MyTmp(q) /\ FileOf(q, "whole")' = FileOf(q, "whole")
        /\ pc' = [pc EXCEPT ![p] = "fill"] /\ entry' = entry /\ tmp' = tmp /\ got' = got
        /\ data' = [data EXCEPT ![i] = FileOf(p, "head")]
        /\ \A q \in Proc : wfd'[q] = wfd[q] \/ (q = p /\ wfd'[q] = NoInode /\ pc'[p] = "rename")
    BY <1>21 DEF WriteHead, MyTmp, TmpName, CacheFile, FileOf, TypeOK
  <2>5. NamesApart' /\ MapsApart'
    BY <2>4 DEF Ownership, NamesApart, MapsApart
  <2>6. WriterAlone'
    BY <1>21, <2>4 DEF WriteHead, Ownership, WriterAlone, TypeOK
  <2>7. TmpIsMine'
    <3> SUFFICES ASSUME NEW q \in Proc, pc'[q] \in Writing
                 PROVE  /\ pc'[q] \in {"write", "fill"} => tmp[MyTmp(q)] \in {NoInode, wfd'[q]}
                        /\ pc'[q] = "rename" /\ tmp[MyTmp(q)] # NoInode =>
                              data'[tmp[MyTmp(q)]] = FileOf(q, "whole")
      BY <2>4 DEF TmpIsMine, Writing
    <3>1. CASE q = p
      BY <1>21, <2>1, <2>4, <3>1 DEF WriteHead, Ownership, TmpIsMine, TypeOK
    <3>2. CASE q # p
      <4>1. pc'[q] = pc[q] /\ wfd'[q] = wfd[q] /\ MyTmp(q) \in TmpFile /\ MyTmp(q) # MyTmp(p)
        BY <2>4, <3>2, MyTmpType, MyTmpApart DEF TypeOK, Writing, Storing
      <4>2. tmp[MyTmp(q)] # i
        BY <2>3, <4>1
      <4> QED
        BY <2>4, <4>1, <4>2 DEF Ownership, TmpIsMine, TypeOK
    <3> QED
      BY <3>1, <3>2
  <2>8. EntryWhole'
    BY <2>3, <2>4 DEF Ownership, EntryWhole, TypeOK
  <2> QED
    BY <2>5, <2>6, <2>7, <2>8 DEF Ownership
<1>22. ASSUME NEW p \in Proc, WriteStream(p) PROVE Ownership'
  <2> DEFINE i == wfd[p]
  <2>1. i \in Inode /\ pc[p] \in {"write", "fill"} /\ MyTmp(p) \in TmpFile
    BY <1>22, MyTmpType DEF WriteStream, TypeOK, Storing
  <2>2. i # NoInode
    BY <2>1, ConstantAssumption
  <2>3. /\ \A k \in Key : entry[k] # i
        /\ \A m \in TmpFile : tmp[m] = i => m = MyTmp(p)
        /\ \A q \in Proc : got[q] # i /\ (wfd[q] = i => q = p)
    BY <2>1, <2>2 DEF Ownership, WriterAlone
  <2>4. /\ \A q \in Proc : MyTmp(q)' = MyTmp(q) /\ FileOf(q, "whole")' = FileOf(q, "whole")
        /\ pc' = [pc EXCEPT ![p] = "rename"] /\ entry' = entry /\ tmp' = tmp /\ got' = got
        /\ data' = [data EXCEPT ![i] = FileOf(p, "whole")]
        /\ \A q \in Proc : wfd'[q] = wfd[q] \/ (q = p /\ wfd'[q] = NoInode /\ pc'[p] = "rename")
    BY <1>22 DEF WriteStream, MyTmp, TmpName, CacheFile, FileOf, TypeOK
  <2>5. NamesApart' /\ MapsApart'
    BY <2>4 DEF Ownership, NamesApart, MapsApart
  <2>6. WriterAlone'
    BY <1>22, <2>4 DEF WriteStream, Ownership, WriterAlone, TypeOK
  <2>7. TmpIsMine'
    <3> SUFFICES ASSUME NEW q \in Proc, pc'[q] \in Writing
                 PROVE  /\ pc'[q] \in {"write", "fill"} => tmp[MyTmp(q)] \in {NoInode, wfd'[q]}
                        /\ pc'[q] = "rename" /\ tmp[MyTmp(q)] # NoInode =>
                              data'[tmp[MyTmp(q)]] = FileOf(q, "whole")
      BY <2>4 DEF TmpIsMine, Writing
    <3>1. CASE q = p
      BY <1>22, <2>1, <2>4, <3>1 DEF WriteStream, Ownership, TmpIsMine, TypeOK
    <3>2. CASE q # p
      <4>1. pc'[q] = pc[q] /\ wfd'[q] = wfd[q] /\ MyTmp(q) \in TmpFile /\ MyTmp(q) # MyTmp(p)
        BY <2>4, <3>2, MyTmpType, MyTmpApart DEF TypeOK, Writing, Storing
      <4>2. tmp[MyTmp(q)] # i
        BY <2>3, <4>1
      <4> QED
        BY <2>4, <4>1, <4>2 DEF Ownership, TmpIsMine, TypeOK
    <3> QED
      BY <3>1, <3>2
  <2>8. EntryWhole'
    BY <2>3, <2>4 DEF Ownership, EntryWhole, TypeOK
  <2> QED
    BY <2>5, <2>6, <2>7, <2>8 DEF Ownership
<1>23. ASSUME NEW p \in Proc, Publish(p) PROVE Ownership'
  <2> DEFINE i == tmp[MyTmp(p)]
  <2>1. CacheFile(p) \in Key /\ MyTmp(p) \in TmpFile
    BY <1>23, MyTmpType DEF Publish, Storing
  <2>2. /\ i # NoInode /\ pc[p] = "rename" /\ pc' = [pc EXCEPT ![p] = "prune"]
        /\ entry' = [entry EXCEPT ![CacheFile(p)] = i]
        /\ tmp' = [tmp EXCEPT ![MyTmp(p)] = NoInode]
        /\ data' = data /\ wfd' = wfd /\ got' = got
    BY <1>23 DEF Publish, MyTmp
  <2>3. \A q \in Proc : MyTmp(q)' = MyTmp(q) /\ FileOf(q, "whole")' = FileOf(q, "whole")
    BY <1>23 DEF Publish, MyTmp, TmpName, CacheFile, FileOf
  <2>4. \A q \in Proc : wfd[q] # i
    <3> SUFFICES ASSUME NEW q \in Proc, wfd[q] = i PROVE FALSE
      OBVIOUS
    <3>1. MyTmp(p) = MyTmp(q) /\ pc[q] \in {"write", "fill"}
      BY <2>1, <2>2 DEF Ownership, WriterAlone
    <3> QED
      BY <2>2, <3>1, MyTmpApart
  <2>5. data[i].extent = "whole"
    <3>1. data[i] = FileOf(p, "whole")
      BY <2>2 DEF Ownership, TmpIsMine
    <3> QED
      BY <3>1 DEF FileOf
  <2>6. NamesApart'
    BY <2>1, <2>2 DEF Ownership, NamesApart, TypeOK
  <2>7. MapsApart'
    BY <2>1, <2>2 DEF Ownership, MapsApart, TypeOK
  <2>8. WriterAlone'
    BY <2>1, <2>2, <2>3, <2>4 DEF Ownership, WriterAlone, TypeOK
  <2>9. TmpIsMine'
    <3> SUFFICES ASSUME NEW q \in Proc, pc'[q] \in Writing
                 PROVE  /\ pc'[q] \in {"write", "fill"} => tmp'[MyTmp(q)] \in {NoInode, wfd[q]}
                        /\ pc'[q] = "rename" /\ tmp'[MyTmp(q)] # NoInode =>
                              data[tmp'[MyTmp(q)]] = FileOf(q, "whole")
      BY <2>2, <2>3 DEF TmpIsMine, Writing
    <3>1. q # p /\ pc'[q] = pc[q]
      BY <2>2 DEF TypeOK, Writing
    <3>2. MyTmp(q) \in TmpFile /\ MyTmp(q) # MyTmp(p)
      BY <3>1, MyTmpType, MyTmpApart DEF Writing, Storing
    <3> QED
      BY <2>2, <3>1, <3>2 DEF Ownership, TmpIsMine, TypeOK
  <2>10. EntryWhole'
    BY <2>1, <2>2, <2>5 DEF Ownership, EntryWhole, TypeOK
  <2> QED
    BY <2>6, <2>7, <2>8, <2>9, <2>10 DEF Ownership
<1>24. ASSUME NEW c \in Capture, Recapture(c) PROVE Ownership'
  BY <1>24, DropsKeepOwnership DEF Recapture, OnlyDrops
<1>25. CASE UNCHANGED vars
  BY <1>25, DropsKeepOwnership DEF vars, OnlyDrops
<1> QED
  BY <1>1, <1>2, <1>3, <1>4, <1>5, <1>6, <1>7, <1>8, <1>9, <1>10, <1>11, <1>12, <1>13, <1>14, <1>15, <1>16, <1>17, <1>18, <1>19, <1>20, <1>21, <1>22, <1>23, <1>24, <1>25, <1>13a DEF Next, Step

(* Files under final names are complete, for any number of processes that  *)
(* store, clear and die in any order, on captures that change at any time. *)
THEOREM PublishedFilesWhole == Spec => []PublishedIsWhole
<1>1. TypeOK /\ Ownership => PublishedIsWhole
  BY DEF Ownership, EntryWhole, WriterAlone, PublishedIsWhole, TypeOK
<1> QED
  BY <1>1, InitType, TypeStep, InitOwnership, OwnershipStep, PTL DEF Spec

-----------------------------------------------------------------------------
(* Only three actions write, each to an inode its process alone refers to. *)
LEMMA WritesAlone ==
    ASSUME TypeOK, Ownership, [Next]_vars
    PROVE  ReadersUndisturbed
<1> SUFFICES ASSUME NEW i \in Inode, data'[i] # data[i]
             PROVE  /\ \A q \in Proc : got[q] # i
                    /\ \A k \in Key : entry[k] # i
  BY DEF TypeOK, ReadersUndisturbed
<1>1. PICK p \in Proc : OpenTmp(p) \/ WriteHead(p) \/ WriteStream(p)
  <2>1. ASSUME NEW p \in Proc, Begin(p) \/ BeginClear(p) \/ Crash(p) PROVE FALSE
    BY <2>1 DEF Begin, BeginClear, Crash, Exit, dirVars
  <2>2. ASSUME NEW p \in Proc, Step(p) PROVE OpenTmp(p) \/ WriteHead(p) \/ WriteStream(p)
    <3>1. CASE \/ StatForLookup(p) \/ HeaderMissing(p) \/ HeaderRefused(p)
               \/ HeaderAccepted(p) \/ MapEntry(p) \/ MapFails(p)
      BY <3>1 DEF StatForLookup, HeaderMissing, HeaderRefused, HeaderAccepted, MapEntry,
                  MapFails, dirVars
    <3>2. CASE \/ Evict(p) \/ Decode(p) \/ StatForStore(p) \/ Publish(p)
               \/ StoreFails(p) \/ Discard(p)
      BY <3>2 DEF Evict, Decode, StatForStore, Publish, StoreFails, Discard, dirVars
    <3>3. CASE PruneList(p) \/ PruneRead(p) \/ PruneOne(p) \/ PruneDone(p) \/ ClearOne(p) \/ Finish(p)
      BY <3>3 DEF PruneList, PruneRead, PruneOne, PruneDone, ClearOne, Finish, Exit, dirVars
    <3> QED
      BY <2>2, <3>1, <3>2, <3>3 DEF Step
  <2>3. ASSUME NEW c \in Capture, Recapture(c) PROVE FALSE
    BY <2>3 DEF Recapture, dirVars
  <2>4. ~UNCHANGED vars
    BY DEF vars, dirVars
  <2> QED
    BY <2>1, <2>2, <2>3, <2>4 DEF Next
<1>2. CASE OpenTmp(p)
  <2>1. MyTmp(p) \in TmpFile
    BY <1>2, MyTmpType DEF OpenTmp, Storing
  <2>2. IF tmp[MyTmp(p)] = NoInode THEN Fresh(i) ELSE i = tmp[MyTmp(p)]
    BY <1>2 DEF OpenTmp, TypeOK, MyTmp
  <2> QED
    BY <2>1, <2>2, ConstantAssumption DEF Fresh, Free, Ownership, NamesApart, MapsApart
<1>3. CASE WriteHead(p)
  BY <1>3, ConstantAssumption DEF WriteHead, TypeOK, Ownership, WriterAlone
<1>4. CASE WriteStream(p)
  BY <1>4, ConstantAssumption DEF WriteStream, TypeOK, Ownership, WriterAlone
<1> QED
  BY <1>1, <1>2, <1>3, <1>4

(* No reader ever sees bytes change under its map or behind a final name.  *)
THEOREM ReadersNeverDisturbed == Spec => MappedBytesFixed
BY InitType, TypeStep, InitOwnership, OwnershipStep, WritesAlone, PTL
   DEF Spec, MappedBytesFixed

-----------------------------------------------------------------------------
(***************************************************************************)
(* When a capture keeps still while a command runs on it (or the platform  *)
(* makes it: Windows does not replace a mapped file), everything a process *)
(* read, stat'ed or decoded is one version, and so is every entry.         *)
(***************************************************************************)
Agrees(p) ==
    /\ pc[p] \notin Asleep => version[job[p].cap] = info[p]
    /\ pc[p] \in Asleep => info[p] = NoVersion
    /\ ident[p] \in {NoVersion, info[p]}
    /\ heap[p] \in {NoVersion, info[p]}
    /\ pc[p] = "map" => want[p] = Len[info[p]]
    /\ served[p] # NoStream =>
          pc[p] = "done" /\ served[p] = [ver |-> info[p], len |-> Len[info[p]]]
    /\ info[p] = NoVersion => served[p] = NoStream

(* A header accepted before the map still describes what the name offers.  *)
Offered(i, k) == i = NoInode \/ (Readable(i) /\ Usable(i, k, Len[k.ver]))

AcceptedStays(p) == pc[p] = "map" => Offered(entry[CacheFile(p)], CacheFile(p))

Truthful == EntryHonest /\ \A p \in Proc : Agrees(p) /\ AcceptedStays(p)

LEMMA InitTruthful == Init => Truthful
<1> SUFFICES ASSUME Init PROVE Truthful
  OBVIOUS
<1>1. \A p \in Proc : Agrees(p) /\ AcceptedStays(p)
  BY DEF Init, Agrees, AcceptedStays, Asleep
<1>2. ASSUME NEW k \in Key PROVE Honest(entry[k], k)
  <2>1. CASE entry[k] = NoInode
    BY <2>1 DEF Honest, Readable
  <2>2. CASE entry[k] # NoInode
    <3>1. data[entry[k]] \in Leftover \cup {Truncated}
      BY <2>2 DEF Init
    <3>2. CASE data[entry[k]] = Truncated
      BY <3>2 DEF Honest, Readable, Truncated
    <3>3. CASE data[entry[k]] \in Leftover
      BY <3>3, LeftoverAssumption DEF Honest, Readable, Usable
    <3> QED
      BY <3>1, <3>2, <3>3
  <2> QED
    BY <2>1, <2>2
<1> QED
  BY <1>1, <1>2 DEF Truthful, EntryHonest

(* Apart from Publish, a step leaves an entry's file in place or drops its *)
(* name, and the file's bytes stay.                                        *)
LEMMA EntriesStayOrDrop ==
    ASSUME TypeOK, Ownership, [Next]_vars, \A p \in Proc : ~Publish(p), NEW k \in Key
    PROVE  entry'[k] = NoInode \/ (entry'[k] = entry[k] /\ data'[entry[k]] = data[entry[k]])
<1>1. entry'[k] \in {entry[k], NoInode}
  <2>1. ASSUME NEW p \in Proc, Begin(p) \/ BeginClear(p) \/ Crash(p)
        PROVE  entry'[k] = entry[k]
    BY <2>1 DEF Begin, BeginClear, Crash, Exit, dirVars
  <2>2. ASSUME NEW p \in Proc, Step(p) PROVE entry'[k] \in {entry[k], NoInode}
    <3>1. CASE \/ StatForLookup(p) \/ HeaderMissing(p) \/ HeaderRefused(p)
               \/ HeaderAccepted(p) \/ MapEntry(p) \/ MapFails(p)
      BY <3>1 DEF StatForLookup, HeaderMissing, HeaderRefused, HeaderAccepted, MapEntry,
                  MapFails, dirVars
    <3>2. CASE Evict(p) \/ PruneOne(p) \/ ClearOne(p)
      BY <3>2 DEF Evict, PruneOne, ClearOne, RemoveEntry, TypeOK
    <3>3. CASE \/ Decode(p) \/ StatForStore(p) \/ OpenTmp(p) \/ WriteHead(p)
               \/ WriteStream(p) \/ StoreFails(p) \/ Discard(p)
      BY <3>3 DEF Decode, StatForStore, OpenTmp, WriteHead, WriteStream, StoreFails,
                  Discard, dirVars
    <3>4. CASE PruneList(p) \/ PruneRead(p) \/ PruneDone(p) \/ Finish(p)
      BY <3>4 DEF PruneList, PruneRead, PruneDone, Finish, Exit, dirVars
    <3> QED
      BY <2>2, <3>1, <3>2, <3>3, <3>4 DEF Step
  <2>3. ASSUME NEW c \in Capture, Recapture(c) PROVE entry'[k] = entry[k]
    BY <2>3 DEF Recapture, dirVars
  <2>4. CASE UNCHANGED vars
    BY <2>4 DEF vars, dirVars
  <2> QED
    BY <2>1, <2>2, <2>3, <2>4 DEF Next
<1> QED
  BY <1>1, WritesAlone DEF ReadersUndisturbed

LEMMA EntryHonestStep ==
    ASSUME TypeOK, Ownership, Truthful, [Next]_vars
    PROVE  EntryHonest'
<1> SUFFICES ASSUME NEW k \in Key PROVE Honest(entry[k], k)'
  BY DEF EntryHonest
<1>1. Honest(entry[k], k)
  BY DEF Truthful, EntryHonest
<1>2. CASE \A p \in Proc : ~Publish(p)
  BY <1>1, <1>2, EntriesStayOrDrop DEF Honest, Readable, Usable
<1>3. ASSUME NEW p \in Proc, Publish(p) PROVE Honest(entry[k], k)'
  <2>1. CacheFile(p) \in Key /\ MyTmp(p) \in TmpFile
    BY <1>3, MyTmpType DEF Publish, Storing
  <2>2. /\ tmp[MyTmp(p)] # NoInode /\ pc[p] = "rename" /\ data' = data
        /\ entry' = [entry EXCEPT ![CacheFile(p)] = tmp[MyTmp(p)]]
    BY <1>3 DEF Publish, MyTmp
  <2>3. CASE k # CacheFile(p)
    BY <1>1, <2>2, <2>3 DEF Honest, Readable, Usable
  <2>4. CASE k = CacheFile(p)
    <3>1. entry'[k] = tmp[MyTmp(p)]
      BY <2>1, <2>2, <2>4 DEF TypeOK
    <3>2. data[tmp[MyTmp(p)]] = FileOf(p, "whole")
      BY <2>2 DEF Ownership, TmpIsMine
    <3>3. heap[p] = info[p] /\ ident[p] = info[p]
      BY <2>2, ConstantAssumption DEF Truthful, Agrees, TypeOK, Storing
    <3> QED
      BY <2>2, <2>4, <3>1, <3>2, <3>3 DEF Honest, FileOf, CacheFile
  <2> QED
    BY <2>3, <2>4
<1> QED
  BY <1>2, <1>3

(* A step of one process leaves what another one holds alone.              *)
Act(p) == Begin(p) \/ BeginClear(p) \/ Step(p) \/ Crash(p)

SameLocals(q) ==
    /\ pc'[q] = pc[q] /\ job'[q] = job[q] /\ info'[q] = info[q] /\ ident'[q] = ident[q]
    /\ want'[q] = want[q] /\ heap'[q] = heap[q] /\ served'[q] = served[q]

LEMMA OthersKeep ==
    ASSUME TypeOK, NEW p \in Proc, NEW q \in Proc, p # q, Act(p)
    PROVE  SameLocals(q)
<1> USE DEF SameLocals, TypeOK
<1>1. CASE Begin(p) \/ BeginClear(p) \/ Finish(p) \/ Crash(p)
  BY <1>1 DEF Begin, BeginClear, Finish, Crash, Exit
<1>2. CASE StatForLookup(p) \/ HeaderMissing(p) \/ HeaderRefused(p) \/ MapFails(p) \/ Evict(p)
  BY <1>2 DEF StatForLookup, HeaderMissing, HeaderRefused, MapFails, Evict, Miss, Serve
<1>3. CASE HeaderAccepted(p) \/ MapEntry(p) \/ Decode(p) \/ StatForStore(p)
  BY <1>3 DEF HeaderAccepted, MapEntry, Decode, StatForStore, AfterStore, Serve
<1>4. CASE OpenTmp(p) \/ WriteHead(p) \/ WriteStream(p) \/ Publish(p) \/ StoreFails(p)
  BY <1>4 DEF OpenTmp, WriteHead, WriteStream, Publish, StoreFails
<1>5. CASE Discard(p) \/ PruneList(p) \/ PruneRead(p) \/ PruneOne(p) \/ PruneDone(p) \/ ClearOne(p)
  BY <1>5 DEF Discard, PruneList, PruneRead, PruneOne, PruneDone, ClearOne, AfterStore, Serve
<1> QED
  BY <1>1, <1>2, <1>3, <1>4, <1>5 DEF Act, Step

(* Only an accepted header leads to the map.                               *)
LEMMA OnlyHeaderMaps ==
    ASSUME TypeOK, NEW p \in Proc, Act(p), ~HeaderAccepted(p)
    PROVE  pc'[p] # "map"
<1> USE DEF TypeOK
<1>1. CASE Begin(p) \/ BeginClear(p) \/ Finish(p) \/ Crash(p)
  BY <1>1 DEF Begin, BeginClear, Finish, Crash, Exit
<1>2. CASE StatForLookup(p) \/ HeaderMissing(p) \/ HeaderRefused(p) \/ MapFails(p) \/ Evict(p)
  BY <1>2 DEF StatForLookup, HeaderMissing, HeaderRefused, MapFails, Evict, Miss, Serve
<1>3. CASE MapEntry(p) \/ Decode(p) \/ StatForStore(p)
  BY <1>3 DEF MapEntry, Decode, StatForStore, AfterStore, Serve
<1>4. CASE OpenTmp(p) \/ WriteHead(p) \/ WriteStream(p) \/ Publish(p) \/ StoreFails(p)
  BY <1>4 DEF OpenTmp, WriteHead, WriteStream, Publish, StoreFails
<1>5. CASE Discard(p) \/ PruneList(p) \/ PruneRead(p) \/ PruneOne(p) \/ PruneDone(p) \/ ClearOne(p)
  BY <1>5 DEF Discard, PruneList, PruneRead, PruneOne, PruneDone, ClearOne, AfterStore, Serve
<1> QED
  BY <1>1, <1>2, <1>3, <1>4, <1>5 DEF Act, Step

(* A step is one process's, or leaves every process alone.                 *)
LEMMA WhoSteps ==
    ASSUME [Next]_vars
    PROVE  \/ \E p \in Proc : Act(p)
           \/ UNCHANGED <<dirVars, localVars>>
BY DEF Next, Act, vars, Recapture

LEMMA AcceptedStaysStep ==
    ASSUME TypeOK, Ownership, Truthful, [Next]_vars, NEW q \in Proc
    PROVE  AcceptedStays(q)'
<1> SUFFICES ASSUME pc'[q] = "map" PROVE AcceptedStays(q)'
  BY DEF AcceptedStays
<1>1. ASSUME NEW p \in Proc, HeaderAccepted(p), p = q
      PROVE  AcceptedStays(q)'
  <2>1. ident[q] = info[q]
    BY <1>1, ConstantAssumption DEF HeaderAccepted, Truthful, Agrees, TypeOK
  <2>2. /\ CacheFile(q)' = CacheFile(q) /\ entry' = entry /\ data' = data
        /\ Readable(entry[CacheFile(q)])
        /\ Usable(entry[CacheFile(q)], CacheFile(q), Len[info[q]])
    BY <1>1 DEF HeaderAccepted, CacheFile, dirVars
  <2>3. CacheFile(q).ver = info[q]
    BY <2>1 DEF CacheFile
  <2> QED
    BY <2>2, <2>3 DEF AcceptedStays, Offered, Readable, Usable
<1>2. CASE \A p \in Proc : HeaderAccepted(p) => p # q
  <2>1. pc[q] = "map" /\ CacheFile(q)' = CacheFile(q)
    <3>1. CASE UNCHANGED <<dirVars, localVars>>
      BY <3>1 DEF localVars, CacheFile
    <3>2. ASSUME NEW p \in Proc, Act(p) PROVE p # q /\ SameLocals(q)
      BY <1>2, <3>2, OnlyHeaderMaps, OthersKeep
    <3> QED
      BY <3>1, <3>2, WhoSteps DEF SameLocals, CacheFile
  <2>2. CacheFile(q) \in Key
    BY <2>1, CacheFileType DEF TypeOK, Asleep
  <2>3. AcceptedStays(q)
    BY DEF Truthful
  <2>4. CASE \A p \in Proc : ~Publish(p)
    <3> DEFINE k == CacheFile(q)
    <3>1. entry'[k] = NoInode \/ (entry'[k] = entry[k] /\ data'[entry[k]] = data[entry[k]])
      BY <2>2, <2>4, EntriesStayOrDrop
    <3>2. Offered(entry[k], k)
      BY <2>1, <2>3 DEF AcceptedStays
    <3>3. Offered(entry[k], k)'
      <4>1. CASE entry'[k] = NoInode
        BY <2>1, <4>1 DEF Offered
      <4>2. CASE entry'[k] = entry[k] /\ data'[entry[k]] = data[entry[k]]
        BY <2>1, <3>2, <4>2 DEF Offered, Readable, Usable
      <4> QED
        BY <3>1, <4>1, <4>2
    <3> QED
      BY <2>1, <3>3 DEF AcceptedStays
  <2>5. ASSUME NEW p \in Proc, Publish(p) PROVE AcceptedStays(q)'
    <3>1. CacheFile(p) \in Key /\ MyTmp(p) \in TmpFile
      BY <2>5, MyTmpType DEF Publish, Storing
    <3>2. /\ tmp[MyTmp(p)] # NoInode /\ pc[p] = "rename" /\ data' = data
          /\ entry' = [entry EXCEPT ![CacheFile(p)] = tmp[MyTmp(p)]]
      BY <2>5 DEF Publish, MyTmp
    <3>3. CASE CacheFile(p) # CacheFile(q)
      BY <2>1, <2>2, <2>3, <3>2, <3>3 DEF AcceptedStays, Offered, Readable, Usable
    <3>4. CASE CacheFile(p) = CacheFile(q)
      <4>1. entry'[CacheFile(q)] = tmp[MyTmp(p)]
        BY <3>1, <3>2, <3>4 DEF TypeOK
      <4>2. data[tmp[MyTmp(p)]] = FileOf(p, "whole")
        BY <3>2 DEF Ownership, TmpIsMine
      <4>3. heap[p] = info[p] /\ ident[p] = info[p] /\ Len[info[p]] \in Nat
        BY <3>2, ConstantAssumption DEF Truthful, Agrees, TypeOK, Storing
      <4> QED
        BY <2>1, <3>2, <3>4, <4>1, <4>2, <4>3
           DEF AcceptedStays, Offered, Readable, Usable, FileOf, CacheFile
    <3> QED
      BY <3>3, <3>4
  <2> QED
    BY <2>4, <2>5
<1> QED
  BY <1>1, <1>2

-----------------------------------------------------------------------------
LEMMA RecaptureKeepsAgreement ==
    ASSUME Calm \/ MapLocks, TypeOK, NEW c \in Capture, Recapture(c), NEW q \in Proc, Agrees(q)
    PROVE  Agrees(q)'
<1>1. pc[q] \notin Asleep => job[q].cap # c
  BY ConstantAssumption DEF Recapture, TypeOK
<1>2. \A d \in Capture : d # c => version'[d] = version[d]
  BY DEF Recapture, TypeOK
<1>3. pc[q] \notin Asleep => version'[job[q].cap] = version[job[q].cap]
  BY <1>1, <1>2 DEF TypeOK, Job
<1> QED
  BY <1>3 DEF Recapture, localVars, Agrees

(* What a process concludes from its own step.                             *)
LEMMA OwnStepAgrees ==
    ASSUME TypeOK, Truthful, NEW p \in Proc, Act(p)
    PROVE  Agrees(p)'
<1> DEFINE v == info[p]
<1>1. Agrees(p) /\ AcceptedStays(p) /\ EntryHonest
  BY DEF Truthful
<1>2. ASSUME Begin(p) PROVE Agrees(p)'
  BY <1>1, <1>2, ConstantAssumption DEF Begin, Agrees, TypeOK, Asleep, Job
<1>3. ASSUME BeginClear(p) PROVE Agrees(p)'
  BY <1>1, <1>3 DEF BeginClear, Agrees, TypeOK, Asleep
<1>4. ASSUME Finish(p) \/ Crash(p) PROVE Agrees(p)'
  BY <1>4 DEF Finish, Crash, Exit, Agrees, TypeOK, Asleep
<1>5. ASSUME pc[p] \notin Asleep, Miss(p), UNCHANGED <<version, job, info, heap, want>>,
             ident'[p] = version[job[p].cap] \/ ident'[p] = ident[p], pc[p] # "done"
      PROVE  Agrees(p)'
  <2>1. v \in Version /\ v # NoVersion
    BY <1>5, ConstantAssumption DEF TypeOK
  <2>2. ident'[p] \in {NoVersion, v} /\ served[p] = NoStream
    BY <1>1, <1>5 DEF Agrees
  <2>3. CASE heap[p] = NoVersion
    BY <1>1, <1>5, <2>1, <2>2, <2>3 DEF Miss, Agrees, TypeOK, Asleep
  <2>4. CASE heap[p] # NoVersion
    BY <1>1, <1>5, <2>1, <2>2, <2>4 DEF Miss, Serve, Agrees, TypeOK, Asleep
  <2> QED
    BY <2>3, <2>4
<1>6. ASSUME pc[p] \notin Asleep, AfterStore(p), heap[p] \in Version,
             UNCHANGED <<version, job, info, heap, want, ident>>, pc[p] # "done"
      PROVE  Agrees(p)'
  <2>1. v \in Version /\ v # NoVersion /\ heap[p] = v /\ served[p] = NoStream
    BY <1>1, <1>6, ConstantAssumption DEF TypeOK, Agrees
  <2> QED
    BY <1>1, <1>6, <2>1 DEF AfterStore, Serve, Agrees, TypeOK, Asleep
<1>7. ASSUME StatForLookup(p) PROVE Agrees(p)'
  <2>1. CASE Miss(p)
    BY <1>5, <1>7, <2>1 DEF StatForLookup, TypeOK, Asleep
  <2>2. CASE pc' = [pc EXCEPT ![p] = "head"] /\ UNCHANGED served
    BY <1>1, <1>7, <2>2 DEF StatForLookup, Agrees, TypeOK, Asleep
  <2> QED
    BY <1>7, <2>1, <2>2 DEF StatForLookup
<1>8. ASSUME HeaderMissing(p) \/ Evict(p) PROVE Agrees(p)'
  BY <1>5, <1>8 DEF HeaderMissing, Evict, Asleep
<1>9. ASSUME HeaderRefused(p) \/ MapFails(p) PROVE Agrees(p)'
  BY <1>1, <1>9 DEF HeaderRefused, MapFails, Agrees, TypeOK, Asleep
<1>10. ASSUME HeaderAccepted(p) PROVE Agrees(p)'
  <2> DEFINE i == entry[CacheFile(p)]
  <2>1. CacheFile(p) \in Key /\ v \in Version /\ v # NoVersion /\ ident[p] = v
    BY <1>1, <1>10, CacheFileType, ConstantAssumption DEF HeaderAccepted, TypeOK, Asleep, Agrees
  <2>2. CacheFile(p).ver = v
    BY <2>1 DEF CacheFile
  <2>3. Readable(i) /\ Usable(i, CacheFile(p), Len[v])
    BY <1>10 DEF HeaderAccepted
  <2>4. data[i].body = v /\ data[i].len = Len[v]
    BY <1>1, <2>1, <2>2, <2>3 DEF EntryHonest, Honest
  <2>5. served[p] = NoStream
    BY <1>1, <1>10 DEF HeaderAccepted, Agrees
  <2>6. CASE job[p].op = "stats"
    BY <1>1, <1>10, <2>1, <2>4, <2>6 DEF HeaderAccepted, Serve, Agrees, TypeOK, Asleep
  <2>7. CASE job[p].op # "stats"
    BY <1>1, <1>10, <2>1, <2>4, <2>5, <2>7 DEF HeaderAccepted, Agrees, TypeOK, Asleep
  <2> QED
    BY <2>6, <2>7
<1>11. ASSUME MapEntry(p) PROVE Agrees(p)'
  <2> DEFINE i == entry[CacheFile(p)]
  <2>1. CacheFile(p) \in Key /\ v \in Version /\ v # NoVersion /\ ident[p] = v
    BY <1>1, <1>11, CacheFileType, ConstantAssumption DEF MapEntry, TypeOK, Asleep, Agrees
  <2>2. CacheFile(p).ver = v
    BY <2>1 DEF CacheFile
  <2>3. Readable(i) /\ Usable(i, CacheFile(p), Len[v]) /\ want[p] = Len[v]
    BY <1>1, <1>11, <2>2 DEF MapEntry, AcceptedStays, Offered, Agrees
  <2>4. data[i].body = v
    BY <1>1, <2>1, <2>2, <2>3 DEF EntryHonest, Honest
  <2> QED
    BY <1>1, <1>11, <2>1, <2>3, <2>4 DEF MapEntry, Serve, Agrees, TypeOK, Asleep
<1>12. ASSUME Decode(p) PROVE Agrees(p)'
  BY <1>1, <1>12 DEF Decode, Agrees, TypeOK, Asleep
<1>13. ASSUME StatForStore(p) PROVE Agrees(p)'
  <2>1. CASE AfterStore(p) /\ UNCHANGED ident
    BY <1>6, <1>13, <2>1 DEF StatForStore, TypeOK, Asleep
  <2>2. CASE /\ ident' = [ident EXCEPT ![p] = version[job[p].cap]]
             /\ pc' = [pc EXCEPT ![p] = "open"]
             /\ UNCHANGED served
    BY <1>1, <1>13, <2>2 DEF StatForStore, Agrees, TypeOK, Asleep
  <2> QED
    BY <1>13, <2>1, <2>2 DEF StatForStore
<1>14. ASSUME OpenTmp(p) \/ WriteHead(p) \/ WriteStream(p) \/ Publish(p) \/ StoreFails(p)
       PROVE  Agrees(p)'
  BY <1>1, <1>14 DEF OpenTmp, WriteHead, WriteStream, Publish, StoreFails, Agrees, TypeOK, Asleep
<1>15. ASSUME Discard(p) \/ PruneDone(p) PROVE Agrees(p)'
  BY <1>6, <1>15 DEF Discard, PruneDone, TypeOK, Asleep, Storing
<1>16. ASSUME PruneList(p) \/ PruneRead(p) \/ PruneOne(p) \/ ClearOne(p) PROVE Agrees(p)'
  BY <1>1, <1>16 DEF PruneList, PruneRead, PruneOne, ClearOne, Agrees, TypeOK, Asleep
<1> QED
  BY <1>2, <1>3, <1>4, <1>7, <1>8, <1>9, <1>10, <1>11, <1>12, <1>13, <1>14, <1>15, <1>16
     DEF Act, Step

LEMMA ActKeepsVersion ==
    ASSUME NEW p \in Proc, Act(p)
    PROVE  version' = version
BY DEF Act, Step, Begin, BeginClear, StatForLookup,
       HeaderMissing, HeaderRefused, HeaderAccepted, MapEntry, MapFails, Evict, Decode,
       StatForStore, OpenTmp, WriteHead, WriteStream, Publish, StoreFails, Discard, PruneList, PruneRead,
       PruneOne, PruneDone, ClearOne, Finish, Crash, Exit

LEMMA TruthfulStep ==
    ASSUME Calm \/ MapLocks, TypeOK, Ownership, Truthful, [Next]_vars
    PROVE  Truthful'
<1>1. ASSUME NEW q \in Proc PROVE Agrees(q)'
  <2>1. Agrees(q)
    BY DEF Truthful
  <2>2. ASSUME NEW p \in Proc, Act(p), p # q PROVE Agrees(q)'
    BY <2>1, <2>2, OthersKeep, ActKeepsVersion DEF Agrees, SameLocals
  <2>3. ASSUME NEW c \in Capture, Recapture(c) PROVE Agrees(q)'
    BY <2>1, <2>3, RecaptureKeepsAgreement
  <2>4. CASE UNCHANGED vars
    BY <2>1, <2>4 DEF vars, localVars, Agrees
  <2> QED
    BY <2>2, <2>3, <2>4, OwnStepAgrees DEF Next, Act
<1> QED
  BY <1>1, EntryHonestStep, AcceptedStaysStep DEF Truthful

(* What a call returns is the stream of the capture it parsed, whole; and  *)
(* what a final name offers was built from exactly the file it names.      *)
THEOREM CacheNeverLies ==
    ASSUME Calm \/ MapLocks
    PROVE  Spec => [](ServedIsParsed /\ EntryHonest)
<1>1. Truthful => ServedIsParsed /\ EntryHonest
  BY DEF Truthful, Agrees, ServedIsParsed
<1>2. TypeOK /\ Ownership /\ Truthful /\ [Next]_vars => Truthful'
  BY TruthfulStep
<1> QED
  BY <1>1, <1>2, InitType, TypeStep, InitOwnership, OwnershipStep, InitTruthful, PTL DEF Spec

(* An entry offers the stream its header names, while captures keep still    *)
(* under a command or the platform makes them (rdc_cache.py:245-309).        *)
THEOREM EntriesAreHonest ==
    ASSUME Calm \/ MapLocks
    PROVE  Spec => []EntryHonest
BY CacheNeverLies, PTL

-----------------------------------------------------------------------------
(***************************************************************************)
(* The refinement: with captures that keep still, the cache cannot be told *)
(* from the service that always decompresses.                              *)
(***************************************************************************)
LEMMA InitService == Init => Service!ServiceInit
BY DEF Init, Service!ServiceInit

LEMMA ServeAnswers ==
    ASSUME TypeOK, Truthful, NEW p \in Proc, pc[p] \notin Asleep \cup {"done"},
           UNCHANGED <<version, info>>, Agrees(p)', served' # served,
           \A q \in Proc : q # p => served'[q] = served[q],
           served' \in [Proc -> Stream \cup {NoStream}]
    PROVE  Service!Answer(p)
<1>1. info[p] \in Version /\ info[p] # NoVersion /\ served[p] = NoStream
  BY ConstantAssumption DEF TypeOK, Truthful, Agrees
<1>2. served'[p] # served[p]
  BY DEF TypeOK
<1>3. served'[p] = [ver |-> info[p], len |-> Len[info[p]]]
  BY <1>1, <1>2 DEF Agrees
<1>4. served' = [served EXCEPT ![p] = [ver |-> info[p], len |-> Len[info[p]]]]
  BY <1>3 DEF TypeOK
<1> QED
  BY <1>1, <1>4 DEF Service!Answer

LEMMA ServiceStep ==
    ASSUME Calm \/ MapLocks, TypeOK, Ownership, Truthful, [Next]_vars
    PROVE  [Service!ServiceNext]_Service!serviceVars
<1> USE DEF Service!ServiceNext, Service!serviceVars
<1>1. ASSUME NEW c \in Capture, Recapture(c)
      PROVE  [Service!ServiceNext]_Service!serviceVars
  BY <1>1 DEF Recapture, localVars, Service!Recapture
<1>2. CASE UNCHANGED vars
  BY <1>2 DEF vars, localVars
<1>3. ASSUME NEW p \in Proc, Begin(p)
      PROVE  [Service!ServiceNext]_Service!serviceVars
  <2>1. info[p] = NoVersion
    BY <1>3 DEF Begin, Truthful, Agrees, Asleep
  <2> QED
    BY <1>3, <2>1 DEF Begin, Service!Ask
<1>4. ASSUME NEW p \in Proc, Exit(p)
      PROVE  [Service!ServiceNext]_Service!serviceVars
  <2>1. CASE info[p] = NoVersion
    <3>1. served[p] = NoStream
      BY <2>1 DEF Truthful, Agrees
    <3> QED
      BY <1>4, <2>1, <3>1 DEF Exit, TypeOK
  <2>2. CASE info[p] # NoVersion
    BY <1>4, <2>2 DEF Exit, Service!Leave
  <2> QED
    BY <2>1, <2>2
<1>5. ASSUME NEW p \in Proc, Act(p), ~Begin(p), ~Finish(p), ~Crash(p)
      PROVE  [Service!ServiceNext]_Service!serviceVars
  <2>1. UNCHANGED <<version, info>>
    BY <1>5 DEF Act, Step, BeginClear, StatForLookup, HeaderMissing, HeaderRefused,
         HeaderAccepted, MapEntry, MapFails, Evict, Decode, StatForStore, OpenTmp, WriteHead,
         WriteStream, Publish, StoreFails, Discard, PruneList, PruneRead, PruneOne, PruneDone, ClearOne
  <2>2. served' # served => pc[p] \notin Asleep \cup {"done"}
    BY <1>5 DEF Act, Step, BeginClear, StatForLookup, HeaderMissing, HeaderRefused,
         HeaderAccepted, MapEntry, MapFails, Evict, Decode, StatForStore, OpenTmp, WriteHead,
         WriteStream, Publish, StoreFails, Discard, PruneList, PruneRead, PruneOne, PruneDone, ClearOne,
         Asleep
  <2>3. \A q \in Proc : q # p => served'[q] = served[q]
    BY <1>5, OthersKeep DEF SameLocals
  <2>4. Agrees(p)' /\ served' \in [Proc -> Stream \cup {NoStream}]
    BY <1>5, TruthfulStep, TypeStep DEF Truthful, TypeOK
  <2>5. served' # served => Service!Answer(p)
    BY <2>1, <2>2, <2>3, <2>4, ServeAnswers
  <2> QED
    BY <2>1, <2>5
<1> QED
  BY <1>1, <1>2, <1>3, <1>4, <1>5 DEF Next, Act, Step, Finish, Crash

(* "A pure optimisation" (REFERENCE 4.8): every behaviour of the cache is  *)
(* one of the service that never had it.                                   *)
THEOREM CacheIsTransparent ==
    ASSUME Calm \/ MapLocks
    PROVE  Spec => ImplementsService
<1>1. TypeOK /\ Ownership /\ Truthful /\ [Next]_vars => Truthful'
  BY TruthfulStep
<1>2. TypeOK /\ Ownership /\ Truthful /\ [Next]_vars
         => [Service!ServiceNext]_Service!serviceVars
  BY ServiceStep
<1> QED
  BY <1>1, <1>2, InitType, TypeStep, InitOwnership, OwnershipStep, InitTruthful,
     InitService, PTL DEF Spec, ImplementsService, Service!ServiceSpec

-----------------------------------------------------------------------------
(* What removing entries by name costs, in a directory whose files were     *)
(* filed under their own keys, and what a prune leaves, in any directory.    *)

(* A file that has a header is under the name its header gives.              *)
Filed == \A k \in Key : Readable(entry[k]) => data[entry[k]].key = k

(* A prune only has names of its own slot in hand.                           *)
PruneAim == \A p \in Proc : pc[p] = "pruning" => \A k \in doomed[p] : Slot(k) = Slot(CacheFile(p))

LEMMA FiledStep ==
    ASSUME TypeOK, Ownership, Filed, [Next]_vars
    PROVE  Filed'
<1> SUFFICES ASSUME NEW k \in Key, Readable(entry[k])' PROVE data'[entry'[k]].key = k
  BY DEF Filed
<1>1. CASE \A p \in Proc : ~Publish(p)
  BY <1>1, EntriesStayOrDrop DEF Filed, Readable
<1>2. ASSUME NEW p \in Proc, Publish(p) PROVE data'[entry'[k]].key = k
  <2>1. CacheFile(p) \in Key /\ MyTmp(p) \in TmpFile
    BY <1>2, MyTmpType DEF Publish, Storing
  <2>2. /\ tmp[MyTmp(p)] # NoInode /\ pc[p] = "rename" /\ data' = data
        /\ entry' = [entry EXCEPT ![CacheFile(p)] = tmp[MyTmp(p)]]
    BY <1>2 DEF Publish, MyTmp
  <2>3. CASE k # CacheFile(p)
    BY <2>2, <2>3 DEF Filed, Readable
  <2>4. CASE k = CacheFile(p)
    <3>1. entry'[k] = tmp[MyTmp(p)]
      BY <2>1, <2>2, <2>4 DEF TypeOK
    <3>2. data[tmp[MyTmp(p)]] = FileOf(p, "whole")
      BY <2>2 DEF Ownership, TmpIsMine
    <3> QED
      BY <2>2, <2>4, <3>1, <3>2 DEF FileOf
  <2> QED
    BY <2>3, <2>4
<1> QED
  BY <1>1, <1>2

(* Nobody else touches what a process has listed.                  *)
LEMMA OthersKeepLists ==
    ASSUME TypeOK, NEW p \in Proc, NEW q \in Proc, p # q, Act(p)
    PROVE  listed'[q] = listed[q] /\ doomed'[q] = doomed[q]
<1> USE DEF TypeOK
<1>1. CASE Begin(p) \/ BeginClear(p) \/ Finish(p) \/ Crash(p)
  BY <1>1 DEF Begin, BeginClear, Finish, Crash, Exit
<1>2. CASE StatForLookup(p) \/ HeaderMissing(p) \/ HeaderRefused(p) \/ MapFails(p) \/ Evict(p)
  BY <1>2 DEF StatForLookup, HeaderMissing, HeaderRefused, MapFails, Evict
<1>3. CASE HeaderAccepted(p) \/ MapEntry(p) \/ Decode(p) \/ StatForStore(p)
  BY <1>3 DEF HeaderAccepted, MapEntry, Decode, StatForStore
<1>4. CASE OpenTmp(p) \/ WriteHead(p) \/ WriteStream(p) \/ Publish(p) \/ StoreFails(p)
  BY <1>4 DEF OpenTmp, WriteHead, WriteStream, Publish, StoreFails
<1>5. CASE Discard(p) \/ PruneList(p) \/ PruneRead(p) \/ PruneOne(p) \/ PruneDone(p) \/ ClearOne(p)
  BY <1>5 DEF Discard, PruneList, PruneRead, PruneOne, PruneDone, ClearOne
<1> QED
  BY <1>1, <1>2, <1>3, <1>4, <1>5 DEF Act, Step

(* A process is in a prune because it has just listed, or was in it.         *)
LEMMA OnlyListsPrune ==
    ASSUME TypeOK, NEW p \in Proc, Act(p), pc'[p] = "pruning"
    PROVE  PruneList(p) \/ PruneRead(p) \/ PruneOne(p)
<1> USE DEF TypeOK
<1>1. CASE Begin(p) \/ BeginClear(p) \/ Finish(p) \/ Crash(p)
  BY <1>1 DEF Begin, BeginClear, Finish, Crash, Exit
<1>2. CASE StatForLookup(p) \/ HeaderMissing(p) \/ HeaderRefused(p) \/ MapFails(p) \/ Evict(p)
  BY <1>2 DEF StatForLookup, HeaderMissing, HeaderRefused, MapFails, Evict, Miss, Serve
<1>3. CASE HeaderAccepted(p) \/ MapEntry(p) \/ Decode(p) \/ StatForStore(p)
  BY <1>3 DEF HeaderAccepted, MapEntry, Decode, StatForStore, AfterStore, Serve
<1>4. CASE OpenTmp(p) \/ WriteHead(p) \/ WriteStream(p) \/ Publish(p) \/ StoreFails(p)
  BY <1>4 DEF OpenTmp, WriteHead, WriteStream, Publish, StoreFails
<1>5. CASE Discard(p) \/ PruneDone(p) \/ ClearOne(p)
  BY <1>5 DEF Discard, PruneDone, ClearOne, AfterStore, Serve
<1> QED
  BY <1>1, <1>2, <1>3, <1>4, <1>5 DEF Act, Step

(* A process in a prune that somebody else's step left in it.                *)
LEMMA StillPruning ==
    ASSUME TypeOK, [Next]_vars, NEW p \in Proc, pc'[p] = "pruning",
           ~PruneList(p), ~PruneRead(p), ~PruneOne(p)
    PROVE  /\ pc[p] = "pruning" /\ listed'[p] = listed[p] /\ doomed'[p] = doomed[p]
           /\ CacheFile(p)' = CacheFile(p)
<1>1. CASE UNCHANGED <<dirVars, localVars>>
  BY <1>1 DEF localVars, CacheFile
<1>2. ASSUME NEW q \in Proc, Act(q)
      PROVE  /\ pc[p] = "pruning" /\ listed'[p] = listed[p] /\ doomed'[p] = doomed[p]
             /\ CacheFile(p)' = CacheFile(p)
  <2>1. q # p
    BY <1>2, OnlyListsPrune
  <2> QED
    BY <1>2, <2>1, OthersKeep, OthersKeepLists DEF SameLocals, CacheFile
<1> QED
  BY <1>1, <1>2, WhoSteps

LEMMA PruneAimStep ==
    ASSUME TypeOK, Filed, PruneAim, [Next]_vars
    PROVE  PruneAim'
<1> SUFFICES ASSUME NEW p \in Proc, pc'[p] = "pruning", NEW k \in doomed'[p]
             PROVE  Slot(k) = Slot(CacheFile(p)')
  BY DEF PruneAim, Slot
<1>1. CASE PruneList(p)
  BY <1>1 DEF PruneList, PruneAim, TypeOK, CacheFile
<1>2. CASE PruneOne(p)
  BY <1>2 DEF PruneOne, TypeOK, PruneAim, CacheFile
<1>3. CASE PruneRead(p)
  <2>1. (k \in doomed[p] \/ k \in Stale(p)) /\ CacheFile(p)' = CacheFile(p) /\ pc[p] = "pruning"
    BY <1>3 DEF PruneRead, TypeOK, CacheFile
  <2> QED
    BY <2>1 DEF Stale, Filed, PruneAim
<1>4. CASE ~PruneList(p) /\ ~PruneRead(p) /\ ~PruneOne(p)
  BY <1>4, StillPruning DEF PruneAim
<1> QED
  BY <1>1, <1>2, <1>3, <1>4

LEMMA OwnSlotStep ==
    ASSUME TypeOK, Ownership, PruneAim, [Next]_vars,
           NEW k \in Key, entry[k] # NoInode, entry'[k] = NoInode
    PROVE  \E p \in Proc :
             \/ pc[p] = "clear"
             \/ pc[p] = "evict" /\ k = CacheFile(p)
             \/ pc[p] = "pruning" /\ Slot(k) = Slot(CacheFile(p))
<1>1. PICK p \in Proc : Evict(p) \/ Publish(p) \/ PruneOne(p) \/ ClearOne(p)
  <2>1. ASSUME NEW p \in Proc, Begin(p) \/ BeginClear(p) \/ Crash(p) PROVE FALSE
    BY <2>1 DEF Begin, BeginClear, Crash, Exit, dirVars
  <2>2. ASSUME NEW p \in Proc, Step(p)
        PROVE  Evict(p) \/ Publish(p) \/ PruneOne(p) \/ ClearOne(p)
    <3>1. CASE \/ StatForLookup(p) \/ HeaderMissing(p) \/ HeaderRefused(p)
               \/ HeaderAccepted(p) \/ MapEntry(p) \/ MapFails(p)
      BY <3>1 DEF StatForLookup, HeaderMissing, HeaderRefused, HeaderAccepted, MapEntry,
                  MapFails, dirVars
    <3>2. CASE \/ Decode(p) \/ StatForStore(p) \/ OpenTmp(p) \/ WriteHead(p)
               \/ WriteStream(p) \/ StoreFails(p) \/ Discard(p)
      BY <3>2 DEF Decode, StatForStore, OpenTmp, WriteHead, WriteStream, StoreFails,
                  Discard, dirVars
    <3>3. CASE PruneList(p) \/ PruneRead(p) \/ PruneDone(p) \/ Finish(p)
      BY <3>3 DEF PruneList, PruneRead, PruneDone, Finish, Exit, dirVars
    <3> QED
      BY <2>2, <3>1, <3>2, <3>3 DEF Step
  <2>3. ASSUME NEW c \in Capture, Recapture(c) PROVE FALSE
    BY <2>3 DEF Recapture, dirVars
  <2>4. ~UNCHANGED vars
    BY DEF vars, dirVars
  <2> QED
    BY <2>1, <2>2, <2>3, <2>4 DEF Next
<1>2. CASE Evict(p)
  BY <1>2 DEF Evict, RemoveEntry, TypeOK
<1>3. CASE Publish(p)
  BY <1>3 DEF Publish, TypeOK
<1>4. CASE PruneOne(p)
  BY <1>4 DEF PruneOne, RemoveEntry, PruneAim, TypeOK
<1>5. CASE ClearOne(p)
  BY <1>5 DEF ClearOne
<1> QED
  BY <1>1, <1>2, <1>3, <1>4, <1>5

(* In a directory that began with every file under its own name, storing     *)
(* one section never costs another section, or another capture, its entry: a  *)
(* refusal takes its own name, a prune names of its own slot, and only        *)
(* `cache clear` takes the rest (rdc_cache.py:120-127, 289-309).              *)
THEOREM RemovalsStayInTheirSlot == Filed /\ Spec => RemovesOwnSlotOnly
<1>1. Init => PruneAim
  BY DEF Init, PruneAim
<1>2. TypeOK /\ Ownership /\ Filed /\ PruneAim /\ [Next]_vars => Filed' /\ PruneAim'
  BY FiledStep, PruneAimStep
<1>3. TypeOK /\ Ownership /\ PruneAim /\ [Next]_vars
         => [\A k \in Key : entry[k] # NoInode /\ entry'[k] = NoInode =>
               \E p \in Proc :
                 \/ pc[p] = "clear"
                 \/ pc[p] = "evict" /\ k = CacheFile(p)
                 \/ /\ pc[p] = "pruning"
                    /\ Slot(k) = Slot(CacheFile(p))]_vars
  BY OwnSlotStep
<1> QED
  BY <1>1, <1>2, <1>3, InitType, TypeStep, InitOwnership, OwnershipStep, PTL
     DEF Spec, RemovesOwnSlotOnly

-----------------------------------------------------------------------------
(***************************************************************************)
(* What a prune leaves.  A store can add a name behind the listing; while   *)
(* captures keep still that is the very entry the prune spares.  (Where      *)
(* open files are locked, somebody reading a header in the moment of its     *)
(* removal keeps the stale entry there: _remove_file ignores it.)            *)
(***************************************************************************)
(* Everything readable of the slot is the entry just stored, still to be     *)
(* read or chosen for removal.                                               *)
Swept(p) ==
    pc[p] = "pruning" =>
        \A k \in Key : /\ Readable(entry[k])
                       /\ Slot(data[entry[k]].key) = Slot(CacheFile(p))
                       => k = CacheFile(p) \/ k \in listed[p] \cup doomed[p]

Tidy == \A p \in Proc : Swept(p)

(* Two commands on one slot of a capture that keeps still have one name.     *)
LEMMA OneNamePerSlot ==
    ASSUME Truthful, NEW p \in Proc, NEW q \in Proc,
           pc[p] \notin Asleep, pc[q] \notin Asleep, ident[p] = info[p], ident[q] = info[q],
           Slot(CacheFile(p)) = Slot(CacheFile(q))
    PROVE  CacheFile(p) = CacheFile(q)
<1>1. job[p].cap = job[q].cap /\ job[p].sec = job[q].sec
  BY DEF Slot, CacheFile
<1>2. info[p] = info[q]
  BY <1>1 DEF Truthful, Agrees
<1> QED
  BY <1>1, <1>2 DEF CacheFile

LEMMA SweptStep ==
    ASSUME ~MapLocks, TypeOK, Ownership, Truthful, Tidy, [Next]_vars, NEW p \in Proc
    PROVE  Swept(p)'
<1> SUFFICES ASSUME pc'[p] = "pruning", NEW k \in Key, Readable(entry[k])',
                    Slot(data'[entry'[k]].key) = Slot(CacheFile(p)')
             PROVE  k = CacheFile(p)' \/ k \in listed'[p] \cup doomed'[p]
  BY DEF Swept, Slot
<1>1. CASE PruneList(p)
  <2>1. /\ Readable(entry[k]) /\ entry' = entry /\ data' = data
        /\ CacheFile(p)' = CacheFile(p) /\ listed'[p] = {l \in Key : entry[l] # NoInode /\ l # CacheFile(p)}
    BY <1>1 DEF PruneList, TypeOK, CacheFile, Readable, dirVars
  <2> QED
    BY <2>1 DEF Readable
<1>2. CASE PruneOne(p)
  <2>1. PICK l \in doomed[p] : RemoveEntry(l) /\ doomed' = [doomed EXCEPT ![p] = @ \ {l}]
    BY <1>2 DEF PruneOne
  <2>2. /\ pc[p] = "pruning" /\ CacheFile(p)' = CacheFile(p) /\ data' = data
        /\ l \in Key /\ doomed'[p] = doomed[p] \ {l} /\ listed' = listed
    BY <1>2, <2>1 DEF PruneOne, TypeOK, CacheFile
  <2>3. /\ entry'[k] = entry[k] /\ Readable(entry[k])
        /\ k # l
    BY <2>1, <2>2 DEF RemoveEntry, Pinned, MayBeRead, TypeOK, Readable
  <2> QED
    BY <2>2, <2>3 DEF Tidy, Swept
<1>3. CASE PruneRead(p)
  <2>1. PICK l \in listed[p] : /\ listed' = [listed EXCEPT ![p] = @ \ {l}]
                               /\ doomed' = [doomed EXCEPT ![p] = @ \cup ({l} \cap Stale(p))]
    BY <1>3 DEF PruneRead
  <2>2. /\ pc[p] = "pruning" /\ CacheFile(p)' = CacheFile(p) /\ data' = data /\ entry' = entry
        /\ listed'[p] = listed[p] \ {l} /\ doomed'[p] = doomed[p] \cup ({l} \cap Stale(p))
    BY <1>3, <2>1 DEF PruneRead, TypeOK, CacheFile, dirVars
  <2>3. k = CacheFile(p) \/ k \in listed[p] \cup doomed[p]
    BY <2>2 DEF Tidy, Swept, Readable
  <2>4. k # CacheFile(p) => k \in Stale(p)
    BY <2>2 DEF Stale, Readable
  <2> QED
    BY <2>2, <2>3, <2>4
<1>4. CASE ~PruneList(p) /\ ~PruneRead(p) /\ ~PruneOne(p)
  <2>1. /\ pc[p] = "pruning" /\ listed'[p] = listed[p] /\ doomed'[p] = doomed[p]
        /\ CacheFile(p)' = CacheFile(p)
    BY <1>4, StillPruning
  <2>2. CASE \A q \in Proc : ~Publish(q)
    <3>1. entry'[k] = entry[k] /\ data'[entry[k]] = data[entry[k]] /\ Readable(entry[k])
      BY <2>2, EntriesStayOrDrop DEF Readable
    <3> QED
      BY <2>1, <3>1 DEF Tidy, Swept
  <2>3. ASSUME NEW q \in Proc, Publish(q)
        PROVE  k = CacheFile(p)' \/ k \in listed'[p] \cup doomed'[p]
    <3>1. CacheFile(q) \in Key /\ MyTmp(q) \in TmpFile
      BY <2>3, MyTmpType DEF Publish, Storing
    <3>2. /\ tmp[MyTmp(q)] # NoInode /\ pc[q] = "rename" /\ data' = data
          /\ entry' = [entry EXCEPT ![CacheFile(q)] = tmp[MyTmp(q)]]
      BY <2>3 DEF Publish, MyTmp
    <3>3. CASE k # CacheFile(q)
      BY <2>1, <3>2, <3>3 DEF Tidy, Swept, Readable
    <3>4. CASE k = CacheFile(q)
      <4>1. data'[entry'[k]].key = CacheFile(q)
        <5>1. entry'[k] = tmp[MyTmp(q)]
          BY <3>1, <3>2, <3>4 DEF TypeOK
        <5>2. data[tmp[MyTmp(q)]] = FileOf(q, "whole")
          BY <3>2 DEF Ownership, TmpIsMine
        <5> QED
          BY <3>2, <5>1, <5>2 DEF FileOf
      <4>2. ident[p] = info[p] /\ ident[q] = info[q]
        BY <2>1, <3>2, ConstantAssumption DEF Truthful, Agrees, TypeOK, Storing
      <4> QED
        BY <2>1, <3>2, <3>4, <4>1, <4>2, OneNamePerSlot DEF Asleep
    <3> QED
      BY <3>3, <3>4
  <2> QED
    BY <2>2, <2>3
<1> QED
  BY <1>1, <1>2, <1>3, <1>4

(* A store that ran to the end of its prune leaves at most its own readable   *)
(* entry for the slot, whoever else stored, mapped, cleared or died           *)
(* meanwhile, on captures that keep still under a command and where an open   *)
(* file can be removed (rdc_cache.py:289-309).                                *)
THEOREM PruneLeavesAtMostItsOwn ==
    ASSUME Calm, ~MapLocks
    PROVE  Spec => PruneLeavesOne
<1>1. Init => Tidy
  BY DEF Init, Tidy, Swept
<1>2. TypeOK /\ Ownership /\ Truthful /\ Tidy /\ [Next]_vars => Tidy'
  BY SweptStep DEF Tidy
<1>3. TypeOK /\ Ownership /\ Truthful /\ [Next]_vars => Truthful'
  BY TruthfulStep
<1>4. Tidy => [\A p \in Proc : PruneDone(p) =>
                  \A k \in Key : /\ Readable(entry[k])
                                 /\ Slot(data[entry[k]].key) = Slot(CacheFile(p))
                                 => k = CacheFile(p)]_vars
  BY DEF Tidy, Swept, PruneDone
<1> QED
  BY <1>1, <1>2, <1>3, <1>4, InitType, TypeStep, InitOwnership, OwnershipStep, InitTruthful, PTL
     DEF Spec, PruneLeavesOne
=============================================================================
