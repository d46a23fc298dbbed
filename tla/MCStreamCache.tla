--------------------------- MODULE MCStreamCache ---------------------------
(***************************************************************************)
(* Small instances of StreamCache.  Two versions of one capture with       *)
(* different stream lengths, so that a wrong body and a short body are     *)
(* both visible.                                                           *)
(***************************************************************************)
EXTENDS StreamCache, TLC

CONSTANTS p1, p2, c1, s1, s2, old, new

MCVersion == {old, new}
MCLen == [v \in Version |-> IF v = old THEN 1 ELSE 2]
MCInode == 1 .. 4
MCTwo == 1 .. 2

(* What a power cut or another tool version leaves, under its own name or    *)
(* renamed to another: a file cut short after its header, and a file whose   *)
(* header claims too little.                                                 *)
OldFile == CHOOSE k \in Key : k.ver = old
NewFile == CHOOSE k \in Key : k.ver = new
MCLeftover ==
    {[extent |-> "head", key |-> OldFile, len |-> Len[old], body |-> old],
     [extent |-> "whole", key |-> NewFile, len |-> 0, body |-> new]}

MCNone == {}

(* States are compared up to the numbers of the inodes: a name by what it    *)
(* offers, a handle by the content and the names and maps that share it.     *)
(* What a process has no further use for is left out.                        *)
At(i) == IF i = NoInode THEN Truncated ELSE data[i]

Shared(i) == IF i = NoInode THEN {}
             ELSE {k \in Key : entry[k] = i} \cup {n \in TmpFile : tmp[n] = i}
                  \cup {q \in Proc : got[q] = i}

Handle(i) == <<i = NoInode, At(i), Shared(i)>>

Scratch(p) == IF pc[p] = "done" THEN <<>> ELSE <<ident[p], heap[p]>>

Seen == <<version, pc, job, info, served, listed, doomed, doomedTmp,
          [k \in Key |-> <<entry[k] = NoInode, At(entry[k])>>],
          [n \in TmpFile |-> <<tmp[n] = NoInode, At(tmp[n])>>],
          [p \in Proc |-> <<Handle(wfd[p]), Handle(got[p]), Scratch(p)>>],
          [p \in Proc |-> IF pc[p] = "map" THEN want[p] ELSE 0]>>

(* Temporary files of killed runs, one at a time.                            *)
OneOrphan ==
    Cardinality({n \in TmpFile : tmp[n] # NoInode
                                /\ \A p \in Proc : pc[p] \in Storing => n # TmpName(CacheFile(p), p)}) <= 1

AnyProc == Permutations(Proc)
=============================================================================
