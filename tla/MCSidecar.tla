----------------------------- MODULE MCSidecar -----------------------------
(***************************************************************************)
(* Small instances of Sidecar: documents of one block and of two, so that  *)
(* a shorter and a longer writer can meet in one file.                     *)
(***************************************************************************)
EXTENDS Sidecar, TLC

CONSTANTS p1, p2, s1, k1

MCSize == [n \in Stored |-> IF n = 1 THEN 1 ELSE 2]
MCInode == 1 .. 2

(* stream_source names the stream's own entry, or none at all.               *)
OwnEntry == [s \in Stream |-> {k1, NoSource}]

TellsApart == [s \in Stream |-> s]

(* Wherever a block of one document ends, the next of another may go on.     *)
AnySeam == Text \X Text \X Block

AnyProc == Permutations(Proc)

(* States are compared up to the numbers of the inodes.                      *)
At(i) == IF i = NoInode THEN Empty ELSE data[i]
Seen == <<pc, job, at, copy, answer,
          [k \in Identity |-> <<entry[k] = NoInode, At(entry[k]), tmp[k] = NoInode, At(tmp[k])>>],
          [p \in Proc |-> <<fd[p] = NoInode, At(fd[p]), {q \in Proc : fd[q] = fd[p]},
                            {k \in Identity : fd[p] = entry[k]},
                            {k \in Identity : fd[p] = tmp[k]}>>]>>
=============================================================================
