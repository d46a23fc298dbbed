------------------------------ MODULE MCSweep ------------------------------
(***************************************************************************)
(* Two files in order and at most MaxRuns runs of `sweep`, each killed     *)
(* anywhere, or not.  They hold two captures at first; the first may be    *)
(* replaced between the runs by the other's.  Each has a bundle of its     *)
(* own, or both have one: then there is one run fewer.  In an empty output *)
(* folder --overwrite changes nothing for a bundle of one file: the first  *)
(* run goes without.  Two of three lines share a transcript's name.        *)
(***************************************************************************)
EXTENDS Sweep, TLC

CONSTANTS h1, h2, c1, c2, p1, p2, d1, d2, l1, l2, l3, n1, n2, MaxRuns

VARIABLE runs

Twins == Permutations({h1, h2}) \cup Permutations({c1, c2})

MCFolders == <<p1, p2>>
MCNameOf == (l1 :> n1) @@ (l2 :> n2) @@ (l3 :> n1)
MCLists == {<<>>, <<l1, l2, l3>>}

MCInit ==
    /\ SweepInit
    /\ holds[p1] # holds[p2]
    /\ keyOf[p1] = d1
    /\ runs = IF keyOf[p2] = d1 THEN 1 ELSE 0

MCNext ==
    \/ /\ run = NoRun /\ runs < MaxRuns
       /\ \E library, over \in BOOLEAN, lines \in Lists :
            /\ runs = 0 => ~over
            /\ Start(library, over, lines)
       /\ runs' = runs + 1
    \/ run # NoRun /\ SweepNext /\ UNCHANGED runs
    \/ run = NoRun /\ runs < MaxRuns /\ Recapture(p1) /\ UNCHANGED runs

MCSpec == MCInit /\ [][MCNext]_<<allVars, runs>>
=============================================================================
