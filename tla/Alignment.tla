----------------------------- MODULE Alignment -----------------------------
(***************************************************************************)
(* rdc_passdiff.align_passes and the _pair_by it shares with rdc_filediff: *)
(* two lists of passes lined up by full path, then by innermost name, then *)
(* by slot as a suspected rename.  A pass is [path, calls], its path the   *)
(* names from the outermost marker in: the code joins them with ' > ' and  *)
(* splits the path again, so no name here holds that separator.            *)
(***************************************************************************)
EXTENDS Integers, Sequences, FiniteSets, FiniteSetsExt, SequencesExt

CONSTANT Passes         \* the passes a frame may hold

VARIABLES left, right   \* the two frames' pass lists

alignVars == <<left, right>>

Leaf(pass) == pass.path[Len(pass.path)]
Parent(pass) == SubSeq(pass.path, 1, Len(pass.path) - 1)

(***************************************************************************)
(* One rule over what the rules before it left unpaired: `pairs` is the    *)
(* set of <<left, right>> positions.  The queue of a key hands its         *)
(* positions out in order.                                                 *)
(***************************************************************************)
PairBy(keysA, keysB, pairs) ==
    LET free == {i \in DOMAIN keysA : \A p \in pairs : p[1] # i}
    IN  FoldLeftDomain(LAMBDA done, j :
            LET queue == {i \in free : keysA[i] = keysB[j] /\ \A p \in done : p[1] # i}
            IN  IF (\E p \in done : p[2] = j) \/ queue = {} THEN done ELSE done \cup {<<Min(queue), j>>},
          pairs, keysB)

Paths(passes) == [i \in DOMAIN passes |-> passes[i].path]
Leaves(passes) == [i \in DOMAIN passes |-> Leaf(passes[i])]

PairedByLeafFirst(a, b) == PairBy(Paths(a), Paths(b), PairBy(Leaves(a), Leaves(b), {}))

Paired(a, b) == PairBy(Leaves(a), Leaves(b), PairBy(Paths(a), Paths(b), {}))

Removed(a, b) == {i \in DOMAIN a : \A p \in Paired(a, b) : p[1] # i}
Added(a, b) == {j \in DOMAIN b : \A p \in Paired(a, b) : p[2] # j}

\* The same slot, the same parent, and one there is, and the same number of calls.
Renamed(a, b) ==
    {i \in Removed(a, b) \cap Added(a, b) :
        Parent(a[i]) # <<>> /\ Parent(b[i]) = Parent(a[i]) /\ a[i].calls = b[i].calls}

\* The rows in order: every pass of the left list, then what only the right one has.
AlignPasses(a, b) ==
    LET renamed == Renamed(a, b)
        removed == Removed(a, b)
        pairs   == Paired(a, b)
        new     == Added(a, b) \ renamed
        row(i) ==
            IF i \in renamed THEN [status |-> "renamed", a |-> i, b |-> i]
            ELSE IF i \in removed THEN [status |-> "removed", a |-> i, b |-> 0]
            ELSE [status |-> "same", a |-> i, b |-> (CHOOSE p \in pairs : p[1] = i)[2]]
        added == FoldLeftDomain(LAMBDA rest, j : IF j \in new THEN Append(rest, j) ELSE rest, <<>>, b)
    IN  [i \in 1..Len(a) |-> row(i)] \o [k \in 1..Len(added) |-> [status |-> "added", a |-> 0, b |-> added[k]]]

AlignInit == left = <<>> /\ right = <<>>
AlignNext ==
    \/ \E pass \in Passes : left' = Append(left, pass) /\ UNCHANGED right
    \/ \E pass \in Passes : right' = Append(right, pass) /\ UNCHANGED left
AlignSpec == AlignInit /\ [][AlignNext]_alignVars

(***************************************************************************)
(* The comparison loses nothing and counts nothing twice: every pass of    *)
(* either frame is in exactly one row, an occurrence is never paired       *)
(* across another of its own path, no pass is called new or gone while one *)
(* of its path is left on the other side, and comparing the other way      *)
(* round gives the same full-path pairs (rdc_passdiff.py:146).             *)
(***************************************************************************)
AlignmentIsAMatching ==
    LET rows == AlignPasses(left, right)
        same == {r \in ToSet(rows) : r.status = "same"}
        full == {r \in same : left[r.a].path = right[r.b].path}
    IN  /\ \A i \in DOMAIN left : Cardinality({k \in DOMAIN rows : rows[k].a = i}) = 1
        /\ \A j \in DOMAIN right : Cardinality({k \in DOMAIN rows : rows[k].b = j}) = 1
        /\ \A r, s \in full : left[r.a].path = left[s.a].path /\ r.a < s.a => r.b < s.b
        /\ \A r, s \in ToSet(rows) : ~(/\ r.status \in {"removed", "renamed"}
                                       /\ s.status \in {"added", "renamed"}
                                       /\ Leaf(left[r.a]) = Leaf(right[s.b]))
        /\ {<<r.a, r.b>> : r \in full} =
              {<<p[2], p[1]>> : p \in PairBy(Paths(right), Paths(left), {})}
=============================================================================
