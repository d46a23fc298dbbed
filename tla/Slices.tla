------------------------------- MODULE Slices -------------------------------
(***************************************************************************)
(* rdc_scan: a stream scanned in slices by workers must give the answer of *)
(* one serial pass.  String runs are cut only where no run can cross; byte *)
(* patterns are cut evenly and searched past both ends of a slice; a pool  *)
(* that fails after some slices came back starts over in this process.     *)
(* Offsets count from 0, as in the code.                                   *)
(***************************************************************************)
EXTENDS Integers, Sequences, FiniteSets, FiniteSetsExt, SequencesExt

CONSTANTS Printable,    \* the bytes a string run is made of
          Other,        \* a byte that ends one
          CutSearch,    \* CUT_SEARCH: how far a cut may be pushed
          Workers,      \* worker counts tried
          MinLens,      \* minimum run lengths tried
          Needles       \* byte patterns tried

\* An empty pattern is answered before anything is searched (rdc_scan.py:291).
ASSUME SlicesAssumption ==
    /\ CutSearch \in Nat /\ Workers \subseteq Nat \ {0}
    /\ Needles \subseteq Seq(Printable \cup {Other}) \ {<<>>}

VARIABLE bytes

Total == Len(bytes)
At(pos) == bytes[pos + 1]

(***************************************************************************)
(* Cuts: <<start, end>> pairs, the end not included.                       *)
(***************************************************************************)
SafeCut(pos) ==
    LET safe == {at \in pos..(Min({Total, pos + CutSearch}) - 1) : At(at) \notin Printable}
    IN  IF safe = {} THEN Total ELSE Min(safe)

\* No cut within reach, or none left to make: the rest is one slice.
SplitRanges(want) ==
    LET step == Max({1, Total \div want})
        cut(start) == IF start + step >= Total THEN Total ELSE SafeCut(start + step)
        ends[k \in 0..want] == IF k = 0 THEN 0
                               ELSE IF k = want \/ ends[k - 1] = Total THEN Total ELSE cut(ends[k - 1])
        slices == Min({k \in 1..want : ends[k] = Total})
    IN  IF want < 2 \/ Total = 0 THEN <<<<0, Total>>>>
        ELSE [k \in 1..slices |-> <<ends[k - 1], ends[k]>>]

FindCuts(workers) == [i \in 1..workers |-> <<(Total * (i - 1)) \div workers, (Total * i) \div workers>>]

(***************************************************************************)
(* One slice.  A run is a maximal stretch of printable bytes inside it.    *)
(***************************************************************************)
RunsIn(range, minlen) ==
    {r \in (range[1]..range[2]) \X (range[1]..range[2]) :
        /\ r[1] < r[2] /\ r[2] - r[1] >= minlen
        /\ \A at \in r[1]..(r[2] - 1) : At(at) \in Printable
        /\ r[1] = range[1] \/ At(r[1] - 1) \notin Printable
        /\ r[2] = range[2] \/ At(r[2]) \notin Printable}

Text(run) == SubSeq(bytes, run[1] + 1, run[2])

\* Times seen and first offset, per text.
ScanRange(range, minlen) ==
    LET runs == RunsIn(range, minlen)
    IN  [t \in {Text(r) : r \in runs} |->
            [count |-> Cardinality({r \in runs : Text(r) = t}),
             first |-> Min({r[1] : r \in {r \in runs : Text(r) = t}})]]

Merge(into, part) ==
    [t \in DOMAIN into \cup DOMAIN part |->
        IF t \notin DOMAIN part THEN into[t]
        ELSE IF t \notin DOMAIN into THEN part[t]
        ELSE [count |-> into[t].count + part[t].count, first |-> Min({into[t].first, part[t].first})]]

ScanSlices(ranges, minlen, into) == FoldLeft(LAMBDA seen, r : Merge(seen, ScanRange(r, minlen)), into, ranges)

\* The pool hands slices back in order; after `back` of them it may fail, and what they gave is dropped.
ScanRuns(workers, minlen, back) ==
    LET ranges == SplitRanges(workers)
        dropped == ScanSlices(SubSeq(ranges, 1, back), minlen, <<>>)
    IN  IF back = Len(ranges) THEN dropped ELSE ScanSlices(ranges, minlen, <<>>)

(***************************************************************************)
(* Every offset of a pattern whose first byte is in the slice: the search  *)
(* runs past the slice, and starts before it, by the pattern's length less *)
(* one.  The mapped file is a header and then exactly the stream, so where *)
(* it ends is the stream's Total.                                          *)
(***************************************************************************)
Hits(needle, from, limit) ==
    {at \in from..(limit - Len(needle)) : SubSeq(bytes, at + 1, at + Len(needle)) = needle}

FindRangeNoLookPast(range, needle) ==
    {at \in Hits(needle, Max({0, range[1] - (Len(needle) - 1)}), range[2]) : range[1] <= at /\ at < range[2]}

FindRange(range, needle) ==
    LET limit == Min({Total, range[2] + Len(needle) - 1})
        from  == Max({0, range[1] - (Len(needle) - 1)})
    IN  {at \in Hits(needle, from, limit) : range[1] <= at /\ at < range[2]}

\* The offsets of a set from one end to before the other, in ascending order.
Ascending(set, from, to) ==
    FoldLeft(LAMBDA seen, at : IF at \in set THEN Append(seen, at) ELSE seen, <<>>,
             [i \in 1..(to - from) |-> from + i - 1])

\* The parts are strung together in slice order.
FindAll(workers, needle) ==
    FoldLeft(LAMBDA hits, r : hits \o Ascending(FindRange(r, needle), r[1], r[2]), <<>>, FindCuts(workers))

SlicesInit == bytes = <<>>
SlicesNext == \E b \in Printable \cup {Other} : bytes' = Append(bytes, b)
SlicesSpec == SlicesInit /\ [][SlicesNext]_bytes

(***************************************************************************)
(* However many workers share a scan and wherever their pool fails, each   *)
(* text is counted as often and first seen where one pass over the whole   *)
(* stream sees it, and each pattern is found at every offset once, in      *)
(* ascending order (rdc_scan.py:83, 210).                                  *)
(***************************************************************************)
SlicesEqualOnePass ==
    /\ \A n \in Workers, minlen \in MinLens :
          \A back \in 0..Len(SplitRanges(n)) : ScanRuns(n, minlen, back) = ScanRange(<<0, Total>>, minlen)
    /\ \A n \in Workers, needle \in Needles :
          FindAll(n, needle) = Ascending(Hits(needle, 0, Total), 0, Total)
=============================================================================
