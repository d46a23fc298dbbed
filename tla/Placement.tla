----------------------------- MODULE Placement -----------------------------
(***************************************************************************)
(* The memory half of rdc_uses: what is live at once in a heap, which      *)
(* placed resources share bytes while both are live, and which of those    *)
(* pairs the frame writes while the other is still to be read.             *)
(***************************************************************************)
EXTENDS Ledger

Placed == {r \in DOMAIN created : created[r].placed}
InHeap(h) == {r \in Placed : created[r].heap = h}
HeapsUsed == {created[r].heap : r \in Placed}

\* A resource with no size is counted at one byte.
Size(r) == Max({created[r].size, 1})
ByteOverlap(a, b) ==
    Min({created[a].offset + Size(a), created[b].offset + Size(b)})
      - Max({created[a].offset, created[b].offset})

\* A resource no chunk touches counts from the start of the capture to its end.
Window(r) == IF r \in Used THEN <<FirstUse(r), LastUse(r)>> ELSE <<1, Max({Len(stream), 1})>>
Bytes(S) == FoldSet(LAMBDA r, total : total + created[r].size, 0, S)

PeakLiveEndsEarly(S) ==
    LET live(e) == {r \in S : Window(r)[1] <= e /\ (e < Window(r)[2] \/ Window(r)[1] = Window(r)[2])}
    IN  Max({0} \cup {Bytes(live(e)) : e \in 1..Max({Len(stream), 1})})

\* The sweep of _peak_live: at each event what ended leaves before what starts comes.
PeakLive(S) ==
    LET ends(e)   == Bytes({r \in S : Window(r)[2] + 1 = e})
        starts(e) == Bytes({r \in S : Window(r)[1] = e})
        sweep == FoldLeftDomain(LAMBDA acc, e :
                        LET live == acc.live - ends(e) + starts(e)
                        IN  [live |-> live, peak |-> Max({acc.peak, live})],
                    [live |-> 0, peak |-> 0], Append(stream, None))
    IN  sweep.peak

WindowsMeet(a, b) ==
    a \in Used /\ b \in Used /\ FirstUse(a) <= LastUse(b) /\ FirstUse(b) <= LastUse(a)

\* Pairs of one heap whose windows do not meet: they could share memory.
AliasCandidates ==
    {p \in kSubset(2, Placed \cap Used) :
        /\ \A a, b \in p : created[a].heap = created[b].heap
        /\ \A a, b \in p : a # b => ~WindowsMeet(a, b)}

\* The first write of `a` that falls in the window of `b` with a read of `b` at or after it, and that read.
WriteWhileRead(a, b) ==
    LET found == {<<w.eid, u.eid>> : w \in {w \in Writes(a) : w.how \in WriterHows}, u \in Reads(b)}
        live  == {f \in found : FirstUse(b) <= f[1] /\ f[1] <= LastUse(b) /\ f[1] <= f[2]}
    IN  {f \in live : \A g \in live : f[1] < g[1] \/ (f[1] = g[1] /\ f[2] <= g[2])}

Handovers(a, b) == {x.eid : x \in {x \in aliases : {x.before, x.after} = {a, b}}}

PairConflictsOneWay(a, b) ==
    {[writer |-> a, reader |-> b, write |-> f[1], read |-> f[2],
      declared |-> Max({0} \cup {h \in Handovers(a, b) : f[1] < h /\ h <= f[2]})] : f \in WriteWhileRead(a, b)}

\* A conflict in either direction, with the aliasing barrier that declares the handover, if one does.
PairConflicts(a, b) ==
    LET declared(f) == {h \in Handovers(a, b) : f[1] < h /\ h <= f[2]}
        rows(x, y) == {[writer |-> x, reader |-> y, write |-> f[1], read |-> f[2],
                        declared |-> IF declared(f) = {} THEN 0 ELSE Min(declared(f))] :
                          f \in WriteWhileRead(x, y)}
    IN  rows(a, b) \cup rows(b, a)

AliasConflicts ==
    UNION {{[a |-> a, b |-> b, conflicts |-> PairConflicts(a, b)] :
               b \in {b \in InHeap(created[a].heap) :
                         a < b /\ WindowsMeet(a, b) /\ ByteOverlap(a, b) > 0}} : a \in Placed}

(***************************************************************************)
(* What `memory` calls the peak is the largest sum of bytes live at one    *)
(* event: the sweep neither counts a resource that has ended nor misses    *)
(* two that meet at one event (rdc_uses.py:765).                           *)
(***************************************************************************)
PeakIsTheMaximum ==
    \A h \in HeapsUsed :
        PeakLive(InHeap(h)) = Max({0} \cup {Bytes({r \in InHeap(h) : Window(r)[1] <= e /\ e <= Window(r)[2]}) :
                                          e \in 1..Max({Len(stream), 1})})

(***************************************************************************)
(* No clobber is missed: where one resource was in use, another in the     *)
(* same bytes was then written, and the first read before anything wrote   *)
(* it anew, `memory` lists the pair with a conflict in that direction, and *)
(* never offers the two as candidates to share (rdc_uses.py:861).          *)
(***************************************************************************)
NoClobberMissed ==
    \A a, b \in Placed \cap Used :
        /\ a # b /\ created[a].heap = created[b].heap /\ ByteOverlap(a, b) > 0
        /\ \E w \in Writes(a), u \in Reads(b) :
              /\ w.how \in WriterHows /\ w.eid < u.eid /\ FirstUse(b) <= w.eid
              /\ \A v \in Writes(b) : v.eid \notin (w.eid + 1)..(u.eid - 1)
        => /\ \E p \in AliasConflicts : {p.a, p.b} = {a, b} /\ \E x \in p.conflicts : x.writer = a
           /\ {a, b} \notin AliasCandidates
=============================================================================
