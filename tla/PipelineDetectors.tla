------------------------- MODULE PipelineDetectors -------------------------
(***************************************************************************)
(* The detectors of rdc_detect_state, over the pipeline state a document   *)
(* holds for a range of events, and of rdc_detect_stream, over the         *)
(* capture's own stream.  A document's `merger` is [there, depthEnable,    *)
(* depthWrites, stencilEnable, stencilReadOnly, faces, independent,        *)
(* blends]; its rectangles are [on, x, y, w, h]; `rts` maps a slot to the  *)
(* target bound there and `dsv` is the depth target.                       *)
(***************************************************************************)
EXTENDS Detectors

CONSTANTS UnattributedLimit,    \* UNATTRIBUTED_LIMIT
          LineRoom,             \* call -> the characters of a line its name leaves for chunk numbers
          Radix                 \* the base chunk numbers are written in

ASSUME StreamDetectorsAssumption ==
    /\ UnattributedLimit \in Nat \ {0} /\ Radix \in Nat \ {0, 1}
    /\ \A call \in {"dispatch", "indexed", "draw", "indirect"} : LineRoom[call] \in Nat

\* A document holds from its event to the one before the next document.
StateRanges(bundle) ==
    {[first |-> i, last |-> Min({j - 1 : j \in {j \in Documented_(bundle) : j > i}} \cup {Len(bundle.events)}),
      state |-> DocOf(bundle, i)] : i \in Documented_(bundle)}
GraphicsStateRanges(bundle) == {g \in StateRanges(bundle) : bundle.events[g.first].kind # "compute"}
MergedRanges(bundle) == {g \in GraphicsStateRanges(bundle) : g.state.merger.there}
Firsts(ranges) == {g.first : g \in ranges}

DetectDepthLogic(bundle) ==
    LET writes == {g \in MergedRanges(bundle) : g.state.merger.depthWrites /\ ~g.state.merger.depthEnable}
        unbound == {g \in MergedRanges(bundle) : g.state.merger.depthEnable /\ g.state.dsv = None}
    IN  OneFlag("depth-logic", "writes on with test off", Firsts(writes), "eid", "certain")
          \cup OneFlag("depth-logic", "no depth target", Firsts(unbound), "eid", "certain")

DetectEmptyScissor(bundle) ==
    LET empty(rects) == \E k \in DOMAIN rects : rects[k].on /\ (rects[k].w <= 0 \/ rects[k].h <= 0)
    IN  OneFlag("empty-scissor", "no extent",
                Firsts({g \in GraphicsStateRanges(bundle) : empty(g.state.viewports) \/ empty(g.state.scissors)}),
                "eid", "certain")

\* A face that masks every bit, or keeps what is there whatever happens, writes nothing.
StencilWrites(state) ==
    /\ state.merger.there /\ state.merger.stencilEnable /\ ~state.merger.stencilReadOnly
    /\ \E face \in state.merger.faces : face.mask # 0 /\ face.ops # {"Keep"}

DetectStencilWithoutWriter(bundle) ==
    LET ranges == GraphicsStateRanges(bundle)
        wrote(g) == \E h \in ranges : h.first <= g.first /\ h.state.dsv = g.state.dsv /\ StencilWrites(h.state)
        tested(g) == g.state.merger.there /\ g.state.merger.stencilEnable /\ g.state.dsv # None
    IN  OneFlag("stencil-without-writer", "nothing earlier wrote", Firsts({g \in ranges : tested(g) /\ ~wrote(g)}),
                "eid", "question")

\* Blending is per target only when the state says so; otherwise the first entry speaks for every slot.
DetectBlendInOpaquePass(bundle) ==
    LET blends(g, slot) ==
            LET entry == IF g.state.merger.independent THEN slot + 1 ELSE 1
            IN  entry \in DOMAIN g.state.merger.blends /\ g.state.merger.blends[entry]
        opaque(r) == r \in DOMAIN Inventory /\ Inventory[r].opaque
    IN  OneFlag("blend-in-opaque-pass", "name says opaque",
                Firsts({g \in MergedRanges(bundle) : \E slot \in DOMAIN g.state.rts : blends(g, slot) /\ opaque(g.state.rts[slot])}),
                "eid", "heuristic")

\* `bits` is the widest channel of a normalised format of at most eight bits, 0 for any other.
DetectFormatUnitsSuspicion(bundle) ==
    LET outputs(g) == IF "ps" \in DOMAIN g.state.shaders THEN Range(g.state.shaders["ps"].outputs) ELSE {}
        narrow(r) == r \in DOMAIN Inventory /\ Inventory[r].kind = "texture" /\ Inventory[r].bits # 0
    IN  OneFlag("format-units-suspicion", "float into narrow",
                Firsts({g \in GraphicsStateRanges(bundle) :
                          \E o \in outputs(g) : /\ o.name = "SV_TARGET" /\ o.index \in DOMAIN g.state.rts
                                                /\ o.type = "float" /\ narrow(g.state.rts[o.index])}),
                "eid", "heuristic")

(***************************************************************************)
(* Geometry off screen.  The driver folds a draw's vertices [x, y, z, w,   *)
(* finite] into counts and boxes: one that is not finite is counted and    *)
(* not folded, one behind the eye has no place on the screen.  Places on   *)
(* the screen are in halves of the distance from its middle to its edge.   *)
(***************************************************************************)
NoMesh == [there |-> FALSE]
Box(S, axes) == [axis \in axes |-> [min |-> Min({v[axis] : v \in S}), max |-> Max({v[axis] : v \in S})]]

BoundsOf(mesh) ==
    LET vertex == mesh.vertices
        finite == {k \in DOMAIN vertex : vertex[k].finite}
        seen == {k \in finite : vertex[k].w > 0}
        ndc(v) == [x |-> (2 * v.x) \div v.w, y |-> (2 * v.y) \div v.w, z |-> (2 * v.z) \div v.w]
    IN  [vertices |-> Len(vertex), finite |-> Cardinality(finite), projected |-> Cardinality(seen),
         clip |-> IF finite = {} THEN Empty ELSE Box({vertex[k] : k \in finite}, {"x", "y", "z", "w"}),
         ndc |-> IF seen = {} THEN Empty ELSE Box({ndc(vertex[k]) : k \in seen}, {"x", "y", "z"})]

\* Sound on the box alone: the corner nearest the plane is already beyond it.
OutsidePlane(clip) ==
    \/ clip["x"].max + clip["w"].max < 0 \/ clip["x"].min - clip["w"].max > 0
    \/ clip["y"].max + clip["w"].max < 0 \/ clip["y"].min - clip["w"].max > 0
    \/ clip["z"].max < 0 \/ clip["z"].min - clip["w"].max > 0

\* The largest of the colour targets, else the depth target; no size, no rectangle.
TargetRect(bundle, i) ==
    LET event == bundle.events[i]
        sized(S) == [x |-> 0, y |-> 0, w |-> Max({0} \cup {Inventory[r].width : r \in S}), h |-> Max({0} \cup {Inventory[r].height : r \in S})]
        colour == sized(Range(event.targets) \cap DOMAIN Inventory)
    IN  IF colour.w > 0 /\ colour.h > 0 THEN colour
        ELSE sized({r \in DOMAIN Inventory \cap {event.depth} : Inventory[r].kind = "texture"})

\* The first enabled rectangle with an extent, of the document last written at or before the event.
RectsInForce(bundle, i, key) ==
    LET before == {j \in Documented_(bundle) : j <= i}
        rects == IF before = {} THEN <<>> ELSE DocOf(bundle, Max(before))[key]
        usable == {k \in DOMAIN rects : rects[k].on /\ rects[k].w > 0 /\ rects[k].h > 0}
        rect == rects[Min(usable)]
    IN  IF usable = {} THEN <<>> ELSE <<[x |-> rect.x, y |-> rect.y, w |-> rect.w, h |-> rect.h]>>

\* In quarter pixels, from places in halves: y grows downwards on the screen and upwards in clip space.
PixelBox(ndc, rect) ==
    [left |-> 4 * rect.x + (ndc["x"].min + 2) * rect.w, right |-> 4 * rect.x + (ndc["x"].max + 2) * rect.w,
     top |-> 4 * rect.y + (2 - ndc["y"].max) * rect.h, bottom |-> 4 * rect.y + (2 - ndc["y"].min) * rect.h]

OutsideRect(box, rect) ==
    \/ box.right <= 4 * rect.x \/ box.left >= 4 * (rect.x + rect.w)
    \/ box.bottom <= 4 * rect.y \/ box.top >= 4 * (rect.y + rect.h)

\* How much of a draw's mesh can be on the screen; a vertex the box does not cover ends the question.
Offscreen(bundle, i) ==
    LET bounds == BoundsOf(bundle.events[i].mesh)
        target == TargetRect(bundle, i)
        viewport == RectsInForce(bundle, i, "viewports")
        box == PixelBox(bounds.ndc, IF viewport = <<>> THEN target ELSE viewport[1])
        clips == viewport \o RectsInForce(bundle, i, "scissors")
    IN  CASE bounds.vertices = 0 \/ bounds.finite # bounds.vertices -> "on"
          [] bounds.vertices # 0 /\ bounds.finite = bounds.vertices /\ bounds.projected = 0 -> "behind"
          [] bounds.vertices # 0 /\ bounds.finite = bounds.vertices /\ bounds.projected # 0 /\ OutsidePlane(bounds.clip) -> "plane"
          [] OTHER -> IF bounds.projected # bounds.finite \/ target.w = 0 \/ target.h = 0 THEN "on"
                      ELSE IF OutsideRect(box, target) THEN "target"
                      ELSE IF \E k \in DOMAIN clips : OutsideRect(box, clips[k]) THEN "clipped" ELSE "on"

OffscreenFlags(verdicts) ==
    LET of(how, certainty) ==
            OneFlag("geometry-offscreen", how, {i \in DOMAIN verdicts : verdicts[i] = how}, "eid", certainty)
    IN  of("behind", "certain") \cup of("plane", "certain") \cup of("target", "certain") \cup of("clipped", "question")

DetectGeometryOffscreen(bundle) ==
    OffscreenFlags([i \in {i \in DOMAIN bundle.events : bundle.events[i].kind # "compute" /\ bundle.events[i].mesh.there} |->
                        Offscreen(bundle, i)])

(***************************************************************************)
(* The capture's stream.                                                   *)
(***************************************************************************)
\* The markers open after each chunk, and the closes with nothing open.
MarkerDepths ==
    FoldLeft(LAMBDA acc, i :
                CASE stream[i].op = "push" -> [acc EXCEPT !.open = Append(@, i)]
                  [] stream[i].op = "pop" /\ acc.open # <<>> -> [acc EXCEPT !.open = SubSeq(@, 1, Len(@) - 1)]
                  [] stream[i].op = "pop" /\ acc.open = <<>> -> [acc EXCEPT !.extra = @ \cup {i}]
                  [] stream[i].op = "draw" /\ acc.open = <<>> -> [acc EXCEPT !.bare = @ \cup {i}]
                  [] OTHER -> acc,
             [open |-> <<>>, extra |-> {}, bare |-> {}], [i \in DOMAIN stream |-> i])

\* A finding that says how many there are and lists the first of them.
FirstOf(lines) == SubSeq(lines, 1, Min({UnattributedLimit, Len(lines)}))
Counting_(detector, what, count, lines, certainty) ==
    IF count = 0 THEN {} ELSE {Flag(detector, what, count, lines, certainty)}

\* One line for all the chunks it lists.
DetectMarkerBalance ==
    LET oneLine(chunks) == <<{<<"chunk", i>> : i \in Range(FirstOf(chunks))}>>
        extra == InOrder(MarkerDepths.extra)
        open == MarkerDepths.open
    IN  Counting_("marker-imbalance", "nothing pushed", Len(extra), oneLine(extra), "certain")
          \cup Counting_("marker-imbalance", "never popped", Len(open), oneLine(open), "certain")

\* A number's digits, and what is left of it when the last `cut` of them are not written.
Digits(x) == 1 + Cardinality({d \in 1..x : Radix^d <= x})
Leading(x, cut) == x \div Radix^cut

\* Where x ends in a line of numbers: each takes its digits, a comma and a space.
NumberEnd(S, x) == Cardinality(UNION {{y} \X (1..(Digits(y) + 2)) : y \in {y \in S : y <= x}}) - 2

\* A line has the numbers it has room for, and of one it ends within the digits before its end.
CutLine(call, S) ==
    LET room == LineRoom[call]
        whole == {x \in S : NumberEnd(S, x) <= room}
        within == {x \in S : NumberEnd(S, x) > room /\ NumberEnd(S, x) - Digits(x) < room}
    IN  {<<"call", call>>} \cup {<<"chunk", x>> : x \in whole} \cup {<<"chunk", Leading(x, NumberEnd(S, x) - room)>> : x \in within}

\* A line for each call that has any, in the order of the calls' names.
CallsByName == <<"dispatch", "indexed", "draw", "indirect">>
DetectUnattributedDraws ==
    LET bare == MarkerDepths.bare
        of(k) == {i \in bare : stream[i].call = CallsByName[k]}
        named == InOrder({k \in DOMAIN CallsByName : of(k) # {}})
    IN  Counting_("unattributed-draws", "outside any marker", Cardinality(bare),
                  [k \in DOMAIN named |-> CutLine(CallsByName[named[k]], of(named[k]))], "certain")

\* A direct call whose own arguments hold a zero; an indirect one's are not in the stream.
DetectZeroWork ==
    {Flag("zero-work", "draws nothing", i, <<{<<"chunk", i>>}>>, "certain") :
        i \in {i \in DOMAIN stream : stream[i].op = "draw" /\ "counts" \in DOMAIN stream[i] /\ 0 \in Range(stream[i].counts)}}

DetectSrgbViewMismatch ==
    LET found == {r \in DOMAIN Inventory : /\ Inventory[r].kind = "texture" /\ Inventory[r].form = "linear" /\ Inventory[r].viewed = "srgb"
                                       /\ \E s \in DOMAIN heaps : heaps[s].kind # "sampler" /\ heaps[s].res = r}
    IN  Counting_("srgb-view-mismatch", "through its sRGB form", Cardinality(found), FirstOf(LinesOf("res", found)), "question")

\* A pair is reported when one of its conflicts has no barrier that declares the handover; the widest overlap first.
DetectAliasedWrites ==
    LET open == {p \in AliasConflicts : \E x \in p.conflicts : x.declared = 0}
        before(p, q) == \/ ByteOverlap(p.a, p.b) > ByteOverlap(q.a, q.b)
                        \/ ByteOverlap(p.a, p.b) = ByteOverlap(q.a, q.b) /\ (p.a < q.a \/ (p.a = q.a /\ p.b < q.b))
        pairs == Ranked(open, {q \in open \X open : before(q[1], q[2])})
    IN  Counting_("aliased-write", "one is written", Cardinality(open),
                  FirstOf([k \in DOMAIN pairs |-> {<<"res", pairs[k].a>>, <<"res", pairs[k].b>>}]), "question")
=============================================================================
