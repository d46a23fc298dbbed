----------------------------- MODULE PassPairs ------------------------------
(***************************************************************************)
(* replaydiff (rdc_ab): the passes of two bundles lined up, strongest      *)
(* evidence first, and what each pair differs in.  Every verdict says what *)
(* it rests on: an image nobody decoded is not an image that did not       *)
(* change, a cost against nothing is not a smaller cost.                   *)
(***************************************************************************)
EXTENDS BundlePasses

CONSTANTS Events,       \* the events a bundle may hold
          NamesA, NamesB,   \* what each capture called its resources
          CostA, CostB,     \* the counter each bundle costs by
          ImageDetail   \* how many differing pairs of images are decoded

ASSUME PairAssumption ==
    /\ ImageDetail \in Nat
    /\ \A e \in Events : DOMAIN e.images \in SUBSET Nat /\ IsFiniteSet(DOMAIN e.images)
    /\ \A e \in Events : IsFiniteSet(DOMAIN e.counters)

VARIABLES bundleA, bundleB

pairVars == <<bundleA, bundleB>>

LoadSide(bundle) == [bundle |-> bundle, passes |-> ReconstructPasses(bundle)]

\* The path of the first event of a pass that sits in a marker at all.
PassMarkers(side) ==
    [p \in DOMAIN side.passes |->
        LET marked == {i \in side.passes[p].first..side.passes[p].last : side.bundle.events[i].marker # NoMarker_}
        IN  IF marked = {} THEN NoMarker_ ELSE side.bundle.events[Min(marked)].marker]

LeafKey(path) == IF path = NoMarker_ THEN <<>> ELSE <<path[Len(path)]>>

\* The kind and the names of the targets; a dispatch sets none, an unnamed target gives none.
TargetKey(side, entry) ==
    LET names == {side.bundle.names[r] : r \in Range(entry.targets) \cap DOMAIN side.bundle.names}
    IN  IF entry.kind = "compute" \/ names = {} THEN <<>> ELSE <<entry.kind, names>>

(***************************************************************************)
(* One rule over what the rules before it left: equal keys pair in order   *)
(* of occurrence, the empty key with nothing.                              *)
(***************************************************************************)
Match(keysA, keysB, rule, pairs) ==
    FoldLeftDomain(LAMBDA done, j :
            LET queue == {i \in DOMAIN keysA : keysA[i] = keysB[j] /\ keysA[i] # <<>> /\ \A p \in done : p.a # i}
            IN  IF queue = {} \/ \E p \in done : p.b = j THEN done ELSE done \cup {[a |-> Min(queue), b |-> j, how |-> rule]},
        pairs, keysB)

OrderKeysOfAny(side) == [p \in DOMAIN side.passes |-> <<side.passes[p].kind>>]

\* Call order is for the passes that sit in no marker, of one kind.
OrderKeys(side) ==
    [p \in DOMAIN side.passes |-> IF PassMarkers(side)[p] = NoMarker_ THEN <<side.passes[p].kind>> ELSE <<>>]

Aligned(a, b) ==
    LET leaves(side)  == [p \in DOMAIN side.passes |-> LeafKey(PassMarkers(side)[p])]
        targets(side) == [p \in DOMAIN side.passes |-> TargetKey(side, side.passes[p])]
        byPath   == Match(PassMarkers(a), PassMarkers(b), "path", {})
        byLeaf   == Match(leaves(a), leaves(b), "leaf", byPath)
        byTarget == Match(targets(a), targets(b), "targets", byLeaf)
    IN  Match(OrderKeys(a), OrderKeys(b), "order", byTarget)

\* The rows in the order the document holds them: 0 is the side that has no such pass.
Align_(a, b) ==
    LET pairs == Aligned(a, b)
        row(i) == IF \E p \in pairs : p.a = i THEN CHOOSE p \in pairs : p.a = i ELSE [a |-> i, b |-> 0, how |-> "removed"]
        new == {j \in DOMAIN b.passes : \A p \in pairs : p.b # j}
        added == FoldLeftDomain(LAMBDA rest, j : IF j \in new THEN Append(rest, j) ELSE rest, <<>>, b.passes)
    IN  [i \in DOMAIN a.passes |-> row(i)] \o [k \in DOMAIN added |-> [a |-> 0, b |-> added[k], how |-> "added"]]

(***************************************************************************)
(* What a pair differs in: its shape, with targets read by name where the  *)
(* capture has one, and the documents of its first event.                  *)
(***************************************************************************)
Annotated(side, r) == <<r, IF r \in DOMAIN side.bundle.names THEN side.bundle.names[r] ELSE "">>

StructureChanges(a, b, one, two) ==
    {field \in {"kind", "structure", "events", "graphics", "compute"} : one[field] # two[field]}
      \cup (IF Annotated(a, one.depth) # Annotated(b, two.depth) THEN {"depth"} ELSE {})
      \cup (IF [t \in DOMAIN one.targets |-> Annotated(a, one.targets[t])]
               # [t \in DOMAIN two.targets |-> Annotated(b, two.targets[t])] THEN {"targets"} ELSE {})

Doc(side, entry) == side.bundle.events[entry.first].doc

StateRows(side, entry) == IF Doc(side, entry).there THEN Doc(side, entry).rows ELSE {}

DepthChange(a, b, one, two) ==
    /\ Doc(a, one).there /\ Doc(b, two).there
    /\ Annotated(a, one.depth) # Annotated(b, two.depth)

StateChanges(a, b, one, two) ==
    [removed |-> StateRows(a, one) \ StateRows(b, two), added |-> StateRows(b, two) \ StateRows(a, one),
     depth |-> DepthChange(a, b, one, two)]

\* A block is [stage, slot] -> its members; one only one side binds is a row without values on the other.
ConstantBlocks(side, entry) == IF Doc(side, entry).there THEN Doc(side, entry).blocks ELSE <<>>

CompareCbuffers(a, b, one, two) ==
    LET left == ConstantBlocks(a, one) right == ConstantBlocks(b, two)
        members(blocks, key) == IF key \in DOMAIN blocks THEN blocks[key] ELSE <<>>
        value(rows, m) == IF m \in DOMAIN rows THEN rows[m] ELSE ""
    IN  [key \in DOMAIN left \cup DOMAIN right |->
            [only |-> IF key \notin DOMAIN right THEN "A" ELSE IF key \notin DOMAIN left THEN "B" ELSE "",
             values |-> {m \in DOMAIN members(left, key) \cup DOMAIN members(right, key) :
                            value(members(left, key), m) # value(members(right, key), m)}]]

\* Two stages are the same shader by their hash; without one on both sides nothing is claimed.
Stages(side, entry) == IF Doc(side, entry).there THEN Doc(side, entry).shaders ELSE <<>>

CompareShaders(a, b, one, two) ==
    LET left == Stages(a, one) right == Stages(b, two)
        hash(stages, s) == stages[s].hash
    IN  [s \in DOMAIN left \cup DOMAIN right |->
            IF s \notin DOMAIN right THEN "only in A" ELSE IF s \notin DOMAIN left THEN "only in B"
            ELSE IF "" \in {hash(left, s), hash(right, s)} THEN "no hash"
            ELSE IF hash(left, s) = hash(right, s) THEN "same" ELSE "different"]

CompareCounters(a, b, one, two) ==
    LET x == PassCost(a.bundle, one.first, one.last)
        y == PassCost(b.bundle, two.first, two.last)
    IN  IF x.rows = 0 \/ y.rows = 0 THEN "not compared"
        ELSE IF x.cost = y.cost THEN "same" ELSE IF y.cost < x.cost THEN "cheaper" ELSE "dearer"

(***************************************************************************)
(* The pictures: the last readback of each slot inside the pass.  Equal    *)
(* bytes cost nothing; a pair that differs is decoded while the budget     *)
(* lasts, and spends it whatever the decoding says.                        *)
(***************************************************************************)
LastReadbacks(side, entry) ==
    LET ids(slot) == {i \in entry.first..entry.last : slot \in DOMAIN side.bundle.events[i].images}
        slots == UNION {DOMAIN side.bundle.events[i].images : i \in entry.first..entry.last}
    IN  [slot \in slots |-> [eid |-> Max(ids(slot)), image |-> side.bundle.events[Max(ids(slot))].images[slot]]]

ComparePixels(x, y) ==
    IF ~x.whole \/ ~y.whole THEN "unreadable" ELSE IF x.size # y.size THEN "sizes differ" ELSE "different"

ImageRow(left, right, slot, open) ==
    LET row(verdict, decoded) == [slot |-> slot, verdict |-> verdict, decoded |-> decoded]
    IN  IF slot \notin DOMAIN right THEN row("only in A", FALSE)
        ELSE IF slot \notin DOMAIN left THEN row("only in B", FALSE)
        ELSE IF left[slot].image = right[slot].image THEN row("identical", FALSE)
        ELSE IF open THEN row(ComparePixels(left[slot].image, right[slot].image), TRUE)
        ELSE row("different", FALSE)

ImageStep(left, right, acc, slot) ==
    LET row == ImageRow(left, right, slot, acc.left > 0)
    IN  [rows |-> acc.rows \cup {row}, left |-> IF row.decoded THEN acc.left - 1 ELSE acc.left]

\* Slot by slot, the largest last.
CompareImages(a, b, one, two, budget) ==
    LET left == LastReadbacks(a, one) right == LastReadbacks(b, two)
    IN  MapThenFoldSet(LAMBDA slot, acc : ImageStep(left, right, acc, slot), [rows |-> {}, left |-> budget],
                       LAMBDA slot : slot, LAMBDA slots : Max(slots), DOMAIN left \cup DOMAIN right)

\* One row of the document, and the budget it leaves.
Compared(a, b, row, withImages, budget) ==
    LET one == a.passes[row.a] two == b.passes[row.b]
        images == CompareImages(a, b, one, two, budget)
    IN  IF 0 \in {row.a, row.b}
        THEN [row |-> [a |-> row.a, b |-> row.b, how |-> row.how, images |-> {}, counters |-> "not compared"], left |-> budget]
        ELSE [row |-> [a |-> row.a, b |-> row.b, how |-> row.how,
                       changes |-> StructureChanges(a, b, one, two), state |-> StateChanges(a, b, one, two),
                       shaders |-> CompareShaders(a, b, one, two), blocks |-> CompareCbuffers(a, b, one, two),
                       counters |-> CompareCounters(a, b, one, two),
                       images |-> IF withImages THEN images.rows ELSE {}],
              left |-> IF withImages THEN images.left ELSE budget]

NextRow(a, b, withImages, acc, row) ==
    LET next == Compared(a, b, row, withImages, acc.left)
    IN  [rows |-> Append(acc.rows, next.row), left |-> next.left]

BuildDocument(a, b, withImages, detail) ==
    FoldLeft(LAMBDA acc, row : NextRow(a, b, withImages, acc, row), [rows |-> <<>>, left |-> detail], Align_(a, b))

\* replaydiff: 2 a bad option, 1 a bundle not read or a document not written, 0 compared whatever differs.
CmdReplayDiff(options, readable, writable) == IF ~options THEN 2 ELSE IF readable /\ writable THEN 0 ELSE 1

PairInit == /\ bundleA = [events |-> <<>>, names |-> NamesA, counter |-> CostA]
            /\ bundleB = [events |-> <<>>, names |-> NamesB, counter |-> CostB]
PairNext ==
    \/ \E e \in Events : bundleA' = [bundleA EXCEPT !.events = Append(@, e)] /\ UNCHANGED bundleB
    \/ \E e \in Events : bundleB' = [bundleB EXCEPT !.events = Append(@, e)] /\ UNCHANGED bundleA

PairSpec == PairInit /\ [][PairNext]_pairVars

(***************************************************************************)
(* What a comparison of one bundle with another rests on: the events of a  *)
(* pass, read without the passes' own summaries.                           *)
(***************************************************************************)
EventsIn(side, p) == side.passes[p].first..side.passes[p].last
IsMarked(side, p) == \E i \in EventsIn(side, p) : side.bundle.events[i].marker # NoMarker_
IsMeasured(side, p) ==
    \E i \in EventsIn(side, p) : \E c \in DOMAIN side.bundle.events[i].counters : side.bundle.counter \in {NoCounter, c}

\* The picture of a slot a pass ends with: of one event or of none.
Pictured(side, p, slot) ==
    LET wrote == {i \in EventsIn(side, p) : slot \in DOMAIN side.bundle.events[i].images}
    IN  {side.bundle.events[i].images[slot] : i \in {i \in wrote : \A j \in wrote : j <= i}}

InBoth(rows) == {k \in DOMAIN rows : rows[k].a # 0 /\ rows[k].b # 0}
DecodedIn(row) == {image.slot : image \in {image \in row.images : image.decoded}}
Decoded(rows) == UNION {{k} \X DecodedIn(rows[k]) : k \in InBoth(rows)}

Evidenced(a, b, document) ==
    LET rows == document.rows
    IN  /\ \A i \in DOMAIN a.bundle.events : Cardinality({k \in DOMAIN rows : rows[k].a # 0 /\ i \in EventsIn(a, rows[k].a)}) = 1
        /\ \A j \in DOMAIN b.bundle.events : Cardinality({k \in DOMAIN rows : rows[k].b # 0 /\ j \in EventsIn(b, rows[k].b)}) = 1
        /\ \A k \in InBoth(rows) : rows[k].how = "order" => ~IsMarked(a, rows[k].a) /\ ~IsMarked(b, rows[k].b)
        /\ \A k \in InBoth(rows) : \A image \in rows[k].images :
              /\ Pictured(a, rows[k].a, image.slot) # Pictured(b, rows[k].b, image.slot) <=> image.verdict # "identical"
              /\ image.verdict = "different" /\ ~image.decoded => Cardinality(Decoded(rows)) = ImageDetail
        /\ Cardinality(Decoded(rows)) = ImageDetail - document.left
        /\ \A k \in InBoth(rows) : rows[k].counters # "not compared" <=> IsMeasured(a, rows[k].a) /\ IsMeasured(b, rows[k].b)

\* The rows of a bundle compared with itself.
SameThroughout(rows) ==
    \A k \in DOMAIN rows : /\ rows[k].a = rows[k].b /\ rows[k].changes = {}
                           /\ rows[k].state = [removed |-> {}, added |-> {}, depth |-> FALSE]
                           /\ \A image \in rows[k].images : image.verdict = "identical"
                           /\ \A s \in DOMAIN rows[k].shaders : rows[k].shaders[s] \in {"same", "no hash"}
                           /\ \A block \in Range(rows[k].blocks) : block.values = {} /\ block.only = ""
                           /\ rows[k].counters \in {"same", "not compared"}

(***************************************************************************)
(* Every verdict of a comparison has its evidence: each pass is in one row *)
(* and no marked pass is paired by its place; two pictures are called      *)
(* identical only when the last ones of both passes are, and one left      *)
(* undecoded was left because the budget was spent; a pass is cheaper or   *)
(* dearer only when both sides measured it, on the events of that pass     *)
(* alone; and a bundle compared with itself differs nowhere                *)
(* (rdc_ab.py:367, 797, 926).                                              *)
(***************************************************************************)
PairVerdictsHaveEvidence ==
    LET a == LoadSide(bundleA) b == LoadSide(bundleB)
        document == BuildDocument(a, b, TRUE, ImageDetail)
    IN  Evidenced(a, b, document) /\ SameThroughout(BuildDocument(a, a, TRUE, ImageDetail).rows)
=============================================================================
