---------------------------- MODULE BundlePasses ----------------------------
(***************************************************************************)
(* A bundle read back (rdc_bundle.load_bundle) and its events grouped into *)
(* passes (rdc_passes).  A bundle is [events, names, counter]: the events  *)
(* in order, an event's id its position; the names its capture gave its    *)
(* resources, whose ids are this capture's alone; the counter it costs by. *)
(* An event is [kind, targets, depth, dispatch, marker, volume, doc,       *)
(* images, counters], its marker the names from the outermost in.          *)
(***************************************************************************)
EXTENDS Integers, Sequences, FiniteSets, FiniteSetsExt, Functions, SequencesExt

Required_ == {"manifest", "capture", "events", "resources"}
OptionalDocs == {"messages", "counters", "counters-passes", "states", "cbuffers"}

\* A bundle is read whole or refused: a document that is not there may only be an optional one.
LoadBundle(disk, version) ==
    /\ disk.directory
    /\ disk.manifest = "whole" /\ disk.version = version
    /\ \A doc \in Required_ : disk[doc] = "whole"
    /\ \A doc \in OptionalDocs : disk[doc] # "damaged"

NoDoc == [there |-> FALSE]      \* an event the dump wrote no state document for
NoMarker_ == <<>>
ComputeStages == {"cs", "as", "ms"}

(***************************************************************************)
(* A pass is a run of events that agree on the kind of call and on what    *)
(* that kind sets: a dispatch leaves the targets of the draw before it.    *)
(***************************************************************************)
StartsPass(last, event) ==
    \/ last.kind # event.kind
    \/ event.kind = "compute" /\ last.dispatch # event.dispatch
    \/ event.kind # "compute" /\ (last.targets # event.targets \/ last.depth # event.depth)

PassStructure(kind, targets, depth) ==
    CASE kind = "compute"               -> "compute"
      [] targets = <<>> /\ depth # 0    -> "depth only"
      [] targets # <<>> /\ depth = 0    -> "colour only"
      [] Len(targets) >= 2              -> "multi-target"
      [] Len(targets) = 1               -> "single colour target"
      [] OTHER                          -> "no targets bound"

PassOf(events, first, last) ==
    LET event == events[first]
        ids   == first..last
    IN  [first |-> first, last |-> last, kind |-> event.kind, targets |-> event.targets, depth |-> event.depth,
         structure |-> PassStructure(event.kind, event.targets, event.depth),
         marker |-> event.marker, events |-> Cardinality(ids),
         graphics |-> Cardinality({i \in ids : events[i].kind # "compute"}),
         compute |-> Cardinality({i \in ids : events[i].kind = "compute"}),
         volumeCalls |-> Cardinality({i \in ids : events[i].volume # 0}),
         volume |-> MapThenSumSet(LAMBDA i : events[i].volume, ids)]

ReconstructPasses(bundle) ==
    LET events == bundle.events
        begin  == {i \in DOMAIN events : i = 1 \/ StartsPass(events[i - 1], events[i])}
        starts == FoldLeftDomain(LAMBDA done, i : IF i \in begin THEN Append(done, i) ELSE done, <<>>, events)
    IN  [p \in DOMAIN starts |->
            PassOf(events, starts[p], IF p = Len(starts) THEN Len(events) ELSE starts[p + 1] - 1)]

\* The resources a pass is the first to touch.
FirstTouched(entry, firstEvent) == {r \in DOMAIN firstEvent : firstEvent[r] \in entry.first..entry.last}

\* What the state document of its first event says of a pass: the stages its kind uses, and what is left over.
StateRollup(bundle, entry) ==
    LET doc == bundle.events[entry.first].doc
        used(stage) == (stage \in ComputeStages) = (entry.kind = "compute")
    IN  IF ~doc.there THEN [shaders |-> {}, otherShaders |-> {}, blocks |-> {}, writes |-> {}]
        ELSE [shaders |-> {s \in DOMAIN doc.shaders : used(s)}, otherShaders |-> {s \in DOMAIN doc.shaders : ~used(s)},
              blocks |-> DOMAIN doc.blocks, writes |-> doc.uavs]

(***************************************************************************)
(* The cost of a range by the one counter the bundle costs by, or by every *)
(* row when it names none.  A row is <<event, counter>>.                   *)
(***************************************************************************)
NoCounter == 0
CostedBy(bundle, row) == bundle.counter \in {NoCounter, row[2]}
CostRows(bundle) ==
    UNION {{row \in {i} \X DOMAIN bundle.events[i].counters : CostedBy(bundle, row)} : i \in DOMAIN bundle.events}

PassCost(bundle, first, last) ==
    LET inside     == {row \in CostRows(bundle) : row[1] \in first..last}
        value(row) == bundle.events[row[1]].counters[row[2]]
    IN  [cost |-> MapThenSumSet(value, inside), rows |-> Cardinality(inside),
         dearest |-> IF inside = {} THEN 0
                     ELSE Min({row[1] : row \in {row \in inside : \A other \in inside : value(other) <= value(row)}})]

\* Each pass's cost, and its share of everything that was measured.
CostRollup(bundle) ==
    LET total == PassCost(bundle, 1, Len(bundle.events)).cost
        passes == ReconstructPasses(bundle)
    IN  [p \in DOMAIN passes |-> PassCost(bundle, passes[p].first, passes[p].last) @@ [of |-> total]]

FrameFacts(bundle) ==
    [events |-> Len(bundle.events),
     compute |-> Cardinality({i \in DOMAIN bundle.events : bundle.events[i].kind = "compute"}),
     targets |-> UNION {Range(bundle.events[i].targets) : i \in DOMAIN bundle.events},
     documents |-> Cardinality({i \in DOMAIN bundle.events : bundle.events[i].doc.there}),
     measured |-> Cardinality(CostRows(bundle))]
=============================================================================
