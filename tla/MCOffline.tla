----------------------------- MODULE MCOffline -----------------------------
(***************************************************************************)
(* One instance of every offline machine.  `part` picks the machine that   *)
(* moves, so the state space is their sum; a frame follows one script, the *)
(* set of chunks that may come at each position.                           *)
(***************************************************************************)
EXTENDS CallDiff, PassPairs, Report, Slices, Framing, Goldens, EngineTree, BuildState, TLC

VARIABLES part, script

vars == <<part, script, walkVars, alignVars, diffVars, pairVars, bytes, framingVars, goldenVars, engineVars, buildVars, report>>

(***************************************************************************)
(* Chunks.                                                                 *)
(***************************************************************************)
Sig(l, ns, s) == [op |-> "sig", list |-> l, ns |-> ns, sig |-> s]
Root(l, ns, kind, rp, v) == [op |-> "root", list |-> l, ns |-> ns, kind |-> kind, rp |-> rp, value |-> v]
ResetOf(l) == [op |-> "reset", list |-> l, pso |-> None]
Targets(l, rtv, dsv) == [op |-> "targets", list |-> l, rtv |-> rtv, dsv |-> dsv]
Vb(l, r) == [op |-> "vb", list |-> l, slot |-> 0, res |-> r]
Ib(l, r) == [op |-> "ib", list |-> l, res |-> r]
View(s, kind, r) == [op |-> "view", slot |-> s, kind |-> kind, res |-> r]
ViewCopy(s, from) == [op |-> "viewcopy", slot |-> s, from |-> from]
Drawn(l, call) == [op |-> "draw", list |-> l, call |-> call]
Clear(r) == [op |-> "clear", list |-> 1, res |-> r, as |-> IF r = 1 THEN "rtv" ELSE "uav"]
DiscardOf(r) == [op |-> "discard", list |-> 1, res |-> r]
Copy(r, from) == [op |-> "copy", list |-> 1, res |-> r, from |-> from]
Resolve(r, from) == [op |-> "resolve", list |-> 1, res |-> r, from |-> from]
Placing(r, h, at, size) == [op |-> "create", res |-> r, placed |-> TRUE, heap |-> h, offset |-> at, size |-> size]
Committed(r) == [op |-> "create", res |-> r, placed |-> FALSE, heap |-> 0, offset |-> 0, size |-> 1]
Transition(l, r, sub, after) ==
    [op |-> "barrier", form |-> "transition", list |-> l, res |-> r, sub |-> sub, after |-> after, discard |-> FALSE]
DiscardFlag(l, r) ==
    [op |-> "barrier", form |-> "group", list |-> l, res |-> r, sub |-> All, after |-> {}, discard |-> TRUE]
Alias(a, b) == [op |-> "barrier", form |-> "alias", list |-> 1, res |-> a, to |-> b]
Push(n) == [op |-> "push", name |-> n]
Pop == [op |-> "pop"]

SmallLayout ==
    1 :> <<[kind |-> "table", ranges |-> <<[kind |-> "uav", count |-> 1, offset |-> 1],
                                           [kind |-> "srv", count |-> 1, offset |-> Append_]>>],
           [kind |-> "root"]>>
 @@ 2 :> <<[kind |-> "table", ranges |-> <<[kind |-> "srv", count |-> Unbounded, offset |-> 0],
                                           [kind |-> "srv", count |-> 2, offset |-> Append_]>>]>>
 @@ 3 :> <<[kind |-> "other"], [kind |-> "root"], [kind |-> "root"]>>

(***************************************************************************)
(* Scripts.                                                                *)
(***************************************************************************)
Times(n, S) == [i \in 1..n |-> S]

Bindings == Times(4, {ResetOf(1), Sig(1, "gfx", 1), Sig(1, "gfx", 2), Sig(1, "comp", 1),
                      Root(1, "gfx", "cbv", 2, 1), Root(1, "gfx", "cbv", 2, 2),
                      Root(1, "comp", "srv", 2, 1), Root(2, "gfx", "cbv", 2, 1)})

Table(l, ns) == Root(l, ns, "table", 1, <<1, 0>>)
Views == {View(<<1, 1>>, "uav", 1), View(<<1, 2>>, "srv", 1), View(<<1, 1>>, "srv", 2), View(<<1, 2>>, "sampler", 0)}
Late == {View(<<1, 2>>, "srv", 2), ViewCopy(<<1, 2>>, <<1, 1>>), ViewCopy(<<1, 1>>, <<1, 0>>)}
Draws == {Drawn(1, "draw"), Drawn(1, "dispatch"), Drawn(1, "indirect")}
Loops == <<{Sig(1, "gfx", 1), Sig(1, "comp", 1), Sig(1, "gfx", 2)},
           {Table(1, "gfx"), Table(1, "comp"), Root(1, "gfx", "uav", 2, 1)}, Views, Views \cup {Targets(1, {1}, None), Targets(1, {}, 2)},
           Draws \cup {Sig(1, "gfx", 2)}, Late \cup {ResetOf(1), Targets(1, {2}, None)}, Draws>>

Movers == {Clear(1), Copy(2, 1), Copy(3, 2), Copy(1, 2), Resolve(1, 3), DiscardOf(2), Drawn(1, "draw")}
Origins == <<{Committed(1), Committed(2), Targets(1, {1}, None)}, {Targets(1, {2}, 3), Vb(1, 2), Ib(1, 2), Root(1, "gfx", "uav", 1, 2)}>>
             \o Times(4, Movers)

Touches == {Clear(1), Clear(2), Copy(3, 1), Copy(3, 2), Alias(1, 2), Transition(1, 1, All, {"CopySource"})}
Sharing == <<{Placing(1, 1, 0, 2), Placing(1, 1, 1, 2)}, {Placing(2, 1, 1, 2), Placing(2, 1, 2, 0), Placing(2, 2, 0, 2)}>>
             \o Times(4, Touches)

Words_ == {{}, {"RenderTarget"}, {"CopyDest"}, {"PixelShaderResource", "CopySource"}}
Told == {Transition(l, r, sub, w) : l \in 1..2, r \in {1}, sub \in {0, 1, All}, w \in {{"RenderTarget"}, {"CopyDest"}}}
States == <<Told \cup {Transition(1, 2, 0, w) : w \in Words_}, Told \cup {Transition(1, 2, All, {"CopyDest"})},
            {Copy(1, 2), Copy(2, 1), Clear(1), Clear(2), DiscardFlag(1, 1)} \cup Told, {Clear(1), Copy(1, 2)}>>

Scopes == Times(6, {Push("a"), Push("b"), Pop, Drawn(1, "draw")})

Scripts == {Bindings, Loops, Origins, Sharing, States, Scopes}

FramePart ==
    /\ part = "frame" /\ Len(stream) < Len(script)
    /\ \E c \in script[Now] : ReadChunk(c)
    /\ UNCHANGED <<part, script, alignVars, diffVars, pairVars, bytes, framingVars, goldenVars, engineVars, buildVars, report>>

(***************************************************************************)
(* The other machines.                                                     *)
(***************************************************************************)
SmallPasses == {[path |-> p, calls |-> n] : p \in {<<"f">>, <<"f", "x">>, <<"f", "y">>, <<"g", "x">>}, n \in {1}}
                  \cup {[path |-> <<"f", "z">>, calls |-> 2]}
SmallNeedles == {<<"a">>, <<"a", "a">>, <<"a", ".", "a">>}
SmallChunks == {[id |-> 7, flags |-> {}, frames |-> 0, len |-> 0], [id |-> 7, flags |-> {"size64"}, frames |-> 0, len |-> 2],
                [id |-> 8, flags |-> {"callstack", "threadid"}, frames |-> 1, len |-> 1],
                [id |-> 9, flags |-> {"duration", "timestamp"}, frames |-> 0, len |-> 3]}

AlignPart ==
    /\ part = "align" /\ Len(left) < 4 /\ Len(right) < 3 /\ AlignNext
    /\ UNCHANGED <<part, script, walkVars, diffVars, pairVars, bytes, framingVars, goldenVars, engineVars, buildVars, report>>
\* A state setter or two, a draw, a marker: what the streams of a pair are made of.
Draw_(l, call, args) == [op |-> "draw", list |-> l, call |-> call, args |-> args]
SmallSnippets == {<<Push("a")>>, <<Pop, Push("b"), Push("a")>>, <<Draw_(1, "draw", "x")>>,
                  <<ResetOf(1), Draw_(2, "draw", "x"), Draw_(1, "dispatch", "y")>>,
                  <<Sig(1, "gfx", 1), Root(1, "gfx", "cbv", 2, 2), Root(1, "gfx", "table", 1, <<1, 0>>), Draw_(1, "draw", "x")>>,
                  <<Sig(1, "gfx", 3), Root(1, "gfx", "cbv", 3, 3), Targets(1, {1}, None), Draw_(1, "draw", "x")>>,
                  <<View(<<1, 0>>, "srv", 1), Root(2, "gfx", "srv", 4, 0), [op |-> "pso", list |-> 2, pso |-> 1], Ib(2, 1), Pop>>}
SmallShape == 1 :> "A" @@ 2 :> "buffer 4 B" @@ 3 :> "buffer 4 B"
Draws_(chunks) == Cardinality({i \in DOMAIN chunks : chunks[i].op = "draw"})

DiffPart ==
    /\ part = "diff" /\ DiffNext /\ Draws_(sideA') <= 3 /\ Draws_(sideB') <= 2 /\ Len(sideA') <= 6 /\ Len(sideB') <= 4
    /\ UNCHANGED <<part, script, walkVars, alignVars, pairVars, bytes, framingVars, goldenVars, engineVars, buildVars, report>>

\* The events of a pair of bundles: what they bind, where they sit, what the dump wrote of them.
Image(b, size, whole) == [bytes |-> b, size |-> size, whole |-> whole]
Red == Image("red", 1, TRUE)
Blue == Image("blue", 1, TRUE)
Big == Image("big", 2, TRUE)
Torn == Image("torn", 0, FALSE)
Doc_(rows, hash, members) == [there |-> TRUE, rows |-> rows, shaders |-> "ps" :> [hash |-> hash] @@ "cs" :> [hash |-> "c"],
                              blocks |-> <<"ps", 0>> :> members, uavs |-> {}]
Event(kind, targets, depth, dispatch, marker, doc, images, counters) ==
    [kind |-> kind, targets |-> targets, depth |-> depth, dispatch |-> dispatch, marker |-> marker,
     volume |-> 1, doc |-> doc, images |-> images, counters |-> counters]
SmallEvents ==
    {Event("graphics", <<1>>, 0, 0, <<"f", "x">>, Doc_({"r1"}, "h1", "m" :> "1"), 0 :> Red, 1 :> 2),
     Event("graphics", <<1>>, 0, 0, <<>>, Doc_({"r1", "r2"}, "", "m" :> "2"), 0 :> Blue @@ 1 :> Red, 1 :> 1 @@ 2 :> 3),
     Event("graphics", <<2>>, 3, 0, <<>>, NoDoc, <<>>, 2 :> 5),
     Event("compute", <<1>>, 0, 1, <<"g", "x">>, Doc_({}, "h2", "n" :> "1"), 0 :> Big @@ 1 :> Blue, 1 :> 4),
     Event("compute", <<2>>, 3, 2, <<>>, NoDoc, 0 :> Torn, <<>>),
     Event("graphics", <<>>, 3, 0, <<"f", "x">>, NoDoc, 1 :> Red, 1 :> 3)}
SmallNamesA == 1 :> "Scene" @@ 3 :> "Depth"
SmallNamesB == 2 :> "Scene"
PairPart ==
    /\ part = "pairs" /\ Len(bundleA.events) + Len(bundleB.events) < 5 /\ PairNext
    /\ Len(bundleA'.events) <= 3 /\ Len(bundleB'.events) <= 2
    /\ UNCHANGED <<part, script, walkVars, alignVars, diffVars, bytes, framingVars, goldenVars, engineVars, buildVars, report>>
SlicesPart ==
    /\ part = "slices" /\ Len(bytes) < 7 /\ SlicesNext
    /\ UNCHANGED <<part, script, walkVars, alignVars, diffVars, pairVars, framingVars, goldenVars, engineVars, buildVars, report>>
FramingPart ==
    /\ part = "framing" /\ (Len(written) < 3 \/ cut = 0) /\ FramingNext /\ Len(written') <= 3
    /\ UNCHANGED <<part, script, walkVars, alignVars, diffVars, pairVars, bytes, goldenVars, engineVars, buildVars, report>>

(***************************************************************************)
(* Reports: a few chunks of the capture, then the bundle's events.         *)
(***************************************************************************)
SmallHeld ==
    1 :> [kind |-> "texture", samples |-> 4, width |-> 2, height |-> 2, bytes |-> 0, opaque |-> TRUE, bits |-> 8, form |-> "linear", viewed |-> "srgb", odd |-> FALSE]
 @@ 2 :> [kind |-> "buffer", samples |-> 1, width |-> 0, height |-> 0, bytes |-> 8, opaque |-> FALSE, bits |-> 0, form |-> "none", viewed |-> "none", odd |-> TRUE]
 @@ 3 :> [kind |-> "texture", samples |-> 1, width |-> 4, height |-> 2, bytes |-> 0, opaque |-> FALSE, bits |-> 0, form |-> "unknown", viewed |-> "none", odd |-> FALSE]
CauseFor(detector, sentences, evidence, cause) ==
    [detector |-> detector, what |-> sentences, evidence |-> evidence, cause |-> cause, verdict |-> "confirmed"]
\* `marker` is in two sentences, `res` in every line that names a resource; the later of two causes stays.
SmallCorpus ==
    [loads |-> TRUE, captures |->
        <<[bytes |-> 5, sha |-> "other", known |-> <<CauseFor("zero-work", {"draws nothing"}, {}, "c")>>],
          [bytes |-> 5, sha |-> "this", known |->
            <<[note |-> "n"], CauseFor("read-before-write", {"first use is a read"}, {<<"res", 2>>}, "c"),
              CauseFor("read-before-write", {"first use is a read"}, {<<"res", r>> : r \in 1..3}, "d"),
              CauseFor("marker-imbalance", {"nothing pushed", "never popped"}, {}, "c"),
              CauseFor("dead-compute", {"nothing after reads"}, {<<"res", 3>>}, "c")>>],
          [bytes |-> 5, sha |-> "this", known |-> <<>>]>>]
SmallFile == [there |-> TRUE, bytes |-> 5, sha |-> "this"]
Situation(collected, withBounds, path, map) ==
    [events |-> <<>>, names |-> Empty, counter |-> 1, collected |-> collected, withBounds |-> withBounds,
     messages |-> {<<"high", "m", 1>>}, debug |-> collected, path |-> path, map |-> map]
SmallSituations ==
    {Situation(TRUE, TRUE, "read", TRUE), Situation(FALSE, FALSE, "none", TRUE), Situation(TRUE, FALSE, "unreadable", FALSE),
     Situation(TRUE, TRUE, "read", FALSE)}

Plain == [there |-> TRUE, depthEnable |-> TRUE, depthWrites |-> TRUE, stencilEnable |-> TRUE, stencilReadOnly |-> FALSE,
          faces |-> {[mask |-> 1, ops |-> {"Keep", "Replace"}]}, independent |-> FALSE, blends |-> <<TRUE, FALSE>>]
Strange == [Plain EXCEPT !.depthEnable = FALSE, !.faces = {}, !.independent = TRUE]
Rect(on, x, y, w, h) == [on |-> on, x |-> x, y |-> y, w |-> w, h |-> h]
Semantic(name, base, index, count, type) == [name |-> name, base |-> base, index |-> index, count |-> count, type |-> type]
Vs == [declared |-> {<<"b", 0>>}, inputs |-> <<>>, outputs |-> <<Semantic("UV", "", 0, 2, "float"), Semantic("N_1", "N", 0, 3, "float")>>]
Ps == [declared |-> {<<"b", 0>>, <<"t", 1>>}, outputs |-> <<Semantic("SV_TARGET", "", 0, 4, "float")>>,
       inputs |-> <<Semantic("UV", "", 0, 3, "float"), Semantic("N", "", 0, 3, "float"), Semantic("T", "", 1, 1, "float")>>]
Params == 1 :> [vis |-> AnyStage, reg |-> 0, set |-> FALSE] @@ 2 :> [vis |-> {"ps"}, reg |-> 1, set |-> TRUE]
Slots(type, r) == {[letter |-> "t", reg |-> 1, param |-> 2, type |-> type, res |-> r]}
StateDoc(merger, rts, dsv, tables, values, viewports) ==
    [there |-> TRUE, merger |-> merger, rts |-> rts, dsv |-> dsv, tables |-> tables, params |-> Params,
     shaders |-> "vs" :> Vs @@ "ps" :> Ps, blocks |-> <<"ps", 0>> :> [buffer |-> 2, values |-> values], uavs |-> {},
     viewports |-> viewports, scissors |-> <<Rect(TRUE, 0, 0, 1, 1), Rect(FALSE, 0, 0, 0, 0)>>]
Vertex(x, y, z, w) == [x |-> x, y |-> y, z |-> z, w |-> w, finite |-> TRUE]
Mesh(vertices) == [there |-> TRUE, vertices |-> vertices]
Recorded_(kind, targets, depth, dispatch, uses_, before, mesh, doc) ==
    [kind |-> kind, targets |-> targets, depth |-> depth, dispatch |-> dispatch, marker |-> IF kind = "compute" THEN <<"f">> ELSE <<>>,
     volume |-> IF kind = "compute" THEN 2 ELSE 1, doc |-> doc, images |-> Empty, counters |-> Empty,
     uses |-> uses_, before |-> before, mesh |-> mesh]
SmallReportEvents ==
    {Recorded_("graphics", <<1>>, 3, 0, {<<1, "ColorTarget">>, <<2, "Constants">>, <<3, "DepthStencilTarget">>}, {<<3, "Unused">>},
               Mesh(<<Vertex(-3, 0, 0, 1), Vertex(-2, 1, 0, 4)>>),
               StateDoc(Plain, 0 :> 1, 3, Slots("image", None), {"zero", "text"}, <<Rect(TRUE, 0, 0, 2, 2)>>)),
     Recorded_("graphics", <<1>>, 3, 0, {<<1, "ColorTarget">>, <<3, "Resource">>}, {<<2, "CopyDst">>, <<1, "ResolveSrc">>},
               Mesh(<<Vertex(1, 0, 0, 2)>>), NoDoc),
     Recorded_("graphics", <<>>, 3, 0, {<<3, "DepthStencilTarget">>}, {}, Mesh(<<Vertex(0, 0, 0, -1)>>),
               StateDoc(Strange, Empty, 0, Slots("rwbuffer", 2), {"zero", "value"},
                        <<Rect(TRUE, 3, 0, 2, 2), Rect(TRUE, 0, 0, 0, 2)>>)),
     Recorded_("graphics", <<1>>, 3, 0, {<<1, "ColorTarget">>}, {}, Mesh(<<Vertex(-3, 0, 0, 1), Vertex(-3, 1, 0, 2)>>),
               StateDoc([Plain EXCEPT !.faces = {[mask |-> 1, ops |-> {"Keep"}]}], 0 :> 1, 3, {}, {}, <<>>)),
     Recorded_("compute", <<1>>, 3, 1, {<<3, "CS_RWResource">>, <<3, "Copy">>, <<2, "CS_RWResource">>}, {}, NoMesh, NoDoc),
     Recorded_("compute", <<1>>, 3, 1, {<<3, "CS_RWResource">>, <<2, "Resource">>}, {<<1, "Clear">>},
               NoMesh, [StateDoc([there |-> FALSE], Empty, 0, {}, {"text"}, <<>>) EXCEPT !.shaders = "cs" :> Vs])}
Counted(call, counts) == [op |-> "draw", list |-> 1, call |-> call, counts |-> counts]
\* In binary, so that a line ends within a number of two digits; one call's lines have room for a single digit.
SmallRoom == "dispatch" :> 8 @@ "indexed" :> 1 @@ "draw" :> 4 @@ "indirect" :> 8
\* Two placements that share bytes, one written while the other is still read.
Shared == <<{Placing(1, 1, 0, 2)}, {Placing(2, 1, 1, 2)}, {Copy(3, 2)}, {Clear(1)}, {Copy(3, 2)}>>
Loose == Times(2, {Push("a"), Pop, Counted("draw", <<0, 1>>), Counted("indexed", <<1, 1>>), Copy(2, 1), View(<<1, 0>>, "srv", 1)})
SmallFrameChunks == UNION {UNION Range(s) : s \in Scripts \cup {Shared, Loose}}
ReportPart ==
    /\ part = "report"
    /\ \/ report.events = <<>> /\ Len(stream) < Len(script) /\ UNCHANGED report
          /\ \E c \in script[Now] : ReadChunk(c)
       \/ Len(report.events) < (IF Len(stream) < 2 THEN 3 ELSE 2) /\ ReportNext /\ UNCHANGED walkVars
    /\ UNCHANGED <<part, script, alignVars, diffVars, pairVars, bytes, framingVars, goldenVars, engineVars, buildVars>>

(***************************************************************************)
(* The goldens: the script is the machines of successive runs, each with   *)
(* its run; the last golden run of a script is the one that is judged.     *)
(***************************************************************************)
Whole == [tool |-> 1, engine |-> "1.3", place |-> "here", chunkMap |-> TRUE, driver |-> "works", local |-> {"a", "b"},
          file |-> [c \in {"a", "b"} |-> TheFile], bundle |-> [c \in {"a", "b"} |-> "whole"],
          corpus |-> [version |-> 1, known |-> {[note |-> "n"]}]]
Cause == [detector |-> "d", what |-> "w", evidence |-> "", cause |-> "c", verdict |-> "confirmed"]
Machines ==
    {Whole, [Whole EXCEPT !.tool = 2], [Whole EXCEPT !.engine = "1.4", !.place = "there", !.corpus.known = {Cause}],
     [Whole EXCEPT !.file["b"] = "taken again", !.driver = "no device"], [Whole EXCEPT !.local = {"b"}, !.bundle["a"] = Missing],
     [Whole EXCEPT !.bundle["b"] = "broken", !.driver = "crashes"], [Whole EXCEPT !.file["a"] = Missing, !.driver = "stale"],
     [Whole EXCEPT !.chunkMap = FALSE, !.driver = "absent"]}
Refused == {[Whole EXCEPT !.local = {"a", "c"}], [Whole EXCEPT !.corpus.version = 2],
            [Whole EXCEPT !.corpus.known = {[Cause EXCEPT !.verdict = "maybe"]}]}
SmallCaptures == <<"a", "b">>
SmallCommands == [c \in {"a", "b"} |-> <<"draws">>]
ARun == [run |-> TRUE]
GoldenScripts ==
    {<<m, ARun, n, ARun>> : m \in Machines, n \in Machines} \cup {<<m, ARun>> : m \in Refused}
      \cup {<<Whole, ARun, [Whole EXCEPT !.tool = 2], ARun, Whole, ARun>>}

GoldenPart ==
    /\ part = "goldens"
    /\ \/ run.mode = "idle" /\ script # <<>> /\ Head(script) # ARun /\ Change(Head(script)) /\ script' = Tail(script)
       \/ run.mode = "idle" /\ script # <<>> /\ Head(script) = ARun /\ GoldensStep /\ script' = Tail(script)
       \/ run.mode # "idle" /\ GoldensStep /\ UNCHANGED script
    /\ UNCHANGED <<part, walkVars, alignVars, diffVars, pairVars, bytes, framingVars, engineVars, buildVars, report>>

(***************************************************************************)
(* The engine's source tree and the build's artefacts.                     *)
(***************************************************************************)
Files_(paths) == [i \in 1..Len(paths) |-> [path |-> paths[i], kind |-> "file"]]
Processes == Permutations(Commands_)
SmallMembers ==
    <<Files_(<<"core.h">>) \o <<[path |-> "link", kind |-> "link"]>> \o Files_(<<"d3d12_common.h">>),
      Files_(<<"core.h", "d3d12_common.h", "dds_readwrite.cpp">>)>>
EnginePart ==
    /\ part = "engine" /\ EngineNext
    /\ table' # table => table = [kind \in Kinds |-> 1]
    /\ UNCHANGED <<part, script, walkVars, alignVars, diffVars, pairVars, bytes, framingVars, goldenVars, buildVars, report>>

SmallTargets == <<"exe", "lib">>
SmallSources == [exe |-> <<"a.cpp">>, lib |-> <<"b.c">>]
BuildPart ==
    /\ part = "build" /\ BuildNext /\ Cardinality(touched') <= 1
    /\ UNCHANGED <<part, script, walkVars, alignVars, diffVars, pairVars, bytes, framingVars, goldenVars, engineVars, report>>

Init ==
    /\ part \in {"frame", "align", "diff", "pairs", "report", "slices", "framing", "goldens", "engine", "build"}
    /\ CASE part = "frame" -> script \in Scripts [] part = "report" -> script \in {Shared, Loose} [] part = "goldens" -> script \in GoldenScripts [] OTHER -> script = <<>>
    /\ IF part = "report" THEN ReportInit ELSE report = Situation(FALSE, FALSE, "none", FALSE)
    /\ FrameWalkInit /\ AlignInit /\ DiffInit /\ PairInit /\ SlicesInit /\ FramingInit /\ GoldensInit(Whole)
    /\ EngineInit([r \in {Documented, "elsewhere"} |-> <<>>])
    /\ \E exe \in {0, 1} : BuildInit([f \in Files |-> IF f = "exe" THEN (IF part = "build" THEN exe ELSE 0)
                                                      ELSE IF f = "b.c" THEN 2 ELSE 1])
Next == FramePart \/ AlignPart \/ DiffPart \/ PairPart \/ ReportPart \/ SlicesPart \/ FramingPart \/ GoldenPart \/ EnginePart \/ BuildPart
Spec == Init /\ [][Next]_vars
=============================================================================
