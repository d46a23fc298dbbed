------------------------------- MODULE Report -------------------------------
(***************************************************************************)
(* rdc_report, rdc_notable, rdc_recommend: one report is the detectors     *)
(* that could run on a bundle and a capture, why the others could not, the *)
(* causes the corpus knows for this file, and what to look at first.       *)
(* `report` is [events, names, counter, collected, withBounds, messages,   *)
(* debug, path, map]: a bundle, and whether its capture was given and      *)
(* could be read ("none", "unreadable", "read") with a chunk map.          *)
(***************************************************************************)
EXTENDS PipelineDetectors

CONSTANTS ReportEvents,     \* the events a report's bundle may have
          Situations,       \* the reports before their first event
          Corpus,           \* [loads, captures]: each capture [bytes, sha, known], in the order of the file
          TheCapture,       \* [there, bytes, sha]: the file the report is asked about
          NotableLimit, OddityLimit, RecommendationLimit

\* A report begins with no event; places are integers (a vertex that is not finite is told by its flag).
ASSUME ReportAssumption ==
    /\ RecommendationLimit \in Nat
    /\ Corpus.captures \in Seq(Range(Corpus.captures))
    /\ \A c \in Range(Corpus.captures) : c.known \in Seq(Range(c.known))
    /\ \A s \in Situations : "events" \in DOMAIN s /\ s.events = <<>>
    /\ \A e \in ReportEvents :
          /\ e.mesh.there => /\ e.mesh.vertices \in Seq(Range(e.mesh.vertices))
                             /\ \A v \in Range(e.mesh.vertices) : v.x \in Int /\ v.y \in Int /\ v.z \in Int /\ v.w \in Int
          /\ e.doc.there => /\ e.doc.viewports \in Seq(Range(e.doc.viewports))
                            /\ \A r \in Range(e.doc.viewports) : r.x \in Int /\ r.y \in Int /\ r.w \in Int /\ r.h \in Int

VARIABLE report

UsageRules == {"dead-allocation", "read-before-write", "write-never-read", "load-instead-of-clear", "dead-compute"}
StateRules == {"depth-logic", "empty-scissor", "stencil-without-writer", "blend-in-opaque-pass", "format-units-suspicion"}
TableRules == {"unbound-table-slot", "binding-kind-mismatch"}
StreamRules == {"marker-imbalance", "unattributed-draws", "zero-work", "srgb-view-mismatch", "aliased-write"}
AlwaysRules == {"debug-message", "all-zero-constant-block", "unbound-root-parameter", "shader-io-mismatch", "mismatched-msaa"}
Detectors_ == UsageRules \cup StateRules \cup TableRules \cup StreamRules \cup AlwaysRules \cup {"geometry-offscreen"}

(***************************************************************************)
(* Why a detector did not run; "" when it did.                             *)
(***************************************************************************)
TablesReason(bundle) ==
    IF \E i \in Documented_(bundle) : DocOf(bundle, i).tables # {} THEN "" ELSE "no resolved descriptor tables"
UsageReason(bundle) == IF bundle.collected THEN "" ELSE "no usage lists (--no-usage)"
PipelineStateReason(bundle) ==
    IF \E i \in Documented_(bundle) : DocOf(bundle, i).merger.there THEN "" ELSE "no pipeline state"
BoundsReason(bundle) ==
    IF \E i \in DOMAIN bundle.events : bundle.events[i].mesh.there THEN ""
    ELSE IF bundle.withBounds THEN "no position for any draw" ELSE "written without --bounds"
StreamReason(bundle, detector) ==
    CASE bundle.path = "none"       -> "no capture path given"
      [] bundle.path # "none" /\ detector = "aliased-write" /\ ~bundle.map -> "no chunk-name map"
      [] bundle.path = "unreadable" /\ (detector # "aliased-write" \/ bundle.map) -> "the capture could not be read"
      [] OTHER                      -> IF bundle.map THEN "" ELSE "no chunk-name map"

WhyNot(bundle, detector) ==
    CASE detector \in TableRules           -> TablesReason(bundle)
      [] detector \in UsageRules           -> UsageReason(bundle)
      [] detector \in StateRules           -> PipelineStateReason(bundle)
      [] detector = "geometry-offscreen"   -> BoundsReason(bundle)
      [] detector \in StreamRules          -> StreamReason(bundle, detector)
      [] OTHER                             -> ""

Found(bundle, detector, structure) ==
    CASE detector = "debug-message"           -> DetectMessages(bundle)
      [] detector = "all-zero-constant-block" -> DetectZeroConstantBlocks(bundle)
      [] detector = "unbound-root-parameter"  -> DetectUnboundRootParameters(bundle)
      [] detector = "unbound-table-slot"      -> DetectUnboundTableSlots(bundle)
      [] detector = "binding-kind-mismatch"   -> DetectBindingKindMismatch(bundle)
      [] detector = "shader-io-mismatch"      -> DetectShaderIoMismatch(bundle)
      [] detector = "dead-allocation"         -> DetectDeadAllocations(bundle)
      [] detector = "read-before-write"       -> DetectReadBeforeWrite(bundle)
      [] detector = "write-never-read"        -> DetectWriteNeverRead(bundle)
      [] detector = "load-instead-of-clear"   -> DetectLoadInsteadOfClear(bundle)
      [] detector = "dead-compute"            -> DetectDeadCompute(bundle, structure)
      [] detector = "mismatched-msaa"         -> DetectMismatchedMsaa(bundle)
      [] detector = "depth-logic"             -> DetectDepthLogic(bundle)
      [] detector = "empty-scissor"           -> DetectEmptyScissor(bundle)
      [] detector = "stencil-without-writer"  -> DetectStencilWithoutWriter(bundle)
      [] detector = "blend-in-opaque-pass"    -> DetectBlendInOpaquePass(bundle)
      [] detector = "format-units-suspicion"  -> DetectFormatUnitsSuspicion(bundle)
      [] detector = "geometry-offscreen"      -> DetectGeometryOffscreen(bundle)
      [] detector = "marker-imbalance"        -> DetectMarkerBalance
      [] detector = "unattributed-draws"      -> DetectUnattributedDraws
      [] detector = "zero-work"               -> DetectZeroWork
      [] detector = "srgb-view-mismatch"      -> DetectSrgbViewMismatch
      [] detector = "aliased-write"           -> DetectAliasedWrites

\* What the chunk stream says of the first read of each resource a finding names; a stream it cannot read says nothing.
AddProvenanceVerdicts(bundle, flags) ==
    LET named(f) == {r \in Used : Reads(r) # {} /\ \E k \in DOMAIN f.evidence : <<"res", r>> \in f.evidence[k]}
        verdict(r) == {<<"res", r>>, <<"provenance", WalkProvenance(r, Min(Eids(Reads(r))))[1]>>}
        extended(f) == [f EXCEPT !.evidence = @ \o [k \in 1..Cardinality(named(f)) |-> verdict(InOrder(named(f))[k])]]
    IN  IF bundle.path # "read" \/ ~bundle.map THEN flags
        ELSE {IF f.detector = "read-before-write" THEN extended(f) ELSE f : f \in flags}

DetectAllSkipsNothing(bundle, structure) ==
    [runs |-> [d \in Detectors_ |-> WhyNot(bundle, d)],
     flags |-> AddProvenanceVerdicts(bundle, UNION {Found(bundle, d, structure) : d \in Detectors_})]

DetectAll(bundle, structure) ==
    [runs |-> [d \in Detectors_ |-> WhyNot(bundle, d)],
     flags |-> AddProvenanceVerdicts(bundle,
                   UNION {Found(bundle, d, structure) : d \in {d \in Detectors_ : WhyNot(bundle, d) = ""}})]

(***************************************************************************)
(* The corpus's causes.  A capture is the file with the digest, whatever   *)
(* its name; no corpus and no such file leave every finding unproven.  An  *)
(* entry's `what` is the sentences its words are in, its `evidence` the    *)
(* things a line names its words are in, {} when it asks for none.         *)
(***************************************************************************)
KnownForCapture(corpus, file) ==
    LET same == {k \in DOMAIN corpus.captures : corpus.captures[k].bytes = file.bytes /\ corpus.captures[k].sha = file.sha}
    IN  IF corpus.loads /\ file.there /\ same # {} THEN corpus.captures[Min(same)].known ELSE <<>>

KnownMatches(flag, entry) ==
    /\ flag.detector = entry.detector /\ flag.what \in entry.what
    /\ entry.evidence = {} \/ \E k \in DOMAIN flag.evidence : flag.evidence[k] \cap entry.evidence # {}

\* The entries that are causes, by their place; a note is a string.
Causes(known) == {k \in DOMAIN known : "detector" \in DOMAIN known[k]}

\* Each entry marks what it matches, so the last one that does is the one that stays.
ApplyKnown(flags, known) ==
    LET matching(f) == {k \in Causes(known) : KnownMatches(f, known[k])}
        proved(f) == LET last == known[Max(matching(f))]
                     IN  [f EXCEPT !.unproven = FALSE, !.cause = last.cause, !.verdict = last.verdict]
    IN  [flags |-> {IF matching(f) = {} THEN f ELSE proved(f) : f \in flags},
         stale |-> {k \in Causes(known) : ~\E f \in flags : KnownMatches(f, known[k])}]

(***************************************************************************)
(* What is notable: the passes that do most, the largest resources, and    *)
(* those a rule finds odd.                                                 *)
(***************************************************************************)
Pixels(r) == Inventory[r].width * Inventory[r].height * Max({1, Inventory[r].samples})
Weight(r) == IF Inventory[r].kind = "texture" THEN 4 * Pixels(r) ELSE Inventory[r].bytes
TargetIds(entry) == (Range(entry.targets) \cup (IF entry.kind = "compute" THEN {} ELSE {entry.depth})) \cap DOMAIN Inventory
Touching == UsageReads \cup {"RWResource", "CS_RWResource"}
EidsOf(entry) == EventId(entry.first)..EventId(entry.last)

PassOddities(bundle, structure, p) ==
    LET entry == structure[p]
        chain(r) == DOMAIN UsageChain(bundle, r)
        after(r) == {e \in At_As(UsageChain(bundle, r), Touching) : e > EventId(entry.last)}
        only(r) == /\ Cardinality(chain(r)) >= 2 /\ chain(r) \cap EidsOf(entry) # {}
                   /\ \A q \in DOMAIN structure \ {p} : chain(r) \cap EidsOf(structure[q]) = {}
    IN  (IF entry.structure = "depth only" THEN {"depth only"} ELSE {})
          \cup (IF entry.kind # "compute" /\ entry.graphics = 1 THEN {"a single event"} ELSE {})
          \cup (IF entry.marker = NoMarker_ THEN {"no marker"} ELSE {})
          \cup (IF TargetIds(entry) # {} /\ \A r \in TargetIds(entry) : after(r) = {} THEN {"dead"} ELSE {})
          \cup (IF \E r \in TargetIds(entry) : only(r) THEN {"the only pass touching"} ELSE {})

\* The ranked passes first, then the odd ones in frame order, as many as the limits allow.
NotablePasses(bundle, structure) ==
    LET ranked == HeaviestFirst([p \in DOMAIN structure |-> structure[p].volume])
        top == Range(SubSeq(ranked, 1, Min({NotableLimit, Len(ranked)})))
        odd == InOrder({p \in DOMAIN structure \ top : PassOddities(bundle, structure, p) # {}})
    IN  [p \in top \cup Range(SubSeq(odd, 1, Min({OddityLimit, Len(odd)}))) |-> PassOddities(bundle, structure, p)]

\* The rule for a pass's target compares `res5` with `5` and never matches.
ResourceSpecials(bundle, r) ==
    (IF bundle.collected /\ r \in UsageJudged(bundle) /\ At_As(UsageChain(bundle, r), Touching) = {} THEN {"never read at all"} ELSE {})
      \cup (IF Inventory[r].kind = "texture" /\ Inventory[r].form = "unknown" THEN {"could not decode"}
            ELSE IF Inventory[r].odd THEN {"an unusual format"} ELSE {})

\* Listed by the text of the id: a number before those it begins.
BeforeAsText(x, y) ==
    LET length == Min({Digits(x), Digits(y)})
        head(n) == Leading(n, Digits(n) - length)
    IN  head(x) < head(y) \/ (head(x) = head(y) /\ x < y)

\* The ranked are always listed; the others as far as the two limits reach.
NotableResources(bundle) ==
    LET judged == {r \in DOMAIN Inventory : Inventory[r].kind \in {"texture", "buffer"}}
        ranked == HeaviestFirst([r \in judged |-> Weight(r)])
        top == Range(SubSeq(ranked, 1, Min({NotableLimit, Len(ranked)})))
        special == {r \in judged \ top : ResourceSpecials(bundle, r) # {}}
        listed == Ranked(special, {p \in special \X special : BeforeAsText(p[1], p[2])})
        left == NotableLimit + OddityLimit - Cardinality(top)
    IN  [r \in top \cup Range(SubSeq(listed, 1, Min({left, Len(listed)}))) |-> ResourceSpecials(bundle, r)]

(***************************************************************************)
(* What to look at first: one row per detector that found something, per   *)
(* rule, per gap; by severity, then by kind.                               *)
(***************************************************************************)
SeverityOf(detector) ==
    IF detector \in {"marker-imbalance", "unattributed-draws"} THEN 3
    ELSE IF detector \in {"all-zero-constant-block", "binding-kind-mismatch", "unbound-root-parameter", "unbound-table-slot",
                          "shader-io-mismatch", "aliased-write", "depth-logic", "empty-scissor", "zero-work"} THEN 1 ELSE 2

FindingRows(flags) == {[severity |-> SeverityOf(d), kind |-> 1, do |-> d] : d \in {f.detector : f \in flags}}
\* One row per rule that matched, whatever it matched: the passes' rules, then the resources'.
NotableRows(passRows) == {[severity |-> 3, kind |-> 2, do |-> reason] : reason \in UNION Range(passRows)}
ResourceRows(resourceRows) == {[severity |-> 3, kind |-> 2, do |-> reason] : reason \in UNION Range(resourceRows)}
GapRows(bundle, runs) ==
    {[severity |-> 3, kind |-> 3, do |-> d] : d \in {d \in DOMAIN runs : runs[d] # ""}}
      \cup (IF CostRows(bundle) = {} THEN {[severity |-> 3, kind |-> 3, do |-> "no counters"]} ELSE {})
      \cup (IF bundle.debug THEN {} ELSE {[severity |-> 3, kind |-> 3, do |-> "no shader debugging"]})

Recommendations(bundle, flags, runs, passRows, resourceRows) ==
    LET rows == FindingRows(flags) \cup NotableRows(passRows) \cup ResourceRows(resourceRows) \cup GapRows(bundle, runs)
        rank(row) == 3 * row.severity + row.kind
        ranked == Ranked(rows, {q \in rows \X rows : rank(q[1]) < rank(q[2])})
    IN  SubSeq(ranked, 1, Min({RecommendationLimit, Len(ranked)}))

Assembled(bundle, structure, all) ==
    LET known == ApplyKnown(all.flags, KnownForCapture(Corpus, TheCapture))
        passRows == NotablePasses(bundle, structure)
        resourceRows == NotableResources(bundle)
    IN  [frame |-> FrameFacts(bundle), passes |-> structure, states |-> [p \in DOMAIN structure |-> StateRollup(bundle, structure[p])],
         costs |-> CostRollup(bundle), flags |-> known.flags, stale |-> known.stale, detectors |-> all.runs,
         notables |-> passRows, resources |-> resourceRows,
         recommendations |-> Recommendations(bundle, known.flags, all.runs, passRows, resourceRows)]

Document_(bundle) ==
    LET structure == ReconstructPasses(bundle) IN Assembled(bundle, structure, DetectAll(bundle, structure))

\* 1: a bundle not read or a report not written; nothing that was found changes the exit.
CmdReport(readable, writable) == IF readable /\ writable THEN 0 ELSE 1

ReportInit == report \in Situations
ReportNext == \E e \in ReportEvents : report' = [report EXCEPT !.events = Append(@, e)]
ReportSpec == ReportInit /\ [][ReportNext]_report

(***************************************************************************)
(* What each claim of a document rests on.                                 *)
(***************************************************************************)
FlagsOf(document, d) == {f \in document.flags : f.detector = d}
NamesOf(document, d, tag) ==
    {n[2] : n \in {n \in UNION {UNION Range(f.evidence) : f \in FlagsOf(document, d)} : n[1] = tag}}
IsListed(document, r, d) == r \in NamesOf(document, d, "res") \/ NamesOf(document, d, "more") # {}
Advises(document, do) == \E row \in Range(document.recommendations) : row.do = do
IsFull(document) == Len(document.recommendations) = RecommendationLimit
RowsAs(r, usages) == {row[1] : row \in {row \in UsageRows(report, r) : row[2] \in usages}}

GapsAreTold(document) ==
    \A d \in Detectors_ : document.detectors[d] # "" =>
        FlagsOf(document, d) = {} /\ (IsFull(document) \/ Advises(document, d))

\* A rule that reads what this report has not.
IsBlind(bundle, d) ==
    \/ d \in UsageRules \cup {"mismatched-msaa"} /\ ~bundle.collected
    \/ d \in TableRules /\ \A i \in Documented_(bundle) : DocOf(bundle, i).tables = {}
    \/ d \in StateRules /\ \A i \in Documented_(bundle) : ~DocOf(bundle, i).merger.there
    \/ d = "geometry-offscreen" /\ \A i \in DOMAIN bundle.events : ~bundle.events[i].mesh.there
    \/ d \in StreamRules /\ (bundle.path \in {"none", "unreadable"} \/ ~bundle.map)

OneRuleIsBlind(document) ==
    \A d \in Detectors_ : IsBlind(report, d) =>
        FlagsOf(document, d) = {} /\ (d = "mismatched-msaa" \/ document.detectors[d] # "")

WorstComeFirst(document) ==
    \A f \in document.flags : SeverityOf(f.detector) = 1 =>
        \/ Advises(document, f.detector)
        \/ IsFull(document) /\ \A row \in Range(document.recommendations) : row.severity = 1

Fits(k, f) ==
    /\ k.detector = f.detector /\ f.what \in k.what
    /\ k.evidence # {} => k.evidence \cap UNION Range(f.evidence) # {}
CausesAreSpent(document) ==
    LET known == KnownForCapture(Corpus, TheCapture)
        fits(f) == {k \in Causes(known) : Fits(known[k], f)}
    IN  /\ \A f \in document.flags :
              /\ ~f.unproven <=> fits(f) # {}
              /\ \A k \in fits(f) : (\A j \in fits(f) : j <= k) => f.cause = known[k].cause /\ f.verdict = known[k].verdict
        /\ \A k \in Causes(known) : k \in document.stale <=> \A f \in document.flags : k \notin fits(f)

UsageRulesAgree(document) ==
    /\ \A d \in UsageRules \ {"dead-allocation"} : NamesOf(document, "dead-allocation", "res") \cap NamesOf(document, d, "res") = {}
    /\ \A r \in NamesOf(document, "dead-compute", "res") :
          \/ IsListed(document, r, "write-never-read")
          \/ \E p \in DOMAIN document.passes, e \in RowsAs(r, UsageReads) :
                e \in EidsOf(document.passes[p]) /\ document.passes[p].kind = "compute" /\ e > Max(RowsAs(r, UsageWrites))
    /\ \A r \in NamesOf(document, "load-instead-of-clear", "res") :
          (\E e \in RowsAs(r, UsageReads) : e < Min(RowsAs(r, UsageTargets))) => IsListed(document, r, "read-before-write")

\* Every vertex beyond one plane of the clip volume, or beyond one edge of the target it is drawn to.
IsBeyond(i) ==
    LET V == Range(report.events[i].mesh.vertices)
        rect == TargetRect(report, i)
        on == RectsInForce(report, i, "viewports")
        view == IF on = <<>> THEN rect ELSE on[1]
        px(v) == 4 * view.x + (((2 * v.x) \div v.w) + 2) * view.w
        py(v) == 4 * view.y + (2 - ((2 * v.y) \div v.w)) * view.h
    IN  /\ V # {} /\ \A v \in V : v.finite
        /\ \/ \A v \in V : v.w <= 0
           \/ \A v \in V : v.x < -v.w
           \/ \A v \in V : v.x > v.w
           \/ \A v \in V : v.y < -v.w
           \/ \A v \in V : v.y > v.w
           \/ \A v \in V : v.z < 0
           \/ \A v \in V : v.z > v.w
           \/ /\ \A v \in V : v.w > 0
              /\ \/ \A v \in V : px(v) <= 0
                 \/ \A v \in V : px(v) >= 4 * rect.w
                 \/ \A v \in V : py(v) <= 0
                 \/ \A v \in V : py(v) >= 4 * rect.h

CertainIsBeyond(document) ==
    \A f \in FlagsOf(document, "geometry-offscreen") : f.certainty = "certain" =>
        \A line \in Range(f.evidence) : \A n \in line : n[1] = "eid" => IsBeyond(n[2])

\* The number of draws outside is the count, and each is on its call's line unless the line ends before it; what
\* a line names is such a draw, or the first digits of the one it ends within.
BareDrawsAreNamed(document) ==
    LET flags == FlagsOf(document, "unattributed-draws")
        lines == UNION {Range(f.evidence) : f \in flags}
        bare == {i \in DOMAIN stream : stream[i].op = "draw" /\ \A p \in Range(MarkerPasses) : i \notin (p.chunk + 1)..p.last}
        past(i) == NumberEnd({j \in bare : stream[j].call = stream[i].call}, i) > LineRoom[stream[i].call]
        shown(i, x) == x = i \/ (past(i) /\ \E cut \in 1..(Digits(i) - 1) : x = Leading(i, cut))
    IN  document.detectors["unattributed-draws"] = "" =>
          /\ {f.key : f \in flags} = {Cardinality(bare)} \ {0}
          /\ \A i \in bare : \E line \in lines : <<"call", stream[i].call>> \in line /\ (past(i) \/ <<"chunk", i>> \in line)
          /\ \A line \in lines : \A n \in line : n[1] = "chunk" =>
                \E i \in bare : <<"call", stream[i].call>> \in line /\ shown(i, n[2])

Substantiated(document) ==
    /\ GapsAreTold(document) /\ OneRuleIsBlind(document) /\ WorstComeFirst(document) /\ CausesAreSpent(document)
    /\ UsageRulesAgree(document) /\ CertainIsBeyond(document) /\ BareDrawsAreNamed(document)

(***************************************************************************)
(* A report claims what it checked.  A rule it says did not run found      *)
(* nothing, and its gap is a row unless the list is full; a rule with      *)
(* nothing to look at is said not to have run, all but mismatched-msaa,    *)
(* which without the usage lists is listed as run and finds nothing        *)
(* (rdc_report.py:162).  A finding is proven exactly when a cause of the   *)
(* corpus matches it, its cause the last that does, and a cause is called  *)
(* stale only when no finding matches.  Two rules over the same usage rows *)
(* never contradict each other; a draw said to be off screen for certain   *)
(* has every vertex beyond one plane or one edge; the draws outside every  *)
(* marker pass are counted, and named as far as the lines that name them   *)
(* reach (rdc_report.py:84, 55, rdc_detect_usage.py:125,                   *)
(* rdc_detect_state.py:386, rdc_detect_stream.py:114).                     *)
(***************************************************************************)
ReportClaimsWhatItChecked == report.events # <<>> => Substantiated(Document_(report))
=============================================================================
