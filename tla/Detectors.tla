----------------------------- MODULE Detectors -----------------------------
(***************************************************************************)
(* The detectors of rdc_detect_bundle, _usage and _binding: each reads a   *)
(* bundle and answers with the set of its findings.  A report's            *)
(* bundle adds to BundlePasses' events the rows of the usage lists (those  *)
(* of the calls since the event before, and its own), the mesh the driver  *)
(* measured, and state documents with the pipeline in them.  A line of     *)
(* evidence is the set of things it names.                                 *)
(***************************************************************************)
EXTENDS BundlePasses, FrameWalk

CONSTANTS Inventory,             \* resource -> [kind, samples, width, height, bytes, opaque, bits, form, viewed, odd]
          ListLimit,        \* USAGE_LIST_LIMIT, STATE_LIST_LIMIT
          AllocationLimit   \* DEAD_ALLOCATION_LIMIT

ASSUME DetectorsAssumption ==
    /\ ListLimit \in Nat \ {0} /\ AllocationLimit \in Nat \ {0}
    /\ IsFiniteSet(DOMAIN Inventory) /\ DOMAIN Inventory \in SUBSET Nat
    /\ \A r \in DOMAIN Inventory : Inventory[r].bytes \in Nat /\ Inventory[r].width \in Nat /\ Inventory[r].height \in Nat

Flag(detector, what, key, lines, certainty) ==
    [detector |-> detector, what |-> what, key |-> key, evidence |-> lines, certainty |-> certainty,
     unproven |-> TRUE, cause |-> "", verdict |-> ""]

\* The first lines, and one that says how many more there were.
Listed(lines) ==
    IF Len(lines) <= ListLimit THEN lines
    ELSE Append(SubSeq(lines, 1, ListLimit), {<<"more", Len(lines) - ListLimit>>})

\* A set in an order, given by its pairs: each next element has none before it left.
Ranked(S, order) ==
    FoldLeft(LAMBDA done, k : LET rest == S \ Range(done)
                              IN  Append(done, CHOOSE x \in rest : \A y \in rest : <<y, x>> \notin order),
             <<>>, [k \in 1..Cardinality(S) |-> k])

InOrder(S) == Ranked(S, {p \in S \X S : p[1] < p[2]})
HeaviestFirst(weight) ==
    LET S == DOMAIN weight
    IN  Ranked(S, {p \in S \X S : weight[p[1]] > weight[p[2]] \/ (weight[p[1]] = weight[p[2]] /\ p[1] < p[2])})
LinesOf(tag, S) == LET ordered == InOrder(S) IN [i \in DOMAIN ordered |-> {<<tag, ordered[i]>>}]

\* `key` groups its domain: one finding per group, its lines the members; no group, no finding.
Grouped(detector, what, key, tag, certainty) ==
    {Flag(detector, what, k, Listed(LinesOf(tag, {x \in DOMAIN key : key[x] = k})), certainty) : k \in Range(key)}
OneFlag(detector, what, S, tag, certainty) == Grouped(detector, what, [x \in S |-> <<>>], tag, certainty)

(***************************************************************************)
(* Usage chains.  Event i has the id 2i, the calls before it 2i - 1.       *)
(***************************************************************************)
EventId(i) == 2 * i
UsageReads == {"VertexBuffer", "IndexBuffer", "InputTarget", "Indirect", "ResolveSrc", "CopySrc", "Resolve", "Copy",
               "Constants", "Resource"}
UsageWrites == {"ColorTarget", "DepthStencilTarget", "Clear", "Discard", "GenMips", "StreamOut", "ResolveDst",
                "CopyDst", "CPUWrite", "Resolve", "Copy", "RWResource", "CS_RWResource"}
UsageTargets == {"ColorTarget", "DepthStencilTarget"}

UsageRows(bundle, r) ==
    IF ~bundle.collected THEN {}
    ELSE UNION {{<<EventId(i) - 1, u[2]>> : u \in {u \in bundle.events[i].before : u[1] = r}}
                  \cup {<<EventId(i), u[2]>> : u \in {u \in bundle.events[i].uses : u[1] = r}} : i \in DOMAIN bundle.events}

UsageChain(bundle, r) ==
    LET rows == UsageRows(bundle, r)
    IN  [e \in {row[1] : row \in rows} |-> {row[2] : row \in {row \in rows : row[1] = e}}]

At_As(chain, usages) == {e \in DOMAIN chain : chain[e] \cap usages # {}}

\* What the chain rules judge: a texture or a buffer with a row that is not the lone Unused one.
UsageJudged(bundle) ==
    {r \in DOMAIN Inventory : /\ Inventory[r].kind \in {"texture", "buffer"}
                         /\ UsageRows(bundle, r) # {}
                         /\ LET chain == UsageChain(bundle, r) IN Cardinality(DOMAIN chain) > 1 \/ Range(chain) # {{"Unused"}}}

DetectDeadAllocations(bundle) ==
    LET dead == {r \in DOMAIN Inventory : /\ Inventory[r].kind \in {"texture", "buffer"}
                                     /\ \A row \in UsageRows(bundle, r) : row[2] = "Unused"}
        largest == HeaviestFirst([r \in dead |-> Inventory[r].bytes])
        shown == Min({AllocationLimit, Len(largest)})
    IN  {Flag("dead-allocation", "never used", largest[i], <<{<<"res", largest[i]>>}>>, "certain") : i \in 1..shown}
          \cup (IF Len(largest) = shown THEN {}
                ELSE {Flag("dead-allocation", "not listed", <<>>, <<{<<"unused", Len(largest)>>}>>, "certain")})

DetectReadBeforeWrite(bundle) ==
    LET chain == [r \in UsageJudged(bundle) |-> UsageChain(bundle, r)]
        reads(r) == At_As(chain[r], UsageReads)
        found == {r \in DOMAIN chain : reads(r) # {} /\ \A w \in At_As(chain[r], UsageWrites) : w > Min(reads(r))}
    IN  Grouped("read-before-write", "first use is a read",
                [r \in found |-> <<Inventory[r].kind, chain[r][Min(reads(r))] \cap UsageReads>>], "res", "question")

DetectWriteNeverRead(bundle) ==
    LET chain == [r \in UsageJudged(bundle) |-> UsageChain(bundle, r)]
        writes(r) == At_As(chain[r], UsageWrites)
        found == {r \in DOMAIN chain : writes(r) # {} /\ \A e \in At_As(chain[r], UsageReads) : e <= Max(writes(r))}
    IN  Grouped("write-never-read", "last write",
                [r \in found |-> chain[r][Max(writes(r))] \cap UsageWrites], "res", "question")

DetectLoadInsteadOfClear(bundle) ==
    LET chain == [r \in UsageJudged(bundle) |-> UsageChain(bundle, r)]
        targets(r) == At_As(chain[r], UsageTargets)
        found == {r \in DOMAIN chain : targets(r) # {} /\ \A w \in At_As(chain[r], UsageWrites) : w >= Min(targets(r))}
    IN  Grouped("load-instead-of-clear", "first target use", [r \in found |-> r], "res", "question")

\* A compute pass's UAVs that nothing after the pass reads; what reads them inside it does not count.
DetectDeadCompute(bundle, structure) ==
    LET chain == [r \in UsageJudged(bundle) |-> UsageChain(bundle, r)]
        dead(p) == {r \in DOMAIN chain :
                      /\ \E e \in At_As(chain[r], {"CS_RWResource"}) : EventId(structure[p].first) <= e /\ e <= EventId(structure[p].last)
                      /\ \A e \in At_As(chain[r], UsageReads) : e <= EventId(structure[p].last)}
    IN  {Flag("dead-compute", "nothing after reads", p, Listed(LinesOf("res", dead(p))), "question") :
            p \in {p \in DOMAIN structure : structure[p].kind = "compute" /\ dead(p) # {}}}

DetectMismatchedMsaa(bundle) ==
    LET chain == [r \in UsageJudged(bundle) |-> UsageChain(bundle, r)]
    IN  OneFlag("mismatched-msaa", "never resolved",
                {r \in DOMAIN chain : /\ Inventory[r].kind = "texture" /\ Inventory[r].samples > 1
                                      /\ At_As(chain[r], {"ColorTarget"}) # {}
                                      /\ At_As(chain[r], {"Resolve", "ResolveSrc", "ResolveDst"}) = {}},
                "res", "question")

(***************************************************************************)
(* The bundle's own documents.                                             *)
(***************************************************************************)
Documented_(bundle) == {i \in DOMAIN bundle.events : bundle.events[i].doc.there}
DocOf(bundle, i) == bundle.events[i].doc

\* Messages are <<severity, text, event>>: one finding per distinct complaint.
DetectMessages(bundle) ==
    {Flag("debug-message", m[2], m[1], LinesOf("eid", {n[3] : n \in {n \in bundle.messages : n[1] = m[1] /\ n[2] = m[2]}}),
          "certain") : m \in bundle.messages}

\* All zero: some value is zero and none is not; a row that is no number says nothing.
ZeroSides(values) == "zero" \in values /\ "value" \notin values

DetectZeroConstantBlocks(bundle) ==
    LET dumped == UNION {{<<i, b>> : b \in DOMAIN DocOf(bundle, i).blocks} : i \in Documented_(bundle)}
        block(d) == DocOf(bundle, d[1]).blocks[d[2]]
        zero == {d \in dumped : ZeroSides(block(d).values)}
        key(d) == <<d[2], block(d).buffer>>
    IN  {Flag("all-zero-constant-block", IF k[2] = None THEN "no root descriptor" ELSE "every value zero", k,
              <<{<<"eid", Min({d[1] : d \in {d \in zero : key(d) = k}})>>, <<"res", k[2]>>}>>, "certain") :
            k \in {key(d) : d \in zero}}

(***************************************************************************)
(* Bindings.  A document's root parameters are [vis, reg, set], its table  *)
(* rows [letter, reg, param, type, res], a stage's declarations            *)
(* <<letter, reg>>; a parameter the document does not list is visible to   *)
(* every stage.                                                            *)
(***************************************************************************)
CategoryForType == [none |-> 0, cbv |-> 1, sampler |-> 2, image |-> 3, buffer |-> 3, rwimage |-> 4, rwbuffer |-> 4]
CategoryForLetter == [b |-> 1, s |-> 2, t |-> 3, u |-> 4]
AnyStage == {}

SlotsVisibleTo(doc, stage, d) ==
    {row \in doc.tables : /\ row.letter = d[1] /\ row.reg = d[2]
                          /\ row.param \in DOMAIN doc.params =>
                                doc.params[row.param].vis = AnyStage \/ stage \in doc.params[row.param].vis}

\* The declarations of the stages of every documented event: <<event, stage, declaration>>.
DeclaredBindings(bundle) ==
    UNION {UNION {{<<i, s, d>> : d \in DocOf(bundle, i).shaders[s].declared} : s \in DOMAIN DocOf(bundle, i).shaders} :
              i \in Documented_(bundle)}

ByBinding(detector, what, found, certainty) ==
    {Flag(detector, what, k, LinesOf("eid", {f[1] : f \in {f \in found : <<f[2], f[3]>> = k}}), certainty) :
        k \in {<<f[2], f[3]>> : f \in found}}

\* A register two parameters name is judged by the last of them.
DetectUnboundRootParameters(bundle) ==
    LET unset(i, reg) ==
            LET here_ == {p \in DOMAIN DocOf(bundle, i).params : DocOf(bundle, i).params[p].reg = reg}
            IN  here_ # {} /\ ~DocOf(bundle, i).params[Max(here_)].set
    IN  ByBinding("unbound-root-parameter", "root parameter not set",
                  {f \in DeclaredBindings(bundle) : f[3][1] = "b" /\ unset(f[1], f[3][2])}, "question")

DetectUnboundTableSlots(bundle) ==
    ByBinding("unbound-table-slot", "resolves to nothing",
              {f \in DeclaredBindings(bundle) :
                  LET rows == SlotsVisibleTo(DocOf(bundle, f[1]), f[2], f[3])
                  IN  rows # {} /\ \A row \in rows : row.res = None}, "certain")

DetectBindingKindMismatch(bundle) ==
    ByBinding("binding-kind-mismatch", "disagree",
              {f \in DeclaredBindings(bundle) :
                  \E row \in SlotsVisibleTo(DocOf(bundle, f[1]), f[2], f[3]) :
                      /\ row.res # None
                      /\ CategoryForType[row.type] \notin {0, CategoryForLetter[row.letter]}}, "certain")

\* Semantics are [name, base, index, count]; `base` is the name without its last suffix, "" when it has none.
SemanticMatches(p, c) == p.index = c.index /\ (p.name = c.name \/ p.base = c.name \/ c.base = p.name)

BySemantic(what, found) ==
    {Flag("shader-io-mismatch", what, c, LinesOf("eid", {f[1] : f \in {f \in found : f[2] = c}}), "certain") :
        c \in {f[2] : f \in found}}

DetectShaderIoMismatch(bundle) ==
    LET judged == {i \in Documented_(bundle) : /\ {"vs", "ps"} \subseteq DOMAIN DocOf(bundle, i).shaders
                                               /\ DOMAIN DocOf(bundle, i).shaders \cap {"gs", "hs", "ds"} = {}}
        made(i, c) == SelectSeq(DocOf(bundle, i).shaders["vs"].outputs, LAMBDA p : SemanticMatches(p, c))
        exact(i, c) == SelectSeq(made(i, c), LAMBDA p : p.name = c.name)
        match(i, c) == IF exact(i, c) # <<>> THEN exact(i, c)[1] ELSE made(i, c)[1]
        read == UNION {{<<i, c>> : c \in Range(DocOf(bundle, i).shaders["ps"].inputs)} : i \in judged}
        missing == {f \in read : made(f[1], f[2]) = <<>>}
        narrow == {f \in read \ missing : match(f[1], f[2]).count < f[2].count}
    IN  BySemantic("does not emit it", missing) \cup BySemantic("at width", narrow)
=============================================================================
