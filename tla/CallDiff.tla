------------------------------ MODULE CallDiff ------------------------------
(***************************************************************************)
(* rdc_filediff: two captures compared by the calls their streams record.  *)
(* Ids are one session's numbering, so a call is compared by what its      *)
(* bindings are; paths pair as rdc_passdiff's do, and inside a paired path *)
(* the k-th call of a name with the k-th.                                  *)
(***************************************************************************)
EXTENDS Frame, Alignment

CONSTANTS Shape,        \* resource -> its name, or its kind and shape when it has none
          Snippets      \* the pieces a stream is made of: sequences of chunks

ASSUME DiffAssumption == \A s \in Snippets : s \in Seq(Range(s))

VARIABLES sideA, sideB  \* the chunks of the two streams

diffVars == <<sideA, sideB>>

NoMarker == <<>>        \* the path of a call under no marker

\* A description is a tuple, the empty one for nothing bound.
Described(r) == IF r \in DOMAIN Shape THEN <<Shape[r]>> ELSE <<"not in the resource table">>

(***************************************************************************)
(* The bindings of one call, by what the signature says each slot is.  A   *)
(* draw always has its targets, empty or not; a dispatch has none.         *)
(***************************************************************************)
Slot(sig, rp) ==
    IF rp \in DOMAIN ParamsOf(sig) THEN <<"slot", ParamsOf(sig)[rp]>> ELSE <<"no signature decoded", rp>>

KindOrder == <<"cbv", "srv", "uav", "table">>

Value(slots, kind, value) ==
    IF kind # "table" THEN Described(value)
    ELSE IF value \notin DOMAIN slots THEN <<"unwritten slot">>
    ELSE IF slots[value].kind = "sampler" THEN <<"sampler">>
    ELSE <<slots[value].kind>> \o Described(slots[value].res)

\* The roots of the call's namespace in the order they are written: the last of one slot stays.
RootBindings(st, ns, slots) ==
    LET roots == {a \in DOMAIN st.args : a[1] = ns}
        order(a) == <<CHOOSE k \in DOMAIN KindOrder : KindOrder[k] = a[2], a[3]>>
        later(a, b) == order(a)[1] > order(b)[1] \/ (order(a)[1] = order(b)[1] /\ a[3] >= b[3])
        last(key) == CHOOSE a \in roots : /\ Slot(st.sig[ns], a[3]) = key
                                          /\ \A b \in roots : Slot(st.sig[ns], b[3]) = key => later(a, b)
    IN  [key \in {Slot(st.sig[ns], a[3]) : a \in roots} |-> Value(slots, last(key)[2], st.args[last(key)])]

(***************************************************************************)
(* Render targets are a set: two frames that set the same targets in       *)
(* another order, which the code tells apart, are not.  A vertex buffer is *)
(* its resource, so its size and stride never differ here by themselves.   *)
(***************************************************************************)
DrawBindings(st) ==
    <<"RTV">> :> (IF st.rtv = {} THEN <<>> ELSE <<{Described(r) : r \in st.rtv}>>)
      @@ <<"DSV">> :> (IF st.dsv = None THEN <<>> ELSE Described(st.dsv))
      @@ [key \in {<<"VB", slot>> : slot \in DOMAIN st.vbs} |-> Described(st.vbs[key[2]])]
      @@ (IF st.ib = None THEN Empty ELSE <<"IB">> :> Described(st.ib))
      @@ (IF st.pso = None THEN Empty ELSE <<"PSO">> :> <<"bound">>)

CallBindings(st, ns, slots) ==
    (IF st.sig[ns] \in DOMAIN Layout THEN <<"rootsig">> :> <<Len(Layout[st.sig[ns]])>> ELSE Empty)
      @@ RootBindings(st, ns, slots)
      @@ (IF ns = "comp" THEN Empty ELSE DrawBindings(st))

(***************************************************************************)
(* One walk of a stream.  The descriptors are those the whole stream       *)
(* leaves; the setters of a call are its list's since its previous call.   *)
(***************************************************************************)
HeapsOf(chunks) ==
    FoldLeft(LAMBDA slots, c : IF c.op \in {"view", "viewcopy"} THEN Written(slots, c) ELSE slots, Empty, chunks)

ValueOr(f, key, default) == IF key \in DOMAIN f THEN f[key] ELSE default

\* A call takes the setters its list has gathered.
TakenByNone(pending, list) == pending
Taken(pending, list) == Put(pending, list, <<>>)

Recorded(acc, c, slots) ==
    LET nth == Cardinality({i \in DOMAIN acc.records : acc.records[i].path = acc.stack /\ acc.records[i].call = c.call}) + 1
        ns  == IF c.call = "dispatch" THEN "comp" ELSE "gfx"
    IN  [acc EXCEPT !.pending = Taken(@, c.list),
                    !.records = Append(@, [path |-> acc.stack, call |-> c.call, ordinal |-> nth, args |-> c.args,
                                           setters |-> ValueOr(acc.pending, c.list, <<>>),
                                           bindings |-> IF c.list \in DOMAIN acc.states
                                                        THEN CallBindings(acc.states[c.list], ns, slots) ELSE Empty])]

SetsState(c) == c.op \in Setters \cup {"reset"}

Gathered(acc, c) ==
    [acc EXCEPT !.states = Put(@, c.list, Applied(ValueOr(@, c.list, Fresh), c)),
                !.pending = Put(@, c.list, Append(ValueOr(@, c.list, <<>>), c.op))]

Walked(acc, c, slots) ==
    IF c.op = "push" THEN [acc EXCEPT !.stack = Append(@, c.name)]
    ELSE IF c.op = "pop" THEN [acc EXCEPT !.stack = IF @ = <<>> THEN @ ELSE Front(@)]
    ELSE IF c.op = "draw" THEN Recorded(acc, c, slots)
    ELSE IF SetsState(c) THEN Gathered(acc, c) ELSE acc

CallRecords(chunks) ==
    LET slots == HeapsOf(chunks)
    IN  FoldLeft(LAMBDA acc, c : Walked(acc, c, slots),
                 [stack |-> <<>>, states |-> Empty, pending |-> Empty, records |-> <<>>], chunks).records

(***************************************************************************)
(* The comparison.                                                         *)
(***************************************************************************)
FirstsOf(paths) ==      \* each path once, in the order they first occur
    FoldLeft(LAMBDA done, p : IF p \in Range(done) THEN done ELSE Append(done, p), <<>>, paths)

Innermost(path) == IF path = NoMarker THEN NoMarker ELSE <<path[Len(path)]>>

AlignPaths(pa, pb) ==
    LET names(paths) == [i \in DOMAIN paths |-> Innermost(paths[i])]
    IN  PairBy(names(pa), names(pb), PairBy(pa, pb, {}))

\* A key one side lacks compares equal to an empty one.
Differences(one, two) ==
    (IF one.args # two.args THEN {<<"args">>} ELSE {})
      \cup (IF one.setters # two.setters THEN {<<"setters">>} ELSE {})
      \cup {key \in DOMAIN one.bindings \cup DOMAIN two.bindings :
                ValueOr(one.bindings, key, <<>>) # ValueOr(two.bindings, key, <<>>)}

\* Which call of its name a call is, under its path.
Nth(records, i) == Cardinality({k \in 1..i : records[k].path = records[i].path /\ records[k].call = records[i].call})

AlignCalls(a, b) ==
    LET pa == FirstsOf([i \in DOMAIN a |-> a[i].path])
        pb == FirstsOf([j \in DOMAIN b |-> b[j].path])
        meets(p, q) == \E pair \in AlignPaths(pa, pb) : pa[pair[1]] = p /\ pb[pair[2]] = q
        paired == {p \in (DOMAIN a) \X (DOMAIN b) :
                      /\ meets(a[p[1]].path, b[p[2]].path)
                      /\ a[p[1]].call = b[p[2]].call /\ Nth(a, p[1]) = Nth(b, p[2])}
        row(status, i, j, fields) == [status |-> status, a |-> i, b |-> j, fields |-> fields]
        both(p) == LET found == Differences(a[p[1]], b[p[2]])
                   IN  row(IF found = {} THEN "same" ELSE "changed", p[1], p[2], found)
    IN  {both(p) : p \in paired}
          \cup {row("only A", i, 0, {}) : i \in {i \in DOMAIN a : \A p \in paired : p[1] # i}}
          \cup {row("only B", 0, j, {}) : j \in {j \in DOMAIN b : \A p \in paired : p[2] # j}}

\* diff: refused when a stream's framing is damaged or no chunk has a name, else 0 whatever differs.
CmdFileDiff(damaged, named) == IF damaged \/ ~named THEN 1 ELSE 0

DiffInit == sideA = <<>> /\ sideB = <<>>
DiffNext ==
    \/ \E s \in Snippets : sideA' = sideA \o s /\ UNCHANGED sideB
    \/ \E s \in Snippets : sideB' = sideB \o s /\ UNCHANGED sideA

DiffSpec == DiffInit /\ [][DiffNext]_diffVars

(***************************************************************************)
(* What the stream says happened on a list between two of its calls.       *)
(***************************************************************************)
Calls(chunks, at) == {i \in 1..at : chunks[i].op = "draw"}

\* The state chunks of a list in the first `at` with no call of the list after them.
SetSince(chunks, list, at) ==
    {i \in 1..at : /\ SetsState(chunks[i]) /\ chunks[i].list = list
                   /\ \A j \in (i + 1)..at : ~(chunks[j].op = "draw" /\ chunks[j].list = list)}

\* What these chunks did, in their order.
AreOps(ops, chunks, positions) ==
    /\ Len(ops) = Cardinality(positions)
    /\ \A i \in positions : ops[Cardinality({j \in positions : j <= i})] = chunks[i].op

OtherSide(status) ==
    IF status = "only A" THEN "only B" ELSE IF status = "only B" THEN "only A" ELSE status

(***************************************************************************)
(* The comparison of two streams accounts for every call of both in one    *)
(* row and counts it once; the setters a call is compared by are those of  *)
(* its own list since that list's previous call, in their order; calls     *)
(* paired are the same one of their name; a stream differs from itself     *)
(* nowhere, and comparing the other way round tells the same               *)
(* (rdc_filediff.py:345).                                                  *)
(***************************************************************************)
DiffAccountsForEveryCall ==
    LET a == CallRecords(sideA)
        b == CallRecords(sideB)
        rows == AlignCalls(a, b)
        mirrored == {[status |-> OtherSide(r.status), a |-> r.b, b |-> r.a, fields |-> r.fields] : r \in rows}
    IN  /\ \A i \in DOMAIN a : Cardinality({r \in rows : r.a = i}) = 1
        /\ \A j \in DOMAIN b : Cardinality({r \in rows : r.b = j}) = 1
        /\ \A r \in rows : r.a # 0 /\ r.b # 0 => a[r.a].ordinal = b[r.b].ordinal
        /\ Len(a) = Cardinality(Calls(sideA, Len(sideA)))
        /\ \A at \in Calls(sideA, Len(sideA)) :
              AreOps(a[Cardinality(Calls(sideA, at))].setters, sideA, SetSince(sideA, sideA[at].list, at - 1))
        /\ mirrored = AlignCalls(b, a)
        /\ \A r \in AlignCalls(a, a) : r.status = "same" /\ r.a = r.b
=============================================================================
