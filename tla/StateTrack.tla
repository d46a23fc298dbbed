----------------------------- MODULE StateTrack -----------------------------
(***************************************************************************)
(* rdc_hazards: the state each command list leaves each resource in, by    *)
(* the transitions it records, and the uses no permitted promotion         *)
(* explains; the events that bind one resource two ways at once.  A state  *)
(* word is the set of its bits; Common is the empty set.                   *)
(***************************************************************************)
EXTENDS Ledger

CONSTANT Textures       \* the resources with more than one subresource

VARIABLES track,        \* <<list, resource>> -> its transitions: [eid, sub, after]
          listOf,       \* event -> the list it is recorded in
          ambiguous,    \* resources whose subresource and whole claims disagree
          loops         \* the events that bind a resource two ways

trackVars == <<track, listOf, ambiguous, loops>>

All == 9                \* D3D12_RESOURCE_BARRIER_ALL_SUBRESOURCES
WholeResource == {0, All}

StateForUse ==
    [vb |-> {"VertexAndConstantBuffer"}, cbv |-> {"VertexAndConstantBuffer"}, ib |-> {"IndexBuffer"},
     srv |-> {"NonPixelShaderResource", "PixelShaderResource"}, uav |-> {"UnorderedAccess"}, rtv |-> {"RenderTarget"},
     dsv |-> {"DepthWrite", "DepthRead"}]
  @@ ("copy-dst" :> {"CopyDest"} @@ "copy-src" :> {"CopySource"}
      @@ "resolve-dst" :> {"ResolveDest"} @@ "resolve-src" :> {"ResolveSource"})

ReadUses == {"vb", "cbv", "ib", "srv", "copy-src", "resolve-src"}

\* A clear needs the state its own call asks for.
ClearStates == [rtv |-> {"RenderTarget"}, dsv |-> {"DepthWrite"}, uav |-> {"UnorderedAccess"}]
Needed(u) == IF u.how = "clear" THEN ClearStates[stream[u.eid].as] ELSE StateForUse[u.how]

\* Permitted: Common, a bit the use needs, or a read in a state that only reads.
Permitted(u, state) ==
    \/ state = {}
    \/ state \cap Needed(u) # {}
    \/ u.how \in ReadUses /\ state \cap StateWrites = {}

(***************************************************************************)
(* One chunk of the state walk.  Subresource 0 is taken for the whole      *)
(* resource, and a claim that disagrees with an earlier one of the other   *)
(* kind, in the same list, makes the resource ambiguous.                   *)
(***************************************************************************)
Rows(list, r) == IF <<list, r>> \in DOMAIN track THEN track[<<list, r>>] ELSE <<>>

Claim(c) ==
    LET sub == IF c.sub \in WholeResource THEN All ELSE c.sub
        other(row) == IF sub = All THEN row.sub # All ELSE row.sub = All
    IN  /\ track' = Put(track, <<c.list, c.res>>,
                        Append(Rows(c.list, c.res), [eid |-> Now, sub |-> sub, after |-> c.after]))
        /\ ambiguous' = ambiguous \cup
              IF \E row \in Range(Rows(c.list, c.res)) : other(row) /\ row.after # c.after
              THEN {c.res} ELSE {}

TrackStates(c) ==
    /\ listOf' = Put(listOf, Now, c.list)
    /\ IF c.op = "barrier" /\ c.form # "alias" /\ c.res # None
       THEN Claim(c) ELSE UNCHANGED <<track, ambiguous>>

StateAtOfAnyList(r, list, eid) ==
    LET whole == {row \in UNION {Range(Rows(l, r)) : l \in Lists} : row.sub = All /\ row.eid < eid}
    IN  {row.after : row \in {row \in whole : \A other \in whole : other.eid <= row.eid}}

\* The last whole transition of this list before the event: the set of at most one state.
StateAt(r, list, eid) ==
    LET whole == {i \in 1..Len(Rows(list, r)) : Rows(list, r)[i].sub = All /\ Rows(list, r)[i].eid < eid}
    IN  {Rows(list, r)[i].after : i \in {i \in whole : \A j \in whole : j <= i}}

LoopsAtTargetsAlways(c) ==
    LET st    == states[c.list]
        views == ViewsOf(st, IF c.call = "dispatch" THEN "comp" ELSE "gfx")
    IN  IF c.list \notin DOMAIN states THEN {}
        ELSE {[res |-> v[1], eid |-> Now, certain |-> TRUE] : v \in {v \in views : v[1] \in st.rtv \cup {st.dsv}}}
               \cup {[res |-> v[1], eid |-> Now, certain |-> FALSE] :
                        v \in {v \in views : /\ v[1] \notin st.rtv \cup {st.dsv}
                                             /\ {<<v[1], "srv">>, <<v[1], "uav">>} \subseteq views}}

(***************************************************************************)
(* Two views of one resource at one event; targets are a graphics question.*)
(***************************************************************************)
LoopsAt(c) ==
    LET ns      == IF c.call = "dispatch" THEN "comp" ELSE "gfx"
        st      == states[c.list]
        views   == ViewsOf(st, ns)
        targets == IF ns = "comp" THEN {} ELSE st.rtv \cup ({st.dsv} \ {None})
        found   == {v[1] : v \in views}
    IN  IF c.list \notin DOMAIN states THEN {}
        ELSE {[res |-> r, eid |-> Now, certain |-> TRUE] : r \in found \cap targets}
               \cup {[res |-> r, eid |-> Now, certain |-> FALSE] :
                        r \in {r \in found \ targets : {<<r, "srv">>, <<r, "uav">>} \subseteq views}}

ScanLoops(c) == loops' = IF c.op = "draw" THEN loops \cup LoopsAt(c) ELSE loops

StateTrackInit == track = Empty /\ listOf = Empty /\ ambiguous = {} /\ loops = {}

(***************************************************************************)
(* What is reported when the walk ends.                                    *)
(***************************************************************************)
Checked == {u \in AllUses : u.how \notin {"barrier", "discard"} /\ u.res \notin ambiguous}

StateOfUse(u) == IF u.eid \in DOMAIN listOf THEN StateAt(u.res, listOf[u.eid], u.eid) ELSE {}

UnknownUses == {u \in Checked : StateOfUse(u) = {}}

Findings == {u \in Checked : \E state \in StateOfUse(u) : ~Permitted(u, state)}

\* cmd_hazards: the gate fails on what is certain.
HazardExit == IF Findings # {} \/ \E l \in loops : l.certain THEN 1 ELSE 0

(***************************************************************************)
(* What the list's barriers say of one subresource before an event: the    *)
(* last one that names it, or all of them.                                 *)
(***************************************************************************)
SubstateAt(r, list, sub, eid) ==
    LET told == {i \in 1..(eid - 1) : /\ stream[i].op = "barrier" /\ stream[i].form # "alias"
                                      /\ stream[i].list = list /\ stream[i].res = r
                                      /\ stream[i].sub \in {sub, All}}
    IN  {stream[i].after : i \in {i \in told : \A j \in told : j <= i}}

(***************************************************************************)
(* A finding is a use no state explains: whichever subresource the view    *)
(* was of, the barriers its own list recorded before it left that          *)
(* subresource in a state that does not permit the use.  What one list     *)
(* says never convicts a use in another (rdc_hazards.py:252).  A texture   *)
(* whose subresource 0 alone was transitioned is excepted: the walk takes  *)
(* 0 for the whole resource, which only a buffer bears out.                *)
(***************************************************************************)
Subresources(r) == IF r \in Textures THEN 0..1 ELSE {0}

NamedApart(r) == \A c \in Range(stream) : c.op = "barrier" /\ c.form # "alias" /\ c.res = r => c.sub # 0

FindingsHaveNoExcuse ==
    \A u \in {u \in Findings : u.res \in Textures => NamedApart(u.res)} :
        \A sub \in Subresources(u.res) :
            \A state \in SubstateAt(u.res, stream[u.eid].list, sub, u.eid) : ~Permitted(u, state)

(***************************************************************************)
(* A loop is reported exactly at the events whose bindings, traced back to *)
(* the chunks that set them, reach a target (or read and write one         *)
(* resource), with each descriptor slot as it was at that event and not as *)
(* a later view or copy left it (rdc_hazards.py:359).                      *)
(***************************************************************************)
SlotAt(slot, at) ==
    LET held[k \in 0..Len(stream)] == [s \in {stream[i].slot : i \in {i \in 1..Len(stream) :
                                                stream[i].op \in {"view", "viewcopy"}}} \cup {slot} |->
            IF k = 0 THEN <<>>
            ELSE IF stream[k].op = "view" /\ stream[k].slot = s THEN <<stream[k].kind, stream[k].res>>
            ELSE IF stream[k].op = "viewcopy" /\ stream[k].slot = s
                 THEN LET from == IF stream[k].from \in DOMAIN held[k - 1] THEN held[k - 1][stream[k].from] ELSE <<>>
                      IN  IF from = <<>> THEN held[k - 1][s] ELSE from
            ELSE held[k - 1][s]]
    IN  held[at - 1][slot]

ReachedAt(list, ns, at) ==
    LET bound == {i \in 1..(at - 1) : /\ stream[i].op = "root" /\ stream[i].list = list /\ stream[i].ns = ns
                                      /\ InForce(i, at)}
        param(i) == ParamsOf(SignatureAt(list, ns, at))
        slots(i) == IF stream[i].rp \in 1..Len(param(i)) /\ param(i)[stream[i].rp].kind = "table"
                    THEN {f.slot : f \in TableSlots(param(i)[stream[i].rp].ranges, stream[i].value[1], stream[i].value[2])}
                    ELSE {}
        read(s) == SlotAt(s, at)
    IN  {<<stream[i].kind, stream[i].value>> : i \in {i \in bound : stream[i].kind # "table"}}
          \cup {read(s) : s \in {s \in UNION {slots(i) : i \in {i \in bound : stream[i].kind = "table"}} :
                                     read(s) # <<>> /\ read(s)[1] \in {"srv", "uav"}}}

TargetsAt(list, at) ==
    LET sets == {i \in 1..(at - 1) : stream[i].op \in {"targets", "reset"} /\ stream[i].list = list}
        last == CHOOSE i \in sets : \A j \in sets : j <= i
    IN  IF sets = {} \/ stream[last].op = "reset" THEN {} ELSE (stream[last].rtv \cup {stream[last].dsv}) \ {None}

LoopsAreAsOfTheDraw ==
    \A at \in 1..Len(stream) : stream[at].op = "draw" =>
        LET ns == IF stream[at].call = "dispatch" THEN "comp" ELSE "gfx"
            views == ReachedAt(stream[at].list, ns, at)
            targets == IF ns = "comp" THEN {} ELSE TargetsAt(stream[at].list, at)
        IN  \A r \in Resources \ {None} :
               /\ ([res |-> r, eid |-> at, certain |-> TRUE] \in loops
                      <=> r \in targets /\ \E v \in views : v[2] = r)
               /\ ([res |-> r, eid |-> at, certain |-> FALSE] \in loops
                      <=> r \notin targets /\ {<<"srv", r>>, <<"uav", r>>} \subseteq views)
=============================================================================
