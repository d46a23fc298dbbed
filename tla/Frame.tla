------------------------------- MODULE Frame -------------------------------
(***************************************************************************)
(* The chunk stream of one captured frame and the state every offline      *)
(* reader keeps while it walks it: what each command list has bound        *)
(* (rdc_payloads._apply_state_chunk), what each descriptor slot holds      *)
(* (rdc_resources.apply_descriptor_chunk), which resources the frame       *)
(* created.  A chunk is a record whose `op` is its kind and whose other    *)
(* fields are what the walk reads of its payload; its event id is its      *)
(* position in `stream`.  The modules that extend this one read the same   *)
(* chunk in the same step, as their walks do.                              *)
(***************************************************************************)
EXTENDS Integers, Sequences, FiniteSets, Functions, SequencesExt

CONSTANTS Lists,        \* the command lists
          Resources,    \* the resource ids; 0 is the NULL binding
          Layout        \* signature -> its parameters, in order

ASSUME FrameAssumption == Resources \in SUBSET Nat /\ 0 \in Resources

VARIABLES stream,       \* the chunks walked so far
          states,       \* list -> what it has bound
          heaps,        \* <<heap, index>> -> the descriptor written there
          created       \* resource -> its creation chunk's facts

frameVars == <<stream, states, heaps, created>>

None == 0               \* a NULL id, an empty target, no signature
Empty == <<>>           \* the function with the empty domain
Append_ == -1           \* D3D12_DESCRIPTOR_RANGE_OFFSET_APPEND
Unbounded == -1         \* a range without a count

Put(f, key, value) == [k \in DOMAIN f \cup {key} |-> IF k = key THEN value ELSE f[k]]

Now == Len(stream) + 1  \* the event id of the chunk being read

Namespaces == {"gfx", "comp"}
RootKinds == {"cbv", "srv", "uav", "table"}
ViewKinds == {"cbv", "srv", "uav", "rtv", "dsv", "sampler"}
Slots_ == Nat \X Nat     \* <<heap, index>>

(***************************************************************************)
(* Command-list state.  `args` holds the root arguments by namespace, kind *)
(* and parameter: a resource, or <<heap, base>> for a table.               *)
(***************************************************************************)
Fresh == [sig |-> [ns \in Namespaces |-> None], args |-> Empty, vbs |-> Empty,
          ib |-> None, rtv |-> {}, dsv |-> None, pso |-> None]

StateOf(list) == IF list \in DOMAIN states THEN states[list] ELSE Fresh

SetSignatureAlwaysDrops(st, c) ==
    [st EXCEPT !.sig[c.ns] = c.sig, !.args = [a \in {k \in DOMAIN @ : k[1] # c.ns} |-> @[a]]]

\* A changed signature makes every root argument of its namespace stale.
SetSignature(st, c) ==
    IF st.sig[c.ns] = c.sig THEN st
    ELSE [st EXCEPT !.sig[c.ns] = c.sig,
                    !.args = [a \in {k \in DOMAIN @ : k[1] # c.ns} |-> @[a]]]

SetRoot(st, c) == [st EXCEPT !.args = Put(@, <<c.ns, c.kind, c.rp>>, c.value)]

SetInput(st, c) ==
    IF c.op = "ib" THEN [st EXCEPT !.ib = c.res]
                   ELSE [st EXCEPT !.vbs = Put(@, c.slot, c.res)]

SetTargets(st, c) == [st EXCEPT !.rtv = c.rtv, !.dsv = c.dsv]

Setters == {"sig", "root", "vb", "ib", "targets", "pso"}

\* One state chunk, on the state of the list it names.  Reset starts over.
Applied(st, c) ==
    CASE c.op = "reset"   -> [Fresh EXCEPT !.pso = c.pso]
      [] c.op = "sig"     -> SetSignature(st, c)
      [] c.op = "root"    -> SetRoot(st, c)
      [] c.op \in {"vb", "ib"} -> SetInput(st, c)
      [] c.op = "targets" -> SetTargets(st, c)
      [] c.op = "pso"     -> [st EXCEPT !.pso = c.pso]

Reset(c) == c.op = "reset" /\ states' = Put(states, c.list, Applied(StateOf(c.list), c))
SetState(c) == c.op \in Setters /\ states' = Put(states, c.list, Applied(StateOf(c.list), c))

\* A descriptor write, or a copy, which reads its source as it is now; an unwritten one copies nothing.
Written(slots, c) ==
    IF c.op = "view" THEN Put(slots, c.slot, [kind |-> c.kind, res |-> c.res])
    ELSE IF c.from \in DOMAIN slots THEN Put(slots, c.slot, slots[c.from]) ELSE slots

Describe(c) == c.op \in {"view", "viewcopy"} /\ heaps' = Written(heaps, c)

\* A resource is created once, before anything can name it.
Create(c) ==
    /\ c.op = "create" /\ c.res \notin DOMAIN created
    /\ created' = Put(created, c.res, [eid |-> Now, placed |-> c.placed, heap |-> c.heap,
                                       offset |-> c.offset, size |-> c.size])

(***************************************************************************)
(* The slots the ranges of a table cover: a range that appends starts      *)
(* where the one before it ended, an unbounded one cannot be walked.       *)
(***************************************************************************)
RangeStart(ranges, i) ==
    LET start[k \in 1..Len(ranges)] ==
            IF ranges[k].offset # Append_ THEN ranges[k].offset
            ELSE IF k = 1 THEN 0
            ELSE start[k - 1] + (IF ranges[k - 1].count = Unbounded THEN 0 ELSE ranges[k - 1].count)
    IN  start[i]

TableSlots(ranges, heap, base) ==
    UNION {{[slot |-> <<heap, base + RangeStart(ranges, i) + k>>, declared |-> ranges[i].kind]
                : k \in 0..(ranges[i].count - 1)} : i \in 1..Len(ranges)}

ParamsOf(sig) == IF sig \in DOMAIN Layout THEN Layout[sig] ELSE <<>>

\* rdc_hazards._views_of_event: what the bindings of a draw reach, in the heaps as they are now.
ViewsOf(st, ns) ==
    LET tables == {a \in DOMAIN st.args : a[1] = ns /\ a[2] = "table"}
        roots  == {a \in DOMAIN st.args : a[1] = ns /\ a[2] # "table" /\ st.args[a] # None}
        params == ParamsOf(st.sig[ns])
        slots(a) == IF a[3] \in 1..Len(params) /\ params[a[3]].kind = "table"
                    THEN {f.slot : f \in TableSlots(params[a[3]].ranges, st.args[a][1], st.args[a][2])}
                    ELSE {}
    IN  {<<st.args[a], a[2]>> : a \in roots}
          \cup {<<heaps[s].res, heaps[s].kind>> :
                    s \in {s \in UNION {slots(a) : a \in tables} :
                              /\ s \in DOMAIN heaps
                              /\ heaps[s].kind \in {"srv", "uav"} /\ heaps[s].res # None}}

FrameInit == stream = <<>> /\ states = Empty /\ heaps = Empty /\ created = Empty

(***************************************************************************)
(* What the stream itself says, for the properties: which chunk set a root *)
(* argument that is still in force at event `at`.                          *)
(***************************************************************************)
SignatureAt(list, ns, at) ==
    LET sets == {i \in 1..(at - 1) : /\ stream[i].op \in {"sig", "reset"} /\ stream[i].list = list
                                     /\ stream[i].op = "sig" => stream[i].ns = ns}
        last == CHOOSE i \in sets : \A j \in sets : j <= i
    IN  IF sets = {} \/ stream[last].op = "reset" THEN None ELSE stream[last].sig

InForce(i, at) ==
    /\ stream[i].op = "root"
    /\ \A j \in (i + 1)..(at - 1) :
          /\ stream[j].op = "reset" => stream[j].list # stream[i].list
          /\ stream[j].op = "sig" /\ stream[j].list = stream[i].list /\ stream[j].ns = stream[i].ns
                => stream[j].sig = SignatureAt(stream[i].list, stream[i].ns, j)
          /\ stream[j].op = "root" /\ stream[j].list = stream[i].list
                => <<stream[j].ns, stream[j].kind, stream[j].rp>>
                     # <<stream[i].ns, stream[i].kind, stream[i].rp>>

(***************************************************************************)
(* A draw is charged with exactly the root arguments the application left  *)
(* in force on its list: setting the same signature again keeps them,      *)
(* another one drops that namespace's only, a reset drops everything, and  *)
(* no list leaks into another (rdc_payloads.py:455).                       *)
(***************************************************************************)
ArgumentsAreInForce ==
    \A list \in Lists :
        StateOf(list).args =
            LET live == {i \in 1..Len(stream) : InForce(i, Now) /\ stream[i].list = list}
                key(i) == <<stream[i].ns, stream[i].kind, stream[i].rp>>
            IN  [k \in {key(i) : i \in live} |-> stream[CHOOSE i \in live : key(i) = k].value]
=============================================================================
