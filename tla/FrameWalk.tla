----------------------------- MODULE FrameWalk -----------------------------
(***************************************************************************)
(* The walks of the offline commands over one chunk: `binds` and `audit`   *)
(* keep the command lists, `deps`, `provenance` and `memory` the ledger,   *)
(* `hazards` the states and the loops, `passdiff` the markers.  Each walk  *)
(* reads the same stream from the start, so one step reads one chunk in    *)
(* all of them; what a walk does not know it passes over.                  *)
(***************************************************************************)
EXTENDS Placement, StateTrack, MarkerTree

CONSTANT FrameChunks    \* the chunks a stream may hold

walkVars == <<frameVars, ledgerVars, trackVars, markerVars>>

ListOps == TouchOps \cup {"draw"}

\* A UAV barrier is no use and states nothing; it is one of the chunks passed over.
Forms == {"transition", "group", "alias"}

\* What the decoder hands a walk: of each kind of chunk, the fields the walks read.
IsChunk(c) ==
    /\ c.op \in Setters \cup ListOps \cup {"reset", "view", "viewcopy", "create", "push", "pop"}
    /\ c.op \in Setters \cup ListOps \cup {"reset"} => c.list \in Lists
    /\ c.op \in {"reset", "pso"} => c.pso \in Nat
    /\ c.op = "sig" => c.ns \in Namespaces /\ c.sig \in Nat
    /\ c.op = "root" => /\ c.ns \in Namespaces /\ c.kind \in RootKinds /\ c.rp \in Nat
                        /\ c.value \in IF c.kind = "table" THEN Slots_ ELSE Resources
    /\ c.op = "vb" => c.slot \in Nat
    /\ c.op = "targets" => c.rtv \in SUBSET Resources /\ c.dsv \in Resources
    /\ c.op = "view" => c.slot \in Slots_ /\ c.kind \in ViewKinds
    /\ c.op = "viewcopy" => c.slot \in Slots_ /\ c.from \in Slots_
    /\ c.op \in {"vb", "ib", "view", "clear", "discard", "copy", "resolve", "barrier"} => c.res \in Resources
    /\ c.op = "clear" => c.as \in {"rtv", "dsv", "uav"}
    /\ c.op \in {"copy", "resolve"} => c.from \in Resources
    /\ c.op = "create" => /\ c.res \in Resources \ {None} /\ c.placed \in BOOLEAN
                          /\ {c.heap, c.offset, c.size} \subseteq Nat
    /\ c.op = "barrier" => c.form \in Forms
    /\ c.op = "barrier" /\ c.form # "alias" => /\ c.sub \in Nat /\ c.discard \in BOOLEAN
                                               /\ c.after \subseteq StateWrites \cup StateReads
    /\ c.op = "barrier" /\ c.form = "alias" => c.to \in Resources
    /\ c.op = "draw" => c.call \in {"draw", "indexed", "dispatch", "indirect"}

ASSUME FrameChunksAssumption == \A c \in FrameChunks : IsChunk(c)

\* A chunk that uses nothing: a binding set, a descriptor written, a resource made (before its first use).
Note(c) ==
    /\ \/ (Reset(c) \/ SetState(c)) /\ UNCHANGED <<heaps, created>>
       \/ Describe(c) /\ UNCHANGED <<states, created>>
       \/ Create(c) /\ (\A u \in uses : u.res # c.res) /\ UNCHANGED <<states, heaps>>
    /\ UNCHANGED <<ledgerVars, trackVars, markerVars>>

\* A call recorded in a command list.
Call(c) ==
    /\ c.op \in ListOps
    /\ RecordUses(c) /\ TrackStates(c) /\ ScanLoops(c)
    /\ IF c.op = "draw" THEN CountCall(c) ELSE UNCHANGED markerVars
    /\ UNCHANGED <<states, heaps, created>>

Scope(c) == Marker(c) /\ UNCHANGED <<states, heaps, created, ledgerVars, trackVars>>

ReadChunk(c) == stream' = Append(stream, c) /\ (Note(c) \/ Call(c) \/ Scope(c))

FrameWalkInit == FrameInit /\ LedgerInit /\ StateTrackInit /\ MarkerInit
FrameWalkNext == \E c \in FrameChunks : ReadChunk(c)
FrameWalkSpec == FrameWalkInit /\ [][FrameWalkNext]_walkVars
=============================================================================
