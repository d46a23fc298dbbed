------------------------------- MODULE Ledger -------------------------------
(***************************************************************************)
(* rdc_uses: one walk records every use of a resource the stream shows,    *)
(* and `deps`, `provenance` and `memory` are read out of the ledger.  A    *)
(* descriptor table's use is recorded by its slot, because the walk        *)
(* resolves it in the heaps as the whole stream leaves them.               *)
(***************************************************************************)
EXTENDS Frame, FiniteSetsExt

VARIABLES uses,         \* [eid, res, how, access]
          tableUses,    \* <<eid, slot>>, resolved when the walk has ended
          aliases       \* the aliasing barriers: [eid, before, after]

ledgerVars == <<uses, tableUses, aliases>>

AccessByKind == [cbv |-> "read", srv |-> "read", uav |-> "read+write", rtv |-> "write", dsv |-> "write",
                 vb |-> "read", ib |-> "read"]

\* The two classification tables, as far as the states of the model go; Common is in neither.
StateWrites == {"RenderTarget", "UnorderedAccess", "DepthWrite", "CopyDest", "ResolveDest"}
StateReads == {"VertexAndConstantBuffer", "IndexBuffer", "UnorderedAccess", "DepthRead",
               "NonPixelShaderResource", "PixelShaderResource", "CopySource", "ResolveSource"}

AccessOf(word) ==
    LET writing == word \cap StateWrites # {}
        reading == word \cap StateReads # {}
    IN  CASE writing /\ reading -> "read+write" [] writing /\ ~reading -> "write"
          [] ~writing /\ reading -> "read" [] OTHER -> ""

\* A NULL binding and an empty access record nothing.
Use(eid, res, how, access) ==
    IF res = None \/ access = "" THEN {}
    ELSE {[eid |-> eid, res |-> res, how |-> how, access |-> access]}

(***************************************************************************)
(* What one chunk records.                                                 *)
(***************************************************************************)
BindUses(st, ns, eid) ==
    (UNION {Use(eid, st.args[a], a[2], AccessByKind[a[2]]) :
               a \in {a \in DOMAIN st.args : a[1] = ns /\ a[2] # "table"}})
      \cup IF ns = "comp" THEN {}
           ELSE (UNION {Use(eid, st.vbs[v], "vb", "read") : v \in DOMAIN st.vbs})
                  \cup Use(eid, st.ib, "ib", "read")
                  \cup (UNION {Use(eid, r, "rtv", "write") : r \in st.rtv})
                  \cup Use(eid, st.dsv, "dsv", "write")

BindTables(st, ns, eid) ==
    {<<eid, st.args[a]>> : a \in {a \in DOMAIN st.args : a[1] = ns /\ a[2] = "table"}}

\* An ExecuteIndirect can be either, and contributes both namespaces.
NamespacesOf(c) ==
    CASE c.call \in {"draw", "indexed"} -> {"gfx"} [] c.call = "dispatch" -> {"comp"} [] OTHER -> {"gfx", "comp"}

DrawUses(c) ==
    IF c.list \notin DOMAIN states THEN UNCHANGED <<uses, tableUses>>
    ELSE /\ uses' = uses \cup UNION {BindUses(states[c.list], ns, Now) : ns \in NamespacesOf(c)}
         /\ tableUses' = tableUses \cup UNION {BindTables(states[c.list], ns, Now) : ns \in NamespacesOf(c)}

BarrierUses(c) ==
    CASE c.form = "alias" -> {}
      [] OTHER -> Use(Now, c.res, "barrier", AccessOf(c.after))
                    \cup (IF c.discard THEN Use(Now, c.res, "discard", "discard") ELSE {})

Touch(c) ==
    CASE c.op = "clear"   -> Use(Now, c.res, "clear", "write")
      [] c.op = "discard" -> Use(Now, c.res, "discard", "discard")
      [] c.op = "copy"    -> Use(Now, c.res, "copy-dst", "write") \cup Use(Now, c.from, "copy-src", "read")
      [] c.op = "resolve" -> Use(Now, c.res, "resolve-dst", "write") \cup Use(Now, c.from, "resolve-src", "read")
      [] c.op = "barrier" -> BarrierUses(c)

TouchOps == {"clear", "discard", "copy", "resolve", "barrier"}

RecordUses(c) ==
    \/ c.op = "draw" /\ DrawUses(c) /\ UNCHANGED aliases
    \/ /\ c.op \in TouchOps
       /\ uses' = uses \cup Touch(c)
       /\ aliases' = IF c.op = "barrier" /\ c.form = "alias"
                     THEN aliases \cup {[eid |-> Now, before |-> c.res, after |-> c.to]} ELSE aliases
       /\ UNCHANGED tableUses

LedgerInit == uses = {} /\ tableUses = {} /\ aliases = {}

(***************************************************************************)
(* The ledger when the walk ends: a slot no chunk wrote names nothing (it  *)
(* is counted as unresolved), a sampler names no resource.                 *)
(***************************************************************************)
Resolved == {t \in tableUses : t[2] \in DOMAIN heaps}

AllUses ==
    uses \cup UNION {Use(t[1], heaps[t[2]].res, heaps[t[2]].kind, AccessByKind[heaps[t[2]].kind]) :
                        t \in {t \in Resolved : heaps[t[2]].kind # "sampler"}}

UsesOf(r) == {u \in AllUses : u.res = r}
Writes(r) == {u \in UsesOf(r) : u.access \in {"write", "read+write"}}
Reads(r) == {u \in UsesOf(r) : u.access \in {"read", "read+write"}}
Discards(r) == {u \in UsesOf(r) : u.access = "discard"}
Used == {r \in Resources : UsesOf(r) # {}}

Eids(S) == {u.eid : u \in S}
FirstUse(r) == IF r \in Used THEN Min(Eids(UsesOf(r))) ELSE 0
LastUse(r) == IF r \in Used THEN Max(Eids(UsesOf(r))) ELSE 0

ReadBeforeLastWrite(r) ==
    Reads(r) # {} /\ (Writes(r) = {} \/ \E w \in Eids(Writes(r)) : w > Min(Eids(Reads(r))))

ReadBeforeWrite(r) ==
    Reads(r) # {} /\ \A w \in Eids(Writes(r)) : w > Min(Eids(Reads(r)))

WriteNeverRead(r) ==
    Writes(r) # {} /\ \A e \in Eids(Reads(r)) : e <= Max(Eids(Writes(r)))

DepFlags(r) ==
    (IF ReadBeforeWrite(r) THEN {"read-before-write"} ELSE {})
      \cup (IF ~WriteNeverRead(r) THEN {}
            ELSE IF \E d \in Eids(Discards(r)) : d > Max(Eids(Writes(r))) THEN {"discarded"}
            ELSE {"write-never-read"})

(***************************************************************************)
(* The provenance walk: from a use back through the nearest earlier writer *)
(* or discard, into a copy's source, until something ends the story.       *)
(***************************************************************************)
WriterHowsNoResolve == {"rtv", "dsv", "uav", "clear", "copy-dst"}
WriterHows == {"rtv", "dsv", "uav", "clear", "copy-dst", "resolve-dst"}

PreviousWriters(r, before) ==
    {u \in UsesOf(r) : u.eid < before /\ (u.how = "discard" \/
                          (u.how \in WriterHows /\ u.access \in {"write", "read+write"}))}

WalkProvenance(res, eid) ==
    LET walk[before \in 1..eid] == [r \in Resources |->
            LET writers == PreviousWriters(r, before)
                write == CHOOSE u \in writers : \A v \in writers : v.eid <= u.eid
                source == stream[write.eid].from
            IN  IF writers = {}
                THEN IF r \in DOMAIN created THEN <<"created", r, created[r].eid>> ELSE <<"no-writer", r, 0>>
                ELSE IF write.how \in {"discard", "clear"} THEN <<write.how, r, write.eid>>
                ELSE IF write.how \notin {"copy-dst", "resolve-dst"} THEN <<"call", r, write.eid>>
                ELSE IF source = None THEN <<"lost", r, write.eid>>
                ELSE walk[write.eid][source]]
    IN  walk[eid][res]

(***************************************************************************)
(* What the frame did, forwards: where the contents of each resource came  *)
(* from after its first `k` chunks.                                        *)
(***************************************************************************)
Contents ==
    LET after[k \in 0..Len(stream)] == [r \in Resources |->
            IF k = 0 THEN <<"no-writer", r, 0>>
            ELSE LET hows == {u.how : u \in {u \in UsesOf(r) : u.eid = k /\ u.access # "read" /\ u.how # "barrier"}}
                 IN  CASE stream[k].op = "create" /\ stream[k].res = r -> <<"created", r, k>>
                       [] "discard" \in hows -> <<"discard", r, k>>
                       [] "clear" \in hows -> <<"clear", r, k>>
                       [] hows \cap {"copy-dst", "resolve-dst"} # {} ->
                             (IF stream[k].from = None THEN <<"lost", r, k>> ELSE after[k - 1][stream[k].from])
                       [] hows # {} /\ hows \cap {"discard", "clear", "copy-dst", "resolve-dst"} = {} ->
                             <<"call", r, k>>
                       [] OTHER -> after[k - 1][r]]
    IN  after

(***************************************************************************)
(* `provenance` names the true origin of what a use found: the chain       *)
(* walked backwards through copies and resolves ends where the contents,   *)
(* carried forwards chunk by chunk, came from (rdc_uses.py:439).  A table  *)
(* resolved in the heaps as the stream leaves them can charge a draw with  *)
(* a resource made after it, and its chain then starts at a creation that  *)
(* had not happened: the streams where no use is of that kind.             *)
(***************************************************************************)
BornBeforeUse == \A u \in AllUses : u.res \in DOMAIN created => created[u.res].eid < u.eid

ProvenanceFindsOrigin ==
    BornBeforeUse => \A u \in AllUses : WalkProvenance(u.res, u.eid) = Contents[u.eid - 1][u.res]

(***************************************************************************)
(* The flags of `deps` and the chains of `provenance` tell one story: what *)
(* is read before it is written starts outside the frame, at a creation or *)
(* a discard, and what is written and never read is no use's origin after  *)
(* its last write (rdc_uses.py:364).                                       *)
(***************************************************************************)
FlagsAgreeWithProvenance ==
    \A r \in Used :
        /\ ReadBeforeWrite(r) =>
              LET walk == WalkProvenance(r, Min(Eids(Reads(r))))
              IN  walk[1] \in {"no-writer", "created", "discard"} /\ walk[2] = r
        /\ WriteNeverRead(r) =>
              \A u \in AllUses : u.access \in {"read", "read+write"} /\ u.res # r =>
                  LET walk == WalkProvenance(u.res, u.eid)
                  IN  walk[2] = r => walk[3] < Max(Eids(Writes(r))) \/ walk[1] \in {"no-writer", "created"}
=============================================================================
