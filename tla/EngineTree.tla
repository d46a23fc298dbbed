----------------------------- MODULE EngineTree -----------------------------
(***************************************************************************)
(* rdc_renderdoc_src and the names rdc_chunkmap reads out of it.  Any      *)
(* command may find the engine's source tree missing and fetch the latest  *)
(* tag into the documented folder; several may at once, and each may be    *)
(* killed, cut off or handed an archive that ends early.  The archive is   *)
(* held in memory; the tree is written file by file, in place.             *)
(***************************************************************************)
EXTENDS Integers, Sequences, FiniteSets

CONSTANTS Commands_,    \* the processes
          Members,      \* tag -> the archive's entries: [path, kind], kind "file" or one that is refused
          Required      \* the files a populated tree has

ASSUME EngineAssumption ==
    /\ DOMAIN Members \subseteq Nat \ {0} /\ 1 \in DOMAIN Members
    /\ \A tag \in DOMAIN Members : Members[tag] \in Seq([path : STRING, kind : STRING])

VARIABLES tree,         \* root -> (path -> [tag, whole])
          upstream,     \* the latest tag
          fetch,        \* command -> [pc, tag, at, end, alone]: at counts the entries done, of `end`
          table         \* kind -> the tag the bundled table's names are of, 0 for none

engineVars == <<tree, upstream, fetch, table>>

Documented == "renderdoc-src"
Roots == DOMAIN tree
Kinds == {"system", "driver", "formats"}

EnumPath(kind) == CASE kind = "system" -> "core.h" [] kind = "driver" -> "d3d12_common.h" [] OTHER -> "dds_readwrite.cpp"

MissingParts(root) == Required \ DOMAIN tree[root]
IsPopulated(root) == MissingParts(root) = {}

At_(k) == fetch[k].pc
Active == {k \in Commands_ : At_(k) \in {"asked", "extracting", "copying"}}

(***************************************************************************)
(* ensure: a populated tree is left alone, and nothing is written but into *)
(* the documented folder, and not there when the environment says so.      *)
(***************************************************************************)
AtRest == [pc |-> "idle", tag |-> 0, at |-> 0, end |-> 0, alone |-> TRUE]
Ended(k, pc) == fetch' = [fetch EXCEPT ![k] = [AtRest EXCEPT !.pc = pc]]
Settled(k, pc) == Ended(k, pc) /\ UNCHANGED <<tree, upstream, table>>

Ensure(k, root, pointed, forbidden, tag) ==
    /\ At_(k) \in {"idle", "found", "refused", "failed", "fetched"}
    /\ IF IsPopulated(root) THEN Settled(k, "found")
       ELSE IF pointed \/ root # Documented \/ forbidden THEN Settled(k, "refused")
       ELSE /\ fetch' = [j \in Commands_ |->
                            IF j = k THEN [pc |-> "asked", tag |-> tag, at |-> 0, end |-> 0, alone |-> Active = {}]
                            ELSE IF j \in Active THEN [fetch[j] EXCEPT !.alone = FALSE] ELSE fetch[j]]
            /\ UNCHANGED <<tree, upstream, table>>

(***************************************************************************)
(* The archive is in memory, whole or cut short after `end` entries, or    *)
(* the download fails.  An error outside the tuple ensure() catches (an    *)
(* incomplete read) leaves the command with a traceback and not a warning: *)
(* "failed" is both, for neither has written anything.                     *)
(***************************************************************************)
Fetch(k) ==
    /\ At_(k) = "asked" /\ UNCHANGED <<tree, upstream, table>>
    /\ \/ Ended(k, "failed")
       \/ \E end \in 0..Len(Members[fetch[k].tag]) : fetch' = [fetch EXCEPT ![k].pc = "extracting", ![k].end = end]

\* One entry: a refused one is passed over, a file is opened with 'wb' and then copied.
Entry(k) == Members[fetch[k].tag][fetch[k].at + 1]
Write(path, content) ==
    tree' = [tree EXCEPT ![Documented] = [p \in DOMAIN @ \cup {path} |-> IF p = path THEN content ELSE @[p]]]

ExtractKeepsOld(k) ==
    /\ At_(k) = "extracting" /\ fetch[k].at < fetch[k].end /\ UNCHANGED <<upstream, table>>
    /\ IF Entry(k).kind # "file" \/ Entry(k).path \in DOMAIN tree[Documented]
       THEN fetch' = [fetch EXCEPT ![k].at = @ + 1] /\ UNCHANGED tree
       ELSE fetch' = [fetch EXCEPT ![k].pc = "copying"] /\ Write(Entry(k).path, [tag |-> fetch[k].tag, whole |-> FALSE])

Extract(k) ==
    /\ At_(k) = "extracting" /\ fetch[k].at < fetch[k].end /\ UNCHANGED <<upstream, table>>
    /\ IF Entry(k).kind # "file" THEN fetch' = [fetch EXCEPT ![k].at = @ + 1] /\ UNCHANGED tree
       ELSE fetch' = [fetch EXCEPT ![k].pc = "copying"] /\ Write(Entry(k).path, [tag |-> fetch[k].tag, whole |-> FALSE])

\* The last entry of a cut archive ends in the middle, which raises.
CopyEntry(k) ==
    /\ At_(k) = "copying" /\ UNCHANGED <<upstream, table>>
    /\ \/ /\ Write(Entry(k).path, [tag |-> fetch[k].tag, whole |-> TRUE])
          /\ fetch' = [fetch EXCEPT ![k].pc = "extracting", ![k].at = @ + 1]
       \/ /\ fetch[k].at + 1 = fetch[k].end /\ fetch[k].end < Len(Members[fetch[k].tag])
          /\ Ended(k, "failed") /\ UNCHANGED tree

\* What is still missing then is an error; what is there stays.
Verify(k) ==
    /\ At_(k) = "extracting" /\ fetch[k].at = fetch[k].end
    /\ IF IsPopulated(Documented) THEN fetch' = [fetch EXCEPT ![k].pc = "fetched"] ELSE Ended(k, "failed")
    /\ UNCHANGED <<tree, upstream, table>>

KilledFetch(k) == k \in Active /\ Settled(k, "idle")
Retag(tag) == upstream' = tag /\ UNCHANGED <<tree, fetch, table>>

(***************************************************************************)
(* The names: the bundled table is the floor and the tree is written over  *)
(* it.  A half-written enum has no closing brace and parses as nothing.    *)
(***************************************************************************)
ParseEnum(root, kind) ==
    IF EnumPath(kind) \in DOMAIN tree[root] /\ tree[root][EnumPath(kind)].whole THEN tree[root][EnumPath(kind)].tag ELSE 0

\* Every release keeps the ids of the one before and adds one.
Ids(tag) == IF tag = 0 THEN {} ELSE 1..(tag + 1)
LoadChunkNames(root, kind) ==
    [id \in Ids(table[kind]) \cup Ids(ParseEnum(root, kind)) |->
        IF id \in Ids(ParseEnum(root, kind)) THEN ParseEnum(root, kind) ELSE table[kind]]

\* chunk-names --write: from a complete tree only; 2 where no enum file is, 1 where one required is missing.
HasAnyEnum(root) == \E kind \in Kinds : EnumPath(kind) \in DOMAIN tree[root]
WriteTable(root) ==
    /\ HasAnyEnum(root) /\ IsPopulated(root)
    /\ table' = [kind \in Kinds |-> ParseEnum(root, kind)] /\ UNCHANGED <<tree, upstream, fetch>>

ChunkNamesExit(root) ==
    IF ~HasAnyEnum(root) THEN 2 ELSE IF \A kind \in Kinds : table[kind] = ParseEnum(root, kind) THEN 0 ELSE 1

EngineInit(roots) ==
    /\ tree = roots /\ upstream = 1 /\ table = [kind \in Kinds |-> 1]
    /\ fetch = [k \in Commands_ |-> AtRest]

EngineNext ==
    \/ \E k \in Commands_ :
          \/ \E root \in Roots, pointed, forbidden \in BOOLEAN : Ensure(k, root, pointed, forbidden, upstream)
          \/ Fetch(k) \/ Extract(k) \/ CopyEntry(k) \/ Verify(k) \/ KilledFetch(k)
    \/ \E tag \in DOMAIN Members : Retag(tag)
    \/ \E root \in Roots : WriteTable(root)

(***************************************************************************)
(* A fetch heals: when it reports success and no other command was         *)
(* writing meanwhile, every enum the archive held up to where it ended is  *)
(* whole and of the fetched tag, whatever killed or cut fetches of other   *)
(* tags had left there, so the chunks of that enum are named by that tag   *)
(* and by no committed table (rdc_renderdoc_src.py:172).                   *)
(***************************************************************************)
FetchHeals ==
    \A k \in Commands_ :
        At_(k) = "fetched" /\ fetch[k].alone /\ Active = {} /\ (\A j \in Commands_ \ {k} : At_(j) # "fetched") =>
            \A kind \in Kinds :
                (\E i \in 1..fetch[k].end : /\ Members[fetch[k].tag][i].kind = "file"
                                            /\ Members[fetch[k].tag][i].path = EnumPath(kind))
                => /\ ParseEnum(Documented, kind) = fetch[k].tag
                   /\ \A id \in Ids(fetch[k].tag) : LoadChunkNames(Documented, kind)[id] = fetch[k].tag
=============================================================================
