-------------------------- MODULE SharedFileProofs --------------------------
(***************************************************************************)
(* Files that commands running at once share.  A sidecar answers the       *)
(* question it is asked, whoever wrote it, for any number of processes and *)
(* streams.  A fetch of the engine's source that reports success heals the *)
(* tree, for any number of fetches at once.  A verdict on an artefact's    *)
(* age is about the files as they are when it is given, whatever is        *)
(* edited, removed and built between the readings.                         *)
(***************************************************************************)
EXTENDS EngineTree, BuildState, Sidecar, TLAPS

EngineSpec(roots) == EngineInit(roots) /\ [][EngineNext]_engineVars

States == {"idle", "found", "refused", "failed", "fetched", "asked", "extracting", "copying"}
Working == {"extracting", "copying", "fetched"}
FetchRecord == [pc : States, tag : Nat, at : Nat, end : Nat, alone : BOOLEAN]

FetchType ==
    /\ Documented \in DOMAIN tree
    /\ upstream \in DOMAIN Members
    /\ fetch \in [Commands_ -> FetchRecord]
    /\ \A k \in Commands_ :
        /\ At_(k) \in Working \cup {"asked"} => fetch[k].tag \in DOMAIN Members
        /\ At_(k) = "asked" => fetch[k].at = 0
        /\ At_(k) \in Working => fetch[k].at <= fetch[k].end /\ fetch[k].end <= Len(Members[fetch[k].tag])
        /\ At_(k) = "copying" => fetch[k].at < fetch[k].end /\ Entry(k).kind = "file"
        /\ At_(k) = "fetched" => fetch[k].at = fetch[k].end

(* A fetch that is alone is the only one there is, and once it reported      *)
(* success the tree is populated, so that there is none after it.            *)
Exclusive ==
    \A k \in Commands_ :
        /\ k \in Active /\ fetch[k].alone => Active = {k}
        /\ At_(k) = "fetched" => IsPopulated(Documented)
        /\ At_(k) = "fetched" /\ fetch[k].alone => Active = {}

(* The entries it has done are on the disk, of its tag, and whole but for    *)
(* one that it is writing again.                                             *)
DoneOn(files, r) ==
    \A i \in 1 .. r.at :
        LET member == Members[r.tag][i] IN
        member.kind = "file" =>
            /\ member.path \in DOMAIN files
            /\ files[member.path].tag = r.tag
            /\ \/ files[member.path].whole
               \/ r.pc = "copying" /\ member.path = Members[r.tag][r.at + 1].path

Extracted(k) == At_(k) \in Working /\ fetch[k].alone => DoneOn(tree[Documented], fetch[k])

HealInv == FetchType /\ Exclusive /\ \A k \in Commands_ : Extracted(k)

LEMMA Heals == HealInv => FetchHeals
<1> SUFFICES ASSUME HealInv, NEW k \in Commands_, At_(k) = "fetched", fetch[k].alone, NEW kind \in Kinds,
                    NEW i \in 1 .. fetch[k].end, Members[fetch[k].tag][i].kind = "file",
                    Members[fetch[k].tag][i].path = EnumPath(kind)
             PROVE  /\ ParseEnum(Documented, kind) = fetch[k].tag
                    /\ \A id \in Ids(fetch[k].tag) : LoadChunkNames(Documented, kind)[id] = fetch[k].tag
  BY DEF FetchHeals
<1>1. ParseEnum(Documented, kind) = fetch[k].tag
  BY DEF HealInv, FetchType, Extracted, DoneOn, Working, ParseEnum, At_
<1> QED
  BY <1>1 DEF LoadChunkNames

-----------------------------------------------------------------------------
LEMMA WriteFacts ==
    ASSUME Documented \in DOMAIN tree, NEW path, NEW content, Write(path, content)
    PROVE  /\ DOMAIN tree' = DOMAIN tree
           /\ DOMAIN tree'[Documented] = DOMAIN tree[Documented] \cup {path}
           /\ tree'[Documented][path] = content
           /\ \A p \in DOMAIN tree[Documented] \ {path} : tree'[Documented][p] = tree[Documented][p]
BY DEF Write

(* A step of one command that leaves it idle, or refused, or failed.         *)
LEMMA Settles ==
    ASSUME HealInv, NEW k \in Commands_, NEW point \in {"idle", "found", "refused", "failed"},
           Ended(k, point), UNCHANGED <<tree, upstream>>
    PROVE  HealInv'
<1>1. /\ fetch' \in [Commands_ -> FetchRecord]
      /\ fetch'[k].pc = point /\ \A j \in Commands_ \ {k} : fetch'[j] = fetch[j]
  BY DEF Ended, AtRest, HealInv, FetchType, FetchRecord, States
<1>2. FetchType'
  BY <1>1 DEF HealInv, FetchType, Working, At_, Entry
<1>3. Exclusive'
  <2>1. Active' = Active \ {k}
    BY <1>1 DEF Active, At_
  <2> QED
    BY <1>1, <2>1 DEF HealInv, Exclusive, At_, IsPopulated, MissingParts, Active
<1>4. ASSUME NEW j \in Commands_ PROVE Extracted(j)'
  <2>1. CASE j = k
    BY <1>1, <2>1 DEF Extracted, Working, At_
  <2>2. CASE j # k
    <3>1. fetch'[j] = fetch[j]
      BY <1>1, <2>2
    <3>2. Extracted(j)
      BY DEF HealInv
    <3> QED
      BY <3>1, <3>2 DEF Extracted, At_
  <2> QED
    BY <2>1, <2>2
<1> QED
  BY <1>2, <1>3, <1>4 DEF HealInv

(* A step of a fetch that goes on.  What it writes troubles no other that is *)
(* alone, for there is none beside it.                                       *)
Onward(k, r) ==
    /\ k \in Active /\ UNCHANGED upstream
    /\ Documented \in DOMAIN tree' /\ DOMAIN tree[Documented] \subseteq DOMAIN tree'[Documented]
    /\ r \in FetchRecord /\ fetch' = [fetch EXCEPT ![k] = r]
    /\ r.tag = fetch[k].tag /\ r.alone = fetch[k].alone
    /\ r.pc \in Working /\ r.at <= r.end /\ r.end <= Len(Members[r.tag])
    /\ r.pc = "copying" => r.at < r.end /\ Members[r.tag][r.at + 1].kind = "file"
    /\ r.pc = "fetched" => r.at = r.end /\ IsPopulated(Documented)
    /\ Extracted(k)'

LEMMA GoesOn == ASSUME HealInv, NEW k \in Commands_, NEW r, Onward(k, r) PROVE HealInv'
<1> USE DEF Onward
<1>0. fetch \in [Commands_ -> FetchRecord]
  BY DEF HealInv, FetchType
<1>1. fetch' \in [Commands_ -> FetchRecord] /\ fetch'[k] = r /\ \A j \in Commands_ \ {k} : fetch'[j] = fetch[j]
  BY <1>0
<1>2. FetchType'
  <2>1. r.tag \in DOMAIN Members
    <3>1. At_(k) \in Working \cup {"asked"}
      BY DEF Active, Working
    <3> QED
      BY <3>1 DEF HealInv, FetchType
  <2>2. ASSUME NEW j \in Commands_
        PROVE  /\ At_(j)' \in Working \cup {"asked"} => fetch'[j].tag \in DOMAIN Members
               /\ At_(j)' = "asked" => fetch'[j].at = 0
               /\ At_(j)' \in Working => fetch'[j].at <= fetch'[j].end /\ fetch'[j].end <= Len(Members[fetch'[j].tag])
               /\ At_(j)' = "copying" => fetch'[j].at < fetch'[j].end /\ Entry(j)'.kind = "file"
               /\ At_(j)' = "fetched" => fetch'[j].at = fetch'[j].end
    <3>1. CASE j = k
      BY <1>1, <2>1, <3>1 DEF At_, Entry, Working
    <3>2. CASE j # k
      BY <1>1, <3>2 DEF HealInv, FetchType, At_, Entry
    <3> QED
      BY <3>1, <3>2
  <2> QED
    BY <1>1, <2>2 DEF HealInv, FetchType
<1>3. Exclusive'
  <2>1. Active' = IF r.pc = "fetched" THEN Active \ {k} ELSE Active
    BY <1>1 DEF Active, At_, Working
  <2>2. IsPopulated(Documented) => IsPopulated(Documented)'
    BY DEF IsPopulated, MissingParts
  <2> QED
    BY <1>1, <2>1, <2>2 DEF HealInv, Exclusive, At_, Active
<1>4. ASSUME NEW j \in Commands_ \ {k} PROVE Extracted(j)'
  <2>1. fetch'[j] = fetch[j] /\ (At_(j) \in Working => ~fetch[j].alone)
    BY <1>1 DEF HealInv, Exclusive, Active, Working
  <2> QED
    BY <2>1 DEF Extracted, DoneOn, At_
<1> QED
  BY <1>2, <1>3, <1>4 DEF HealInv

-----------------------------------------------------------------------------
LEMMA EnsureStep ==
    ASSUME HealInv, NEW k \in Commands_, NEW root, NEW pointed, NEW forbidden,
           Ensure(k, root, pointed, forbidden, upstream)
    PROVE  HealInv'
<1>1. CASE IsPopulated(root) \/ pointed \/ root # Documented \/ forbidden
  BY <1>1, Settles DEF Ensure, Settled
<1>2. CASE ~(IsPopulated(root) \/ pointed \/ root # Documented \/ forbidden)
  <2> DEFINE r == [pc |-> "asked", tag |-> upstream, at |-> 0, end |-> 0, alone |-> Active = {}]
             hit(j) == [fetch[j] EXCEPT !.alone = FALSE]
  <2>1. /\ ~IsPopulated(Documented) /\ UNCHANGED <<tree, upstream>> /\ k \notin Active
        /\ fetch' = [j \in Commands_ |-> IF j = k THEN r ELSE IF j \in Active THEN hit(j) ELSE fetch[j]]
    BY <1>2 DEF Ensure, Active, At_
  <2>2. fetch \in [Commands_ -> FetchRecord] /\ upstream \in DOMAIN Members /\ upstream \in Nat
    BY EngineAssumption DEF HealInv, FetchType
  <2>3. r \in FetchRecord /\ r.pc = "asked" /\ r.tag = upstream /\ r.at = 0 /\ r.alone = (Active = {})
    BY <2>2 DEF FetchRecord, States
  <2>4. \A j \in Commands_ : /\ hit(j) \in FetchRecord /\ ~hit(j).alone
                             /\ hit(j).pc = fetch[j].pc /\ hit(j).tag = fetch[j].tag
                             /\ hit(j).at = fetch[j].at /\ hit(j).end = fetch[j].end
    BY <2>2 DEF FetchRecord
  <2> HIDE DEF r, hit
  <2>5. fetch' \in [Commands_ -> FetchRecord]
    BY <2>1, <2>2, <2>3, <2>4
  <2>6. ASSUME NEW j \in Commands_ \ {k}
        PROVE  /\ fetch'[j].pc = fetch[j].pc /\ fetch'[j].tag = fetch[j].tag
               /\ fetch'[j].at = fetch[j].at /\ fetch'[j].end = fetch[j].end
               /\ j \in Active => ~fetch'[j].alone
               /\ fetch[j].pc # "fetched"
    BY <2>1, <2>4 DEF HealInv, Exclusive, At_
  <2>7. fetch'[k] = r
    BY <2>1
  <2>8. Active' = Active \cup {k}
    BY <2>3, <2>6, <2>7 DEF Active, At_
  <2>9. FetchType'
    <3>1. ASSUME NEW j \in Commands_
          PROVE  /\ At_(j)' \in Working \cup {"asked"} => fetch'[j].tag \in DOMAIN Members
                 /\ At_(j)' = "asked" => fetch'[j].at = 0
                 /\ At_(j)' \in Working => fetch'[j].at <= fetch'[j].end /\ fetch'[j].end <= Len(Members[fetch'[j].tag])
                 /\ At_(j)' = "copying" => fetch'[j].at < fetch'[j].end /\ Entry(j)'.kind = "file"
                 /\ At_(j)' = "fetched" => fetch'[j].at = fetch'[j].end
      <4>1. CASE j = k
        BY <2>2, <2>3, <2>7, <4>1 DEF At_, Working
      <4>2. CASE j # k
        BY <2>6, <4>2 DEF HealInv, FetchType, At_, Entry
      <4> QED
        BY <4>1, <4>2
    <3> QED
      BY <2>1, <2>5, <3>1 DEF HealInv, FetchType
  <2>10. Exclusive'
    BY <2>3, <2>6, <2>7, <2>8 DEF Exclusive, At_
  <2>11. ASSUME NEW j \in Commands_ PROVE Extracted(j)'
    <3>1. ~(At_(j)' \in Working /\ fetch'[j].alone)
      BY <2>3, <2>6, <2>7 DEF Working, At_, Active
    <3> QED
      BY <3>1 DEF Extracted
  <2> QED
    BY <2>9, <2>10, <2>11 DEF HealInv
<1> QED
  BY <1>1, <1>2

LEMMA FetchStep == ASSUME HealInv, NEW k \in Commands_, Fetch(k) PROVE HealInv'
<1>1. CASE Ended(k, "failed")
  BY <1>1, Settles DEF Fetch
<1>2. ASSUME NEW end \in 0 .. Len(Members[fetch[k].tag]),
             fetch' = [fetch EXCEPT ![k].pc = "extracting", ![k].end = end]
      PROVE  HealInv'
  <2> DEFINE r == [fetch[k] EXCEPT !.pc = "extracting", !.end = end]
  <2>1. /\ fetch \in [Commands_ -> FetchRecord] /\ k \in Active /\ fetch[k].at = 0
        /\ fetch[k].tag \in DOMAIN Members /\ Documented \in DOMAIN tree /\ UNCHANGED <<tree, upstream>>
    BY DEF HealInv, FetchType, Fetch, Active, At_
  <2>2. end \in Nat /\ end <= Len(Members[fetch[k].tag])
    <3>1. Members[fetch[k].tag] \in Seq([path : STRING, kind : STRING])
      BY <2>1, EngineAssumption
    <3> QED
      BY <3>1
  <2>3. /\ r \in FetchRecord /\ r.pc = "extracting" /\ r.at = 0 /\ r.end = end
        /\ r.tag = fetch[k].tag /\ r.alone = fetch[k].alone
    BY <2>1, <2>2 DEF FetchRecord, States
  <2>4. fetch' = [fetch EXCEPT ![k] = r]
    BY <1>2, <2>1
  <2> HIDE DEF r
  <2>5. Extracted(k)'
    <3>1. fetch'[k] = r
      BY <2>1, <2>4
    <3>2. DoneOn(tree'[Documented], r)
      <4>1. 1 .. r.at = {}
        BY <2>3
      <4> QED
        BY <4>1 DEF DoneOn
    <3> QED
      BY <3>1, <3>2 DEF Extracted
  <2>6. Onward(k, r)
    BY <2>1, <2>2, <2>3, <2>4, <2>5 DEF Onward, Working
  <2> QED
    BY <2>6, GoesOn
<1> QED
  BY <1>1, <1>2 DEF Fetch

(* What a fetch alone has done up to an entry is on the disk.                *)
Standing(k, point, reached) ==
    fetch[k].alone =>
        \A i \in 1 .. reached :
            Members[fetch[k].tag][i].kind = "file" =>
                /\ Members[fetch[k].tag][i].path \in DOMAIN tree'[Documented]
                /\ tree'[Documented][Members[fetch[k].tag][i].path].tag = fetch[k].tag
                /\ \/ tree'[Documented][Members[fetch[k].tag][i].path].whole
                   \/ point = "copying" /\ Members[fetch[k].tag][i].path = Members[fetch[k].tag][reached + 1].path

(* The record of a fetch that moves on by an entry, or begins to write one.  *)
Moved(k, point, reached) ==
    /\ At_(k) \in {"extracting", "copying"} /\ point \in Working
    /\ reached \in Nat /\ reached <= fetch[k].end /\ UNCHANGED upstream
    /\ fetch' = [fetch EXCEPT ![k] = [fetch[k] EXCEPT !.pc = point, !.at = reached]]
    /\ Documented \in DOMAIN tree' /\ DOMAIN tree[Documented] \subseteq DOMAIN tree'[Documented]
    /\ point = "copying" => reached < fetch[k].end /\ Members[fetch[k].tag][reached + 1].kind = "file"
    /\ point = "fetched" => reached = fetch[k].end /\ IsPopulated(Documented)
    /\ Standing(k, point, reached)

LEMMA Moves == ASSUME HealInv, NEW k \in Commands_, NEW point, NEW reached, Moved(k, point, reached) PROVE HealInv'
<1> USE DEF Moved
<1> DEFINE r == [fetch[k] EXCEPT !.pc = point, !.at = reached]
<1>1. fetch \in [Commands_ -> FetchRecord] /\ k \in Active /\ fetch[k].end <= Len(Members[fetch[k].tag])
  BY DEF HealInv, FetchType, Active, Working
<1>2. /\ r \in FetchRecord /\ r.pc = point /\ r.at = reached /\ r.end = fetch[k].end
      /\ r.tag = fetch[k].tag /\ r.alone = fetch[k].alone
  BY <1>1 DEF FetchRecord, States, Working
<1>3. fetch' = [fetch EXCEPT ![k] = r]
  OBVIOUS
<1> HIDE DEF r
<1>4. fetch'[k] = r
  BY <1>1, <1>3
<1>5. Extracted(k)'
  <2>1. Standing(k, point, reached) /\ reached \in Nat
    OBVIOUS
  <2> HIDE DEF Moved
  <2>2. ASSUME fetch[k].alone PROVE DoneOn(tree'[Documented], r)
    <3> SUFFICES ASSUME NEW i \in 1 .. reached, Members[fetch[k].tag][i].kind = "file"
                 PROVE  /\ Members[fetch[k].tag][i].path \in DOMAIN tree'[Documented]
                        /\ tree'[Documented][Members[fetch[k].tag][i].path].tag = fetch[k].tag
                        /\ \/ tree'[Documented][Members[fetch[k].tag][i].path].whole
                           \/ point = "copying" /\ Members[fetch[k].tag][i].path = Members[fetch[k].tag][reached + 1].path
      BY <1>2 DEF DoneOn
    <3> QED
      BY <2>1, <2>2 DEF Standing
  <2> QED
    BY <1>2, <1>4, <2>2 DEF Extracted, At_
<1>6. Onward(k, r)
  BY <1>1, <1>2, <1>3, <1>5 DEF Onward, Working
<1> QED
  BY <1>6, GoesOn

LEMMA ExtractStep == ASSUME HealInv, NEW k \in Commands_, Extract(k) PROVE HealInv'
<1> DEFINE new == [tag |-> fetch[k].tag, whole |-> FALSE]
<1>0. /\ fetch \in [Commands_ -> FetchRecord] /\ Documented \in DOMAIN tree /\ fetch[k].at \in Nat
      /\ fetch[k].end \in Nat /\ At_(k) = "extracting" /\ fetch[k].at < fetch[k].end /\ UNCHANGED upstream
  BY DEF HealInv, FetchType, Extract, FetchRecord
<1>1. fetch[k].alone =>
        \A i \in 1 .. fetch[k].at :
           Members[fetch[k].tag][i].kind = "file" =>
              /\ Members[fetch[k].tag][i].path \in DOMAIN tree[Documented]
              /\ tree[Documented][Members[fetch[k].tag][i].path].tag = fetch[k].tag
              /\ tree[Documented][Members[fetch[k].tag][i].path].whole
  BY <1>0 DEF HealInv, Extracted, DoneOn, Working, At_
<1>2. CASE Entry(k).kind # "file"
  <2>1. UNCHANGED tree /\ fetch' = [fetch EXCEPT ![k] = [fetch[k] EXCEPT !.pc = "extracting", !.at = fetch[k].at + 1]]
    BY <1>0, <1>2 DEF Extract, FetchRecord, At_
  <2>2. \A i \in 1 .. fetch[k].at + 1 :
            Members[fetch[k].tag][i].kind = "file" => i \in 1 .. fetch[k].at
    BY <1>0, <1>2 DEF Entry
  <2>3. Standing(k, "extracting", fetch[k].at + 1)
    BY <1>1, <2>1, <2>2 DEF Standing
  <2>4. fetch[k].at + 1 \in Nat /\ fetch[k].at + 1 <= fetch[k].end
    BY <1>0
  <2>5. Moved(k, "extracting", fetch[k].at + 1)
    BY <1>0, <2>1, <2>3, <2>4 DEF Moved, Working
  <2> QED
    BY <2>5, Moves
<1>3. CASE Entry(k).kind = "file"
  <2>1. /\ Write(Entry(k).path, new)
        /\ fetch' = [fetch EXCEPT ![k] = [fetch[k] EXCEPT !.pc = "copying", !.at = fetch[k].at]]
    BY <1>0, <1>3 DEF Extract, FetchRecord
  <2>2. /\ DOMAIN tree' = DOMAIN tree
        /\ DOMAIN tree'[Documented] = DOMAIN tree[Documented] \cup {Entry(k).path}
        /\ tree'[Documented][Entry(k).path].tag = fetch[k].tag
        /\ \A p \in DOMAIN tree[Documented] \ {Entry(k).path} : tree'[Documented][p] = tree[Documented][p]
    BY <1>0, <2>1, WriteFacts
  <2>3. Members[fetch[k].tag][fetch[k].at + 1] = Entry(k)
    BY DEF Entry
  <2>4. Documented \in DOMAIN tree' /\ DOMAIN tree[Documented] \subseteq DOMAIN tree'[Documented]
    BY <1>0, <2>2
  <2>5. ASSUME fetch[k].alone, NEW i \in 1 .. fetch[k].at, Members[fetch[k].tag][i].kind = "file"
        PROVE  LET path == Members[fetch[k].tag][i].path IN
               /\ path \in DOMAIN tree'[Documented]
               /\ tree'[Documented][path].tag = fetch[k].tag
               /\ tree'[Documented][path].whole \/ path = Entry(k).path
    BY <1>1, <2>2, <2>5
  <2>6. Standing(k, "copying", fetch[k].at)
    BY <2>3, <2>5 DEF Standing
  <2>7. Moved(k, "copying", fetch[k].at)
    BY <1>0, <1>3, <2>1, <2>3, <2>4, <2>6 DEF Moved, Working
  <2> QED
    BY <2>7, Moves
<1> QED
  BY <1>2, <1>3

LEMMA CopyStep == ASSUME HealInv, NEW k \in Commands_, CopyEntry(k) PROVE HealInv'
<1> DEFINE new == [tag |-> fetch[k].tag, whole |-> TRUE]
<1>0. /\ fetch \in [Commands_ -> FetchRecord] /\ Documented \in DOMAIN tree /\ fetch[k].at \in Nat
      /\ fetch[k].end \in Nat /\ At_(k) = "copying" /\ fetch[k].at < fetch[k].end /\ UNCHANGED upstream
  BY DEF HealInv, FetchType, CopyEntry, FetchRecord
<1>1. CASE Ended(k, "failed") /\ UNCHANGED tree
  BY <1>0, <1>1, Settles
<1>2. CASE /\ Write(Entry(k).path, new)
           /\ fetch' = [fetch EXCEPT ![k].pc = "extracting", ![k].at = @ + 1]
  <2>1. fetch' = [fetch EXCEPT ![k] = [fetch[k] EXCEPT !.pc = "extracting", !.at = fetch[k].at + 1]]
    BY <1>0, <1>2 DEF FetchRecord
  <2>2. /\ DOMAIN tree' = DOMAIN tree
        /\ DOMAIN tree'[Documented] = DOMAIN tree[Documented] \cup {Entry(k).path}
        /\ tree'[Documented][Entry(k).path].tag = fetch[k].tag /\ tree'[Documented][Entry(k).path].whole
        /\ \A p \in DOMAIN tree[Documented] \ {Entry(k).path} : tree'[Documented][p] = tree[Documented][p]
    BY <1>0, <1>2, WriteFacts
  <2>3. ASSUME fetch[k].alone, NEW i \in 1 .. fetch[k].at + 1, Members[fetch[k].tag][i].kind = "file"
        PROVE  /\ Members[fetch[k].tag][i].path \in DOMAIN tree'[Documented]
               /\ tree'[Documented][Members[fetch[k].tag][i].path].tag = fetch[k].tag
               /\ tree'[Documented][Members[fetch[k].tag][i].path].whole
    <3>1. CASE Members[fetch[k].tag][i].path = Entry(k).path
      BY <2>2, <3>1
    <3>2. CASE Members[fetch[k].tag][i].path # Entry(k).path
      <4>1. i \in 1 .. fetch[k].at
        BY <1>0, <3>2 DEF Entry
      <4>2. /\ Members[fetch[k].tag][i].path \in DOMAIN tree[Documented]
            /\ tree[Documented][Members[fetch[k].tag][i].path].tag = fetch[k].tag
            /\ tree[Documented][Members[fetch[k].tag][i].path].whole
        <5>1. DoneOn(tree[Documented], fetch[k])
          BY <1>0, <2>3 DEF HealInv, Extracted, Working
        <5> QED
          BY <2>3, <3>2, <4>1, <5>1 DEF DoneOn, Entry
      <4> QED
        BY <2>2, <3>2, <4>2
    <3> QED
      BY <3>1, <3>2
  <2>4. fetch[k].alone =>
          \A i \in 1 .. fetch[k].at + 1 :
             Members[fetch[k].tag][i].kind = "file" =>
                /\ Members[fetch[k].tag][i].path \in DOMAIN tree'[Documented]
                /\ tree'[Documented][Members[fetch[k].tag][i].path].tag = fetch[k].tag
                /\ tree'[Documented][Members[fetch[k].tag][i].path].whole
    BY <2>3
  <2>5. Moved(k, "extracting", fetch[k].at + 1)
    <3>1. fetch[k].at + 1 \in Nat /\ fetch[k].at + 1 <= fetch[k].end
      BY <1>0
    <3>2. Documented \in DOMAIN tree' /\ DOMAIN tree[Documented] \subseteq DOMAIN tree'[Documented]
      BY <1>0, <2>2
    <3>3. Standing(k, "extracting", fetch[k].at + 1)
      BY <2>4 DEF Standing
    <3> QED
      BY <1>0, <2>1, <3>1, <3>2, <3>3 DEF Moved, Working
  <2> QED
    BY <2>5, Moves
<1> QED
  BY <1>1, <1>2 DEF CopyEntry

LEMMA VerifyStep == ASSUME HealInv, NEW k \in Commands_, Verify(k) PROVE HealInv'
<1>0. /\ fetch \in [Commands_ -> FetchRecord] /\ Documented \in DOMAIN tree /\ fetch[k].at \in Nat
      /\ At_(k) = "extracting" /\ fetch[k].at = fetch[k].end /\ UNCHANGED <<tree, upstream>>
  BY DEF HealInv, FetchType, Verify, FetchRecord
<1>1. CASE IsPopulated(Documented)
  <2>1. fetch' = [fetch EXCEPT ![k] = [fetch[k] EXCEPT !.pc = "fetched", !.at = fetch[k].at]]
    BY <1>0, <1>1 DEF Verify, FetchRecord
  <2>2. fetch[k].alone =>
          \A i \in 1 .. fetch[k].at :
             Members[fetch[k].tag][i].kind = "file" =>
                /\ Members[fetch[k].tag][i].path \in DOMAIN tree[Documented]
                /\ tree[Documented][Members[fetch[k].tag][i].path].tag = fetch[k].tag
                /\ tree[Documented][Members[fetch[k].tag][i].path].whole
    BY <1>0 DEF HealInv, Extracted, DoneOn, Working, At_
  <2>3. Standing(k, "fetched", fetch[k].at)
    BY <1>0, <2>2 DEF Standing
  <2>4. Moved(k, "fetched", fetch[k].at)
    BY <1>0, <1>1, <2>1, <2>3 DEF Moved, Working
  <2> QED
    BY <2>4, Moves
<1>2. CASE ~IsPopulated(Documented)
  BY <1>0, <1>2, Settles DEF Verify
<1> QED
  BY <1>1, <1>2

LEMMA HealStep == HealInv /\ [EngineNext]_engineVars => HealInv'
<1> SUFFICES ASSUME HealInv, [EngineNext]_engineVars PROVE HealInv'
  OBVIOUS
<1>1. ASSUME UNCHANGED <<tree, fetch>>, upstream' \in DOMAIN Members PROVE HealInv'
  <2>1. FetchType'
    BY <1>1 DEF HealInv, FetchType, At_, Entry
  <2>2. Exclusive'
    BY <1>1 DEF HealInv, Exclusive, IsPopulated, MissingParts, Active, At_
  <2>3. ASSUME NEW k \in Commands_ PROVE Extracted(k)'
    BY <1>1 DEF HealInv, Extracted, At_
  <2> QED
    BY <2>1, <2>2, <2>3 DEF HealInv
<1>2. upstream \in DOMAIN Members
  BY DEF HealInv, FetchType
<1>3. ASSUME NEW tag \in DOMAIN Members, Retag(tag) PROVE HealInv'
  BY <1>1, <1>3 DEF Retag
<1>4. ASSUME NEW root \in Roots, WriteTable(root) PROVE HealInv'
  BY <1>1, <1>2, <1>4 DEF WriteTable
<1>5. ASSUME NEW k \in Commands_, KilledFetch(k) PROVE HealInv'
  BY <1>5, Settles DEF KilledFetch, Settled
<1>6. CASE UNCHANGED engineVars
  BY <1>1, <1>2, <1>6 DEF engineVars
<1> QED
  BY <1>3, <1>4, <1>5, <1>6, EnsureStep, FetchStep, ExtractStep, CopyStep, VerifyStep DEF EngineNext

(* A fetch that was the only one and reports success leaves every enum its   *)
(* archive held whole and of its tag, whatever fetches that were killed, cut *)
(* short or of other tags had left (rdc_renderdoc_src.py:172).               *)
THEOREM FetchesHeal ==
    ASSUME NEW CONSTANT roots, Documented \in DOMAIN roots
    PROVE  EngineSpec(roots) => []FetchHeals
<1>1. EngineInit(roots) => HealInv
  BY EngineAssumption
     DEF EngineInit, HealInv, FetchType, FetchRecord, States, Exclusive, Extracted, DoneOn, Active, Working, AtRest, At_
<1> QED
  BY <1>1, HealStep, Heals, PTL DEF EngineSpec

-----------------------------------------------------------------------------

SourceFiles(t) == {Lists_} \cup {SourcesOf[t][k] : k \in DOMAIN SourcesOf[t]}

(* What TARGETS gives: artefacts with lists of sources, none of them one.    *)
WellFormed ==
    /\ Targets_ \in Seq(DOMAIN SourcesOf)
    /\ DOMAIN SourcesOf \subseteq Files
    /\ Lists_ \notin DOMAIN SourcesOf
    /\ \A t \in DOMAIN SourcesOf : SourcesOf[t] \in Seq(Files \ DOMAIN SourcesOf)
    /\ MaxTime \in Nat

Verdicts == [note : BOOLEAN, stale : BOOLEAN]

Builds == [pc : {"idle", "before", "building", "after", "done"}, checkOnly : BOOLEAN,
           queue : Seq(Seq(Files)), newest : Nat, artefact : Nat, verdicts : Seq(Verdicts),
           code : 0 .. 2]

BuildTypeOK ==
    /\ clock \in Nat
    /\ mtime \in [Files -> Nat] /\ \A f \in Files : mtime[f] <= clock
    /\ touched \subseteq Files
    /\ build \in Builds

(* What is left to read: the end of one artefact's list, and the lists of    *)
(* the artefacts after it.                                                   *)
Turn == Len(build.verdicts) + 1
Left == Len(build.queue[1])

QueueOK ==
    /\ Len(build.queue) = Len(Targets_) - Len(build.verdicts)
    /\ \A j \in 2 .. Len(build.queue) : build.queue[j] = ReadingOrder(Targets_[Len(build.verdicts) + j])
    /\ build.queue # <<>> =>
          LET order == ReadingOrder(Targets_[Turn])
          IN  /\ Left \in 1 .. Len(order)
              /\ \A m \in 1 .. Left : build.queue[1][m] = order[Len(order) - Left + m]

(* The newest time found so far bounds the sources read and since left       *)
(* alone, and is the time of a source, or less, unless one was removed.      *)
NewestOK ==
    build.queue # <<>> =>
        LET t == Targets_[Turn]
            order == ReadingOrder(t)
        IN  /\ build.newest <= clock
            /\ \A m \in 1 .. (Len(order) - Left) :
                  order[m] \in SourceFiles(t) /\ order[m] \notin touched => mtime[order[m]] <= build.newest
            /\ build.newest > 0 =>
                  \E s \in SourceFiles(t) : mtime[s] >= build.newest \/ (s \in touched /\ mtime[s] = 0)

ReadingInv ==
    /\ build.pc \in {"before", "after"} => QueueOK /\ NewestOK
    /\ build.pc = "building" \/ build.queue = <<>> => build.newest = 0

BuildInv == BuildTypeOK /\ ReadingInv

LEMMA OrderOfReading ==
    ASSUME WellFormed, NEW t \in DOMAIN SourcesOf
    PROVE  /\ ReadingOrder(t) \in Seq(Files)
           /\ Len(ReadingOrder(t)) >= 2
           /\ ReadingOrder(t)[Len(ReadingOrder(t))] = t
           /\ \A m \in 1 .. Len(ReadingOrder(t)) - 1 :
                 ReadingOrder(t)[m] \in SourceFiles(t)
           /\ \A s \in SourceFiles(t) : \E m \in 1 .. Len(ReadingOrder(t)) - 1 : ReadingOrder(t)[m] = s
           /\ SourceFiles(t) \subseteq Files \ DOMAIN SourcesOf
<1> DEFINE own == SourcesOf[t]
           cand == <<Lists_>> \o own
<1>1. own \in Seq(Files \ DOMAIN SourcesOf) /\ Lists_ \in Files \ DOMAIN SourcesOf /\ t \in Files
  BY DEF WellFormed, Files
<1>2. /\ cand \in Seq(Files) /\ Len(cand) = Len(own) + 1 /\ cand[1] = Lists_
      /\ \A m \in 2 .. Len(cand) : cand[m] = own[m - 1]
  BY <1>1
<1>3. ReadingOrder(t) = cand \o <<t>>
  BY DEF ReadingOrder, Candidates
<1>4. /\ ReadingOrder(t) \in Seq(Files) /\ Len(ReadingOrder(t)) = Len(own) + 2
      /\ ReadingOrder(t)[Len(own) + 2] = t
      /\ \A m \in 1 .. Len(own) + 1 : ReadingOrder(t)[m] = cand[m]
  BY <1>1, <1>2, <1>3
<1>5. DOMAIN own = 1 .. Len(own) /\ Len(own) \in Nat
  BY <1>1
<1>6. ASSUME NEW m \in 1 .. Len(own) + 1 PROVE ReadingOrder(t)[m] \in SourceFiles(t)
  <2>1. CASE m = 1
    BY <1>2, <1>4, <1>5, <2>1 DEF SourceFiles
  <2>2. CASE m # 1
    <3>1. m - 1 \in DOMAIN own /\ m \in 2 .. Len(cand)
      BY <1>2, <1>5, <2>2
    <3>2. ReadingOrder(t)[m] = own[m - 1]
      BY <1>2, <1>4, <3>1
    <3> QED
      BY <3>1, <3>2 DEF SourceFiles
  <2> QED
    BY <2>1, <2>2
<1>7. ASSUME NEW s \in SourceFiles(t) PROVE \E m \in 1 .. Len(own) + 1 : ReadingOrder(t)[m] = s
  <2>1. CASE s = Lists_
    BY <1>2, <1>4, <1>5, <2>1
  <2>2. ASSUME NEW k \in DOMAIN own, s = own[k] PROVE \E m \in 1 .. Len(own) + 1 : ReadingOrder(t)[m] = s
    <3>1. k + 1 \in 2 .. Len(cand) /\ cand[k + 1] = own[k]
      BY <1>2, <1>5
    <3> QED
      BY <1>2, <1>4, <1>5, <2>2, <3>1
  <2> QED
    BY <2>1, <2>2 DEF SourceFiles
<1>8. SourceFiles(t) \subseteq Files \ DOMAIN SourcesOf
  BY <1>1, <1>5 DEF SourceFiles
<1> QED
  BY <1>4, <1>5, <1>6, <1>7, <1>8

LEMMA MaxOfTwo ==
    ASSUME NEW a \in Nat, NEW b \in Nat
    PROVE  Max({a, b}) = IF a >= b THEN a ELSE b
BY DEF Max

(* The readings are one list for each artefact.                              *)
LEMMA ReadingsType ==
    ASSUME WellFormed
    PROVE  /\ Len(Readings) = Len(Targets_) /\ Readings \in Seq(Seq(Files))
           /\ \A j \in 1 .. Len(Targets_) : Readings[j] = ReadingOrder(Targets_[j])
<1> DEFINE n == Len(Targets_)
           R == Seq(Files)
<1>1. n \in Nat /\ DOMAIN Targets_ = 1 .. n /\ \A j \in 1 .. n : Targets_[j] \in DOMAIN SourcesOf
  BY DEF WellFormed
<1>2. \A j \in 1 .. n : ReadingOrder(Targets_[j]) \in R
  BY <1>1, OrderOfReading
<1>3. Readings = [j \in 1 .. n |-> ReadingOrder(Targets_[j])]
  BY <1>1 DEF Readings
<1> HIDE DEF R
<1>4. Readings \in [1 .. n -> R]
  BY <1>2, <1>3
<1>5. Readings \in Seq(R) /\ Len(Readings) = n
  BY <1>1, <1>4
<1> QED
  BY <1>3, <1>5 DEF R

(* A reading that starts has the whole of every list before it.              *)
LEMMA ReadingStarts ==
    ASSUME WellFormed, build'.queue = Readings, build'.verdicts = <<>>, build'.newest = 0,
           clock' \in Nat
    PROVE  (QueueOK /\ NewestOK)'
<1>1. /\ Len(Readings) = Len(Targets_) /\ Readings \in Seq(Seq(Files))
      /\ \A j \in 1 .. Len(Targets_) : Readings[j] = ReadingOrder(Targets_[j])
  BY ReadingsType
<1>2. QueueOK'
  <2>1. Len(build'.queue) = Len(Targets_) - Len(build'.verdicts)
    BY <1>1 DEF WellFormed
  <2>2. \A j \in 2 .. Len(build'.queue) : build'.queue[j] = ReadingOrder(Targets_[Len(build'.verdicts) + j])
    BY <1>1
  <2>3. ASSUME build'.queue # <<>>
        PROVE  /\ Turn' = 1 /\ Targets_[1] \in DOMAIN SourcesOf
               /\ build'.queue[1] = ReadingOrder(Targets_[1])
    BY <1>1, <2>3 DEF Turn, WellFormed
  <2>4. ASSUME build'.queue # <<>>
        PROVE  LET order == ReadingOrder(Targets_[Turn'])
               IN  /\ Left' \in 1 .. Len(order)
                   /\ \A m \in 1 .. Left' : build'.queue[1][m] = order[Len(order) - Left' + m]
    <3>1. Left' = Len(ReadingOrder(Targets_[1])) /\ Left' \in Nat /\ Left' >= 2
      BY <2>3, <2>4, OrderOfReading DEF Left
    <3> QED
      BY <2>3, <2>4, <3>1
  <2> QED
    BY <2>1, <2>2, <2>4 DEF QueueOK, Turn, Left
<1>3. NewestOK'
  <2> SUFFICES ASSUME build'.queue # <<>>
               PROVE  Left' = Len(ReadingOrder(Targets_[Turn'])) /\ Left' \in Nat
    BY DEF NewestOK, Turn, Left
  <2>1. Turn' = 1 /\ Targets_[1] \in DOMAIN SourcesOf /\ build'.queue[1] = ReadingOrder(Targets_[1])
    BY <1>1 DEF Turn, WellFormed
  <2> QED
    BY <2>1, OrderOfReading DEF Left
<1> QED
  BY <1>2, <1>3

-----------------------------------------------------------------------------
(* The file whose time is read next: a source, or the artefact at the end.   *)
LEMMA NextFile ==
    ASSUME WellFormed, BuildTypeOK, QueueOK, build.queue # <<>>
    PROVE  /\ Turn \in 1 .. Len(Targets_) /\ Targets_[Turn] \in DOMAIN SourcesOf
           /\ Left \in Nat /\ Left >= 1 /\ Left <= Len(ReadingOrder(Targets_[Turn]))
           /\ Head(build.queue) = build.queue[1] /\ Head(build.queue) \in Seq(Files)
           /\ Head(Head(build.queue)) =
                ReadingOrder(Targets_[Turn])[Len(ReadingOrder(Targets_[Turn])) - Left + 1]
           /\ Left = 1 => Head(Head(build.queue)) = Targets_[Turn]
           /\ Left > 1 => Head(Head(build.queue)) \in SourceFiles(Targets_[Turn])
<1> DEFINE t == Targets_[Turn]
           order == ReadingOrder(t)
           q == build.queue
<1>1. q \in Seq(Seq(Files)) /\ build.verdicts \in Seq(Verdicts)
  BY DEF BuildTypeOK, Builds
<1>2. Len(q) \in Nat /\ Len(q) >= 1 /\ Len(build.verdicts) \in Nat
      /\ q[1] \in Seq(Files) /\ Head(q) = q[1]
  <2> DEFINE R == Seq(Files)
  <2>1. q \in Seq(R) /\ build.verdicts \in Seq(Verdicts)
    BY <1>1
  <2> HIDE DEF R
  <2>2. Len(q) \in Nat /\ Len(q) >= 1 /\ Len(build.verdicts) \in Nat /\ q[1] \in R /\ Head(q) = q[1]
    BY <2>1
  <2> QED
    BY <2>2 DEF R
<1>3. Turn \in 1 .. Len(Targets_) /\ t \in DOMAIN SourcesOf
  <2>1. Len(q) = Len(Targets_) - Len(build.verdicts)
    BY DEF QueueOK
  <2>2. Len(Targets_) \in Nat /\ \A i \in 1 .. Len(Targets_) : Targets_[i] \in DOMAIN SourcesOf
    BY DEF WellFormed
  <2>3. Turn \in 1 .. Len(Targets_)
    BY <1>2, <2>1, <2>2 DEF Turn
  <2> QED
    BY <2>2, <2>3
<1>4. /\ Left \in 1 .. Len(order) /\ Len(order) \in Nat
      /\ \A m \in 1 .. Left : q[1][m] = order[Len(order) - Left + m]
  <2>1. Len(order) \in Nat
    BY <1>3, OrderOfReading
  <2> HIDE DEF t
  <2>2. /\ Left \in 1 .. Len(ReadingOrder(t))
        /\ \A m \in 1 .. Left : q[1][m] = ReadingOrder(t)[Len(ReadingOrder(t)) - Left + m]
    BY DEF QueueOK, t
  <2> QED
    BY <2>1, <2>2
<1>5. Head(Head(q)) = order[Len(order) - Left + 1]
  <2>1. Head(q[1]) = q[1][1]
    BY <1>2, <1>4 DEF Left
  <2>2. 1 \in 1 .. Left
    BY <1>4
  <2> QED
    BY <1>2, <1>4, <2>1, <2>2
<1>6. Left = 1 => Head(Head(q)) = t
  BY <1>3, <1>4, <1>5, OrderOfReading
<1>7. Left > 1 => Head(Head(q)) \in SourceFiles(t)
  BY <1>3, <1>4, <1>5, OrderOfReading
<1> QED
  BY <1>2, <1>3, <1>4, <1>5, <1>6, <1>7

(* One reading, field by field.                                              *)
LEMMA OneReading ==
    ASSUME WellFormed, BuildTypeOK, QueueOK, ReadTime
    PROVE  /\ build.queue # <<>> /\ build.pc \in {"before", "after"}
           /\ UNCHANGED <<clock, mtime, touched>> /\ build' \in Builds /\ build'.pc = build.pc
           /\ Left > 1 => /\ build'.queue = <<Tail(Head(build.queue))>> \o Tail(build.queue)
                          /\ build'.verdicts = build.verdicts
                          /\ build'.newest = Max({build.newest, mtime[Head(Head(build.queue))]})
           /\ Left = 1 => /\ build'.queue = Tail(build.queue) /\ build'.newest = 0
                          /\ build'.verdicts =
                               Append(build.verdicts, Verdict(mtime[Targets_[Turn]], build.newest))
<1> DEFINE q == build.queue
           files == Head(q)
           file == Head(files)
           t == Targets_[Turn]
<1>1. q # <<>> /\ build.pc \in {"before", "after"} /\ UNCHANGED <<clock, mtime, touched>>
  BY DEF ReadTime
<1>2. /\ t \in DOMAIN SourcesOf /\ files = q[1] /\ files \in Seq(Files) /\ Len(files) = Left
      /\ Left \in Nat /\ Left >= 1 /\ SourceFiles(t) \subseteq Files \ DOMAIN SourcesOf /\ t \in Files
      /\ Left = 1 => file = t
      /\ Left > 1 => file \in SourceFiles(t)
  BY <1>1, NextFile, OrderOfReading DEF Left, WellFormed
<1>3. q \in Seq(Seq(Files)) /\ build.verdicts \in Seq(Verdicts) /\ build.newest \in Nat /\ build.artefact \in Nat
  BY DEF BuildTypeOK, Builds
<1>4. mtime[file] \in Nat /\ mtime[t] \in Nat
  BY <1>2 DEF BuildTypeOK
<1>5. Tail(files) \in Seq(Files)
  BY <1>2
<1>6. Tail(q) \in Seq(Seq(Files)) /\ <<Tail(files)>> \o Tail(q) \in Seq(Seq(Files))
  <2> DEFINE R == Seq(Files)
  <2>1. q \in Seq(R) /\ q # <<>> /\ Tail(files) \in R
    BY <1>1, <1>3, <1>5
  <2> HIDE DEF R
  <2>2. Tail(q) \in Seq(R) /\ <<Tail(files)>> \o Tail(q) \in Seq(R)
    BY <2>1
  <2> QED
    BY <2>2 DEF R
<1>7. CASE Left > 1
  <2>1. file \notin DOMAIN SourcesOf
    BY <1>2, <1>7
  <2>2. build' = [build EXCEPT !.queue = <<Tail(files)>> \o Tail(q),
                               !.newest = Max({build.newest, mtime[file]}), !.artefact = build.artefact]
    BY <1>2, <1>7, <2>1 DEF ReadTime
  <2>3. Max({build.newest, mtime[file]}) \in Nat
    BY <1>3, <1>4, MaxOfTwo
  <2>4. /\ build'.queue = <<Tail(files)>> \o Tail(q) /\ build'.verdicts = build.verdicts
        /\ build'.newest = Max({build.newest, mtime[file]}) /\ build'.pc = build.pc
    BY <2>2 DEF BuildTypeOK, Builds
  <2>5. build' \in Builds
    BY <2>2, <2>3, <1>6 DEF BuildTypeOK, Builds
  <2> QED
    BY <1>1, <1>7, <2>4, <2>5
<1>8. CASE Left = 1
  <2>1. file = t /\ file \in DOMAIN SourcesOf
    BY <1>2, <1>8
  <2>2. build' = [build EXCEPT !.queue = Tail(q), !.newest = 0, !.artefact = 0,
                               !.verdicts = Append(@, Verdict(mtime[t], build.newest))]
    BY <1>2, <1>8, <2>1 DEF ReadTime
  <2>3. Verdict(mtime[t], build.newest) \in Verdicts
    BY DEF Verdict, Verdicts
  <2>4. Append(build.verdicts, Verdict(mtime[t], build.newest)) \in Seq(Verdicts)
    BY <1>3, <2>3
  <2>5. /\ build'.queue = Tail(q) /\ build'.newest = 0 /\ build'.pc = build.pc
        /\ build'.verdicts = Append(build.verdicts, Verdict(mtime[t], build.newest))
    BY <2>2 DEF BuildTypeOK, Builds
  <2>6. build' \in Builds
    BY <1>6, <2>2, <2>4 DEF BuildTypeOK, Builds
  <2> QED
    BY <1>1, <1>8, <2>5, <2>6
<1>9. Left > 1 \/ Left = 1
  BY <1>2
<1> QED
  BY <1>7, <1>8, <1>9

(* In the middle of a list.                                                  *)
LEMMA SourceRead ==
    ASSUME WellFormed, BuildTypeOK, QueueOK, NewestOK, ReadTime, Left > 1
    PROVE  (QueueOK /\ NewestOK)'
<1> DEFINE q == build.queue
           t == Targets_[Turn]
           order == ReadingOrder(t)
           files == Head(q)
           file == Head(files)
<1>1. /\ q # <<>> /\ UNCHANGED <<clock, mtime, touched>>
      /\ build'.queue = <<Tail(files)>> \o Tail(q) /\ build'.verdicts = build.verdicts
      /\ build'.newest = Max({build.newest, mtime[file]})
  BY OneReading
<1>2. /\ t \in DOMAIN SourcesOf /\ Left \in Nat /\ Left > 1 /\ Left <= Len(order) /\ Len(order) \in Nat
      /\ files = q[1] /\ files \in Seq(Files) /\ Len(files) = Left
      /\ file = order[Len(order) - Left + 1] /\ file \in SourceFiles(t) /\ file \in Files
  <2>1. /\ t \in DOMAIN SourcesOf /\ Left \in Nat /\ Left <= Len(order)
        /\ files = q[1] /\ files \in Seq(Files) /\ file = order[Len(order) - Left + 1]
        /\ file \in SourceFiles(t)
    BY <1>1, NextFile
  <2>2. Len(files) = Left
    BY <2>1 DEF Left
  <2>3. Len(order) \in Nat /\ SourceFiles(t) \subseteq Files
    BY <2>1, OrderOfReading
  <2> QED
    BY <2>1, <2>2, <2>3
<1>3. /\ Len(build'.queue) = Len(q) /\ Len(q) \in Nat /\ build'.queue[1] = Tail(files)
      /\ \A j \in 2 .. Len(q) : build'.queue[j] = q[j]
  <2> DEFINE R == Seq(Files)
  <2>1. q \in Seq(R) /\ Tail(files) \in R /\ q # <<>>
    BY <1>1, <1>2 DEF BuildTypeOK, Builds
  <2> HIDE DEF R, files
  <2>2. Tail(q) \in Seq(R) /\ Len(Tail(q)) = Len(q) - 1 /\ Len(q) \in Nat /\ Len(q) >= 1
        /\ \A j \in 1 .. Len(q) - 1 : Tail(q)[j] = q[j + 1]
    BY <2>1
  <2>3. <<Tail(files)>> \o Tail(q) = build'.queue
    BY <1>1 DEF files
  <2>4. Len(build'.queue) = Len(q) /\ build'.queue[1] = Tail(files)
    BY <2>1, <2>2, <2>3
  <2>5. ASSUME NEW j \in 2 .. Len(q) PROVE build'.queue[j] = q[j]
    <3>1. build'.queue[j] = Tail(q)[j - 1] /\ j - 1 \in 1 .. Len(q) - 1
      BY <2>1, <2>2, <2>3
    <3> QED
      BY <2>2, <3>1
  <2> QED
    BY <2>2, <2>4, <2>5
<1>4. Turn' = Turn /\ Left' = Left - 1 /\ \A m \in 1 .. Left - 1 : Tail(files)[m] = files[m + 1]
  BY <1>1, <1>2, <1>3 DEF Turn, Left
<1>5. QueueOK'
  <2>1. \A m \in 1 .. Left : files[m] = order[Len(order) - Left + m]
    BY <1>1, <1>2 DEF QueueOK
  <2>2. \A m \in 1 .. Left - 1 : build'.queue[1][m] = order[Len(order) - (Left - 1) + m]
    <3> DEFINE l == Left
               n == Len(order)
    <3> SUFFICES ASSUME NEW m \in 1 .. l - 1 PROVE build'.queue[1][m] = order[n - (l - 1) + m]
      OBVIOUS
    <3>1. build'.queue[1][m] = files[m + 1]
      BY <1>3, <1>4
    <3>2. \A k \in 1 .. l : files[k] = order[n - l + k]
      BY <2>1
    <3>3. l \in Nat /\ n \in Nat
      BY <1>2
    <3> HIDE DEF l, n, files, order
    <3>4. m + 1 \in 1 .. l /\ n - l + (m + 1) = n - (l - 1) + m
      BY <3>3
    <3> QED
      BY <3>1, <3>2, <3>4
  <2>3. Left - 1 \in 1 .. Len(order)
    BY <1>2
  <2>4. /\ Len(build'.queue) = Len(Targets_) - Len(build'.verdicts)
        /\ \A j \in 2 .. Len(build'.queue) :
              build'.queue[j] = ReadingOrder(Targets_[Len(build'.verdicts) + j])
    BY <1>1, <1>3 DEF QueueOK
  <2> HIDE DEF order, t
  <2>5. order = ReadingOrder(Targets_[Turn'])
    BY <1>4 DEF order, t
  <2> QED
    BY <1>4, <2>2, <2>3, <2>4, <2>5 DEF QueueOK, Turn, Left
<1>6. NewestOK'
  <2>1. build.newest \in Nat /\ mtime[file] \in Nat /\ mtime[file] <= clock /\ clock \in Nat
    BY <1>2 DEF BuildTypeOK, Builds
  <2>2. build'.newest = IF build.newest >= mtime[file] THEN build.newest ELSE mtime[file]
    BY <1>1, <2>1, MaxOfTwo
  <2>3. build'.newest <= clock
    BY <1>1, <2>1, <2>2 DEF NewestOK
  <2>4. ASSUME NEW m \in 1 .. (Len(order) - (Left - 1)), order[m] \in SourceFiles(t), order[m] \notin touched
        PROVE  mtime[order[m]] <= build'.newest
    <3>1. CASE m = Len(order) - Left + 1
      BY <1>2, <2>1, <2>2, <3>1
    <3>2. CASE m # Len(order) - Left + 1
      <4>1. m \in 1 .. Len(order) - Left
        BY <1>2, <3>2
      <4>2. mtime[order[m]] <= build.newest /\ mtime[order[m]] \in Nat
        BY <1>1, <1>2, <2>4, <4>1, OrderOfReading DEF NewestOK, BuildTypeOK
      <4> QED
        BY <2>1, <2>2, <4>2
    <3> QED
      BY <3>1, <3>2
  <2>5. ASSUME build'.newest > 0
        PROVE  \E s \in SourceFiles(t) : mtime[s] >= build'.newest \/ (s \in touched /\ mtime[s] = 0)
    <3>1. CASE build.newest >= mtime[file]
      BY <1>1, <2>1, <2>2, <2>5, <3>1 DEF NewestOK
    <3>2. CASE ~(build.newest >= mtime[file])
      BY <1>2, <2>1, <2>2, <3>2
    <3> QED
      BY <3>1, <3>2
  <2> HIDE DEF order, t
  <2>6. t = Targets_[Turn'] /\ order = ReadingOrder(t)
    BY <1>4 DEF order, t
  <2> QED
    BY <1>1, <1>4, <2>3, <2>4, <2>5, <2>6 DEF NewestOK, Turn, Left
<1> QED
  BY <1>5, <1>6

(* At the end of a list the verdict joins the others and the next list, still *)
(* whole, is due.                                                             *)
LEMMA ArtefactRead ==
    ASSUME WellFormed, BuildTypeOK, QueueOK, ReadTime, Left = 1
    PROVE  (QueueOK /\ NewestOK)'
<1> DEFINE q == build.queue
           r == build'.queue
           t2 == Targets_[Turn + 1]
           n == Len(Targets_)
           v == Len(build.verdicts)
           w == Len(build'.verdicts)
           l == Len(q)
           l2 == Len(r)
           e == Left'
           o2 == Len(ReadingOrder(t2))
<1>1. /\ q # <<>> /\ UNCHANGED <<clock, mtime, touched>> /\ r = Tail(q) /\ build'.newest = 0
      /\ build'.verdicts = Append(build.verdicts, Verdict(mtime[Targets_[Turn]], build.newest))
  BY OneReading
<1>2. /\ l2 = l - 1 /\ l \in Nat /\ l >= 1 /\ l2 \in Nat
      /\ \A j \in 1 .. l - 1 : r[j] = q[j + 1]
      /\ r # <<>> => l >= 2
  <2> DEFINE R == Seq(Files)
  <2>1. q \in Seq(R)
    BY DEF BuildTypeOK, Builds
  <2> HIDE DEF R
  <2> QED
    BY <1>1, <2>1
<1>3. w = v + 1 /\ v \in Nat /\ Turn = v + 1 /\ Turn' = w + 1
  BY <1>1 DEF BuildTypeOK, Builds, Turn
<1>4. l = n - v /\ \A j \in 2 .. l : q[j] = ReadingOrder(Targets_[v + j])
  BY DEF QueueOK
<1>5. n \in Nat /\ \A i \in 1 .. n : Targets_[i] \in DOMAIN SourcesOf
  BY DEF WellFormed
<1>6. t2 = Targets_[v + 2] /\ Turn' = v + 2
  <2> HIDE DEF v, w
  <2>1. Turn + 1 = v + 2 /\ w + 1 = v + 2
    BY <1>3
  <2> QED
    BY <1>3, <2>1
<1>7. ASSUME r # <<>>
      PROVE  /\ r[1] = ReadingOrder(t2) /\ e = o2 /\ e \in Nat /\ e >= 2
  <2>1. t2 \in DOMAIN SourcesOf
    <3> HIDE DEF n, v, l, r, t2
    <3>1. v + 2 \in 1 .. n
      BY <1>2, <1>3, <1>4, <1>5, <1>7
    <3> QED
      BY <1>5, <1>6, <3>1
  <2>2. r[1] = ReadingOrder(t2)
    <3> HIDE DEF n, v, l, l2, r, q, t2
    <3>1. r[1] = q[2] /\ q[2] = ReadingOrder(Targets_[v + 2])
      BY <1>2, <1>4, <1>7
    <3> QED
      BY <1>6, <3>1
  <2>3. o2 \in Nat /\ o2 >= 2
    BY <2>1, OrderOfReading
  <2>4. e = Len(r[1])
    BY DEF Left
  <2> QED
    BY <2>2, <2>3, <2>4
<1>8. QueueOK'
  <2>1. l2 = n - w
    <3> HIDE DEF n, v, w, l, l2
    <3> QED
      BY <1>2, <1>3, <1>4, <1>5
  <2>2. \A j \in 2 .. l2 : r[j] = ReadingOrder(Targets_[w + j])
    <3> HIDE DEF n, v, w, l, l2, r, q
    <3> SUFFICES ASSUME NEW j \in 2 .. l2 PROVE r[j] = ReadingOrder(Targets_[w + j])
      OBVIOUS
    <3>1. j + 1 \in 2 .. l /\ j \in 1 .. l - 1 /\ v + (j + 1) = w + j
      BY <1>2, <1>3
    <3> QED
      BY <1>2, <1>4, <3>1
  <2>3. ASSUME r # <<>>
        PROVE  /\ e \in 1 .. o2 /\ \A m \in 1 .. e : r[1][m] = ReadingOrder(t2)[o2 - e + m]
    <3>1. r[1] = ReadingOrder(t2) /\ e = o2 /\ e \in Nat /\ e >= 2
      BY <1>7, <2>3
    <3> HIDE DEF e, o2, r, t2
    <3> QED
      BY <3>1
  <2>4. t2 = Targets_[Turn']
    BY <1>6
  <2> HIDE DEF t2
  <2> QED
    BY <2>1, <2>2, <2>3, <2>4 DEF QueueOK, Turn, Left
<1>9. NewestOK'
  <2>1. t2 = Targets_[Turn'] /\ clock' \in Nat
    BY <1>1, <1>6 DEF BuildTypeOK
  <2>2. ASSUME r # <<>> PROVE \A m \in 1 .. (o2 - e) : FALSE
    <3>1. e = o2 /\ e \in Nat
      BY <1>7, <2>2
    <3> HIDE DEF e, o2
    <3> QED
      BY <3>1
  <2> HIDE DEF t2
  <2>3. 0 <= clock' /\ ~(0 > 0)
    BY <2>1
  <2> QED
    BY <1>1, <2>1, <2>2, <2>3, Zenon DEF NewestOK, Turn, Left
<1> QED
  BY <1>8, <1>9

-----------------------------------------------------------------------------
(* A file that changed has the time of the change or none, and is remembered, *)
(* unless it is an artefact that was built.                                   *)
ChangesKnown ==
    /\ build' = build /\ clock <= clock' /\ touched \subseteq touched'
    /\ \A f \in Files : \/ mtime'[f] = mtime[f]
                        \/ mtime'[f] \in {0, clock} /\ (f \in DOMAIN SourcesOf \/ f \in touched')

LEMMA ChangesKeepReading ==
    ASSUME WellFormed, BuildTypeOK, QueueOK, NewestOK, ChangesKnown, clock' \in Nat
    PROVE  (QueueOK /\ NewestOK)'
<1>1. QueueOK'
  BY DEF ChangesKnown, QueueOK, Turn, Left
<1>2. NewestOK'
  <2> SUFFICES ASSUME build.queue # <<>> PROVE NewestOK'
    BY DEF ChangesKnown, NewestOK
  <2> DEFINE t == Targets_[Turn]
             order == ReadingOrder(t)
  <2>1. t \in DOMAIN SourcesOf /\ SourceFiles(t) \subseteq Files \ DOMAIN SourcesOf
    BY NextFile, OrderOfReading
  <2>2. build.newest \in Nat /\ build.newest <= clock /\ clock \in Nat
    BY DEF NewestOK, BuildTypeOK, Builds
  <2>3. build.newest <= clock'
    BY <2>2 DEF ChangesKnown
  <2>4. ASSUME NEW s \in SourceFiles(t), s \notin touched'
        PROVE  mtime'[s] = mtime[s] /\ s \notin touched
    BY <2>1, <2>4 DEF ChangesKnown
  <2>5. \A m \in 1 .. (Len(order) - Left) :
            order[m] \in SourceFiles(t) /\ order[m] \notin touched' => mtime'[order[m]] <= build.newest
    <3>1. \A m \in 1 .. (Len(order) - Left) :
            order[m] \in SourceFiles(t) /\ order[m] \notin touched => mtime[order[m]] <= build.newest
      BY DEF NewestOK
    <3> QED
      BY <2>4, <3>1
  <2>6. ASSUME build.newest > 0
        PROVE  \E s \in SourceFiles(t) : mtime'[s] >= build.newest \/ (s \in touched' /\ mtime'[s] = 0)
    <3>1. PICK s \in SourceFiles(t) : mtime[s] >= build.newest \/ (s \in touched /\ mtime[s] = 0)
      BY <2>6 DEF NewestOK
    <3>2. mtime'[s] = mtime[s] \/ (mtime'[s] \in {0, clock} /\ s \in touched')
      BY <2>1 DEF ChangesKnown
    <3>3. CASE mtime'[s] = mtime[s]
      BY <3>1, <3>3 DEF ChangesKnown
    <3>4. CASE mtime'[s] = clock
      BY <2>2, <3>4
    <3>5. CASE mtime'[s] = 0 /\ s \in touched'
      BY <3>5
    <3> QED
      BY <3>2, <3>3, <3>4, <3>5
  <2>7. build' = build
    BY DEF ChangesKnown
  <2> HIDE DEF order, t
  <2>8. t = Targets_[Turn'] /\ order = ReadingOrder(t) /\ Left' = Left
    BY <2>7 DEF order, t, Turn, Left
  <2> QED
    BY <2>3, <2>5, <2>6, <2>7, <2>8 DEF NewestOK, Turn, Left
<1> QED
  BY <1>1, <1>2

(* The rest of the machine changes files, and says which.                    *)
LEMMA MachineSteps ==
    ASSUME WellFormed, BuildTypeOK,
           \/ Tick
           \/ \E f \in Files : Edit(f) \/ RemoveFile(f)
           \/ \E written \in SUBSET DOMAIN SourcesOf : OtherBuild(written)
    PROVE  BuildTypeOK' /\ ChangesKnown
<1> USE DEF BuildTypeOK
<1>1. CASE Tick
  BY <1>1 DEF Tick, ChangesKnown
<1>2. ASSUME NEW f \in Files, Edit(f) PROVE BuildTypeOK' /\ ChangesKnown
  BY <1>2 DEF Edit, ChangesKnown
<1>3. ASSUME NEW f \in Files, RemoveFile(f) PROVE BuildTypeOK' /\ ChangesKnown
  BY <1>3 DEF RemoveFile, ChangesKnown
<1>4. ASSUME NEW written \in SUBSET DOMAIN SourcesOf, OtherBuild(written)
      PROVE  BuildTypeOK' /\ ChangesKnown
  BY <1>4 DEF OtherBuild, ChangesKnown, WellFormed
<1> QED
  BY <1>1, <1>2, <1>3, <1>4

(* The steps of the command that read nothing.                               *)
CommandStep == (\E checkOnly \in BOOLEAN : Begin(checkOnly)) \/ Decide \/ Rebuild \/ Report

LEMMA CommandTypes ==
    ASSUME WellFormed, BuildTypeOK, CommandStep
    PROVE  BuildTypeOK'
<1>1. build \in Builds /\ Readings \in Seq(Seq(Files))
  BY ReadingsType DEF BuildTypeOK
<1>2. <<>> \in Seq(Verdicts)
  OBVIOUS
<1>3. build' \in Builds
  <2>1. ASSUME NEW checkOnly \in BOOLEAN, Begin(checkOnly) PROVE build' \in Builds
    <3>1. build' = [Idle_ EXCEPT !.pc = "before", !.checkOnly = checkOnly, !.queue = Readings]
      BY <2>1 DEF Begin
    <3>2. build' = [pc |-> "before", checkOnly |-> checkOnly, queue |-> Readings, newest |-> 0,
                    artefact |-> 0, verdicts |-> <<>>, code |-> 0]
      BY <3>1 DEF Idle_
    <3> QED
      BY <1>1, <1>2, <3>2 DEF Builds
  <2>2. ASSUME NEW point \in {"done", "building"}, NEW code \in 0 .. 2,
               build' = [build EXCEPT !.pc = point, !.code = code]
        PROVE  build' \in Builds
    BY <1>1, <2>2 DEF Builds
  <2>3. CASE Decide
    <3>1. VerdictCode(build.verdicts) \in 0 .. 2
      BY DEF VerdictCode
    <3> DEFINE code == VerdictCode(build.verdicts)
               point == IF build.checkOnly \/ code = 0 THEN "done" ELSE "building"
    <3>2. build' = [build EXCEPT !.pc = point, !.code = code]
      BY <2>3 DEF Decide
    <3>3. point \in {"done", "building"}
      OBVIOUS
    <3> HIDE DEF point, code
    <3>4. code \in 0 .. 2
      BY <3>1 DEF code
    <3> QED
      BY <2>2, <3>2, <3>3, <3>4
  <2>4. CASE Report
    <3>1. build' = [build EXCEPT !.pc = "done", !.code = 0]
      BY <2>4 DEF Report
    <3>2. 0 \in 0 .. 2 /\ "done" \in {"done", "building"}
      OBVIOUS
    <3> QED
      BY <2>2, <3>1, <3>2, Zenon
  <2>5. CASE Rebuild
    <3>1. CASE build' = [build EXCEPT !.pc = "done", !.code = 1]
      <4>1. 1 \in 0 .. 2 /\ "done" \in {"done", "building"}
        OBVIOUS
      <4> QED
        BY <2>2, <3>1, <4>1, Zenon
    <3>2. CASE build' = [build EXCEPT !.pc = "after", !.queue = Readings, !.verdicts = <<>>]
      BY <1>1, <1>2, <3>2 DEF Builds
    <3> QED
      BY <2>5, <3>1, <3>2 DEF Rebuild
  <2> QED
    BY <2>1, <2>3, <2>4, <2>5 DEF CommandStep
<1>4. clock' = clock
  BY DEF CommandStep, Begin, Decide, Report, Rebuild
<1>5. touched' \subseteq Files /\ mtime' \in [Files -> Nat] /\ \A f \in Files : mtime'[f] <= clock
  <2>1. CASE UNCHANGED mtime /\ (touched' = {} \/ UNCHANGED touched)
    BY <2>1 DEF BuildTypeOK
  <2>2. ASSUME NEW written \in SUBSET DOMAIN SourcesOf, mtime' = [f \in Files |-> IF f \in written THEN clock ELSE mtime[f]],
               touched' = {} \/ UNCHANGED touched
        PROVE  touched' \subseteq Files /\ mtime' \in [Files -> Nat] /\ \A f \in Files : mtime'[f] <= clock
    BY <2>2 DEF BuildTypeOK
  <2> QED
    BY <2>1, <2>2 DEF CommandStep, Begin, Decide, Report, Rebuild, Built
<1> QED
  BY <1>3, <1>4, <1>5 DEF BuildTypeOK

LEMMA CommandReads ==
    ASSUME WellFormed, BuildTypeOK, ReadingInv, CommandStep
    PROVE  ReadingInv'
<1>1. build \in Builds /\ clock' \in Nat
  BY CommandTypes DEF BuildTypeOK
<1>2. ASSUME build'.queue = Readings, build'.verdicts = <<>>, build'.newest = 0
      PROVE  ReadingInv'
  BY <1>1, <1>2, ReadingStarts DEF ReadingInv
<1>3. ASSUME NEW checkOnly \in BOOLEAN, Begin(checkOnly) PROVE ReadingInv'
  <2>1. build'.queue = Readings /\ build'.verdicts = <<>> /\ build'.newest = 0
    BY <1>3 DEF Begin, Idle_
  <2> QED
    BY <1>2, <2>1
<1>4. CASE Decide
  <2>1. /\ build.queue = <<>> /\ build'.newest = build.newest
        /\ build'.pc \notin {"before", "after"}
    BY <1>1, <1>4 DEF Decide, Builds
  <2> QED
    BY <2>1 DEF ReadingInv
<1>5. CASE Report
  <2>1. build.queue = <<>> /\ build'.newest = build.newest /\ build'.pc = "done"
    BY <1>1, <1>5 DEF Report, Builds
  <2> QED
    BY <2>1 DEF ReadingInv
<1>6. CASE Rebuild
  <2>1. build.newest = 0
    BY <1>6 DEF Rebuild, ReadingInv
  <2>2. CASE build' = [build EXCEPT !.pc = "done", !.code = 1]
    <3>1. build'.newest = build.newest /\ build'.pc = "done"
      BY <1>1, <2>2 DEF Builds
    <3> QED
      BY <2>1, <3>1 DEF ReadingInv
  <2>3. CASE build' = [build EXCEPT !.pc = "after", !.queue = Readings, !.verdicts = <<>>]
    <3>1. build'.queue = Readings /\ build'.verdicts = <<>> /\ build'.newest = build.newest
      BY <1>1, <2>3 DEF Builds
    <3> QED
      BY <1>2, <2>1, <3>1
  <2> QED
    BY <1>6, <2>2, <2>3 DEF Rebuild
<1> QED
  BY <1>3, <1>4, <1>5, <1>6 DEF CommandStep

LEMMA BuildStep ==
    ASSUME WellFormed, BuildInv, [BuildNext]_buildVars
    PROVE  BuildInv'
<1> USE DEF BuildInv
<1>1. CASE CommandStep
  BY <1>1, CommandTypes, CommandReads
<1>2. CASE ReadTime
  <2>1. build.pc \in {"before", "after"} /\ build.queue # <<>> /\ QueueOK /\ NewestOK
    BY <1>2 DEF ReadTime, ReadingInv
  <2>2. UNCHANGED <<clock, mtime, touched>> /\ build' \in Builds /\ build'.pc = build.pc
    BY <1>2, <2>1, OneReading
  <2>3. BuildTypeOK'
    BY <2>2 DEF BuildTypeOK
  <2>4. Left = 1 \/ Left > 1
    <3>1. Left \in Nat /\ Left >= 1
      BY <2>1, NextFile
    <3> QED
      BY <3>1
  <2>5. (QueueOK /\ NewestOK)'
    BY <1>2, <2>1, <2>4, SourceRead, ArtefactRead
  <2>6. build'.queue = <<>> => build'.newest = 0
    <3>1. CASE Left = 1
      BY <1>2, <2>1, <3>1, OneReading
    <3>2. CASE Left > 1
      <4>1. build'.queue = <<Tail(Head(build.queue))>> \o Tail(build.queue)
        BY <1>2, <2>1, <3>2, OneReading
      <4>2. Tail(build.queue) \in Seq(Seq(Files))
        BY <2>1 DEF BuildTypeOK, Builds
      <4>3. build'.queue # <<>>
        BY <4>1, <4>2
      <4> QED
        BY <4>3
    <3> QED
      BY <2>4, <3>1, <3>2
  <2> QED
    BY <2>1, <2>2, <2>3, <2>5, <2>6 DEF ReadingInv
<1>3. CASE \/ Tick
           \/ \E f \in Files : Edit(f) \/ RemoveFile(f)
           \/ \E written \in SUBSET DOMAIN SourcesOf : OtherBuild(written)
  <2>1. BuildTypeOK' /\ ChangesKnown /\ clock' \in Nat /\ build' = build
    BY <1>3, MachineSteps DEF BuildTypeOK, ChangesKnown
  <2> QED
    BY <2>1, ChangesKeepReading DEF ReadingInv
<1>4. CASE UNCHANGED buildVars
  BY <1>4 DEF buildVars, BuildTypeOK, ReadingInv, QueueOK, NewestOK, Turn, Left
<1> QED
  BY <1>1, <1>2, <1>3, <1>4 DEF BuildNext, CommandStep

(* A list's last reading gives the verdict, of what is on disk then.         *)
LEMMA VerdictStep ==
    ASSUME WellFormed, BuildInv, [BuildNext]_buildVars, NEW i \in DOMAIN Targets_,
           Len(build'.verdicts) = i, Len(build.verdicts) = i - 1
    PROVE  LET artefact == Targets_[i]
               sources == {Lists_} \cup {SourcesOf[artefact][k] : k \in DOMAIN SourcesOf[artefact]}
               v == build'.verdicts[i]
           IN  /\ v.stale => \E s \in sources : mtime[s] > mtime[artefact] \/ (s \in touched /\ mtime[s] = 0)
               /\ ~v.stale /\ ~v.note => \A s \in sources : s \notin touched => mtime[s] <= mtime[artefact]
<1> DEFINE t == Targets_[i]
           order == ReadingOrder(t)
           n == build.newest
           a == mtime[t]
<1>1. i \in Nat /\ i >= 1
  BY DEF WellFormed
<1>2. ReadTime
  <2>1. ASSUME build'.verdicts = build.verdicts \/ build'.verdicts = <<>> PROVE FALSE
    <3> HIDE DEF t, order, n, a
    <3>1. CASE build'.verdicts = build.verdicts
      BY <1>1, <3>1
    <3>2. CASE build'.verdicts = <<>>
      BY <1>1, <3>2
    <3> QED
      BY <2>1, <3>1, <3>2
  <2>2. build'.verdicts = build.verdicts
        \/ build'.verdicts = <<>> \/ ReadTime
    <3>1. build \in Builds
      BY DEF BuildInv, BuildTypeOK
    <3>2. ASSUME NEW checkOnly \in BOOLEAN, Begin(checkOnly) PROVE build'.verdicts = <<>>
      BY <3>2 DEF Begin, Idle_
    <3>3. Decide \/ Report => build'.verdicts = build.verdicts
      BY <3>1 DEF Decide, Report, Builds
    <3>4. Rebuild => build'.verdicts = build.verdicts \/ build'.verdicts = <<>>
      BY <3>1 DEF Rebuild, Builds
    <3>5. (Tick \/ (\E f \in Files : Edit(f) \/ RemoveFile(f)) \/ UNCHANGED buildVars
             \/ \E written \in SUBSET DOMAIN SourcesOf : OtherBuild(written)) => build' = build
      BY DEF Tick, Edit, RemoveFile, OtherBuild, buildVars
    <3> QED
      BY <3>2, <3>3, <3>4, <3>5 DEF BuildNext
  <2> QED
    BY <2>1, <2>2
<1>3. QueueOK /\ NewestOK /\ build.queue # <<>> /\ BuildTypeOK
  BY <1>2 DEF ReadTime, BuildInv, ReadingInv
<1>4. Turn = i /\ t \in DOMAIN SourcesOf
  BY <1>1 DEF Turn, WellFormed
<1>5. Left = 1
  <2>1. Left \in Nat /\ Left >= 1
    BY <1>3, NextFile
  <2>2. Left > 1 => build'.verdicts = build.verdicts
    BY <1>2, <1>3, OneReading
  <2> HIDE DEF t, order, n, a
  <2>3. ~(Left > 1)
    <3> SUFFICES ASSUME Left > 1 PROVE FALSE
      OBVIOUS
    <3> QED
      BY <1>1, <2>2
  <2> QED
    BY <2>1, <2>3
<1>6. build'.verdicts = Append(build.verdicts, Verdict(a, n)) /\ build.verdicts \in Seq(Verdicts)
  BY <1>2, <1>3, <1>4, <1>5, OneReading DEF BuildTypeOK, Builds
<1>7. build'.verdicts[i] = Verdict(a, n)
  BY <1>1, <1>6
<1>8. n \in Nat /\ a \in Nat
  BY <1>3, <1>4 DEF BuildTypeOK, Builds, WellFormed
<1>9. /\ SourceFiles(t) \subseteq Files
      /\ \A s \in SourceFiles(t) : mtime[s] \in Nat
  BY <1>3, <1>4, OrderOfReading DEF BuildTypeOK
<1>10. ASSUME n > a, n # 0
       PROVE  \E s \in SourceFiles(t) : mtime[s] > a \/ (s \in touched /\ mtime[s] = 0)
  <2>1. PICK s \in SourceFiles(t) : mtime[s] >= n \/ (s \in touched /\ mtime[s] = 0)
    BY <1>3, <1>4, <1>8, <1>10 DEF NewestOK
  <2>2. mtime[s] \in Nat
    BY <1>9
  <2> HIDE DEF a, n
  <2>3. mtime[s] >= n => mtime[s] > a
    BY <1>8, <1>10, <2>2
  <2> QED
    BY <2>1, <2>3
<1>11. ASSUME ~(n > a), NEW s \in SourceFiles(t), s \notin touched
       PROVE  mtime[s] <= a
  <2>1. PICK m \in 1 .. Len(order) - 1 : order[m] = s
    BY <1>4, OrderOfReading
  <2>2. mtime[s] <= n
    BY <1>3, <1>4, <1>5, <1>11, <2>1 DEF NewestOK
  <2>3. mtime[s] \in Nat
    BY <1>9
  <2> HIDE DEF a, n
  <2> QED
    BY <1>8, <1>11, <2>2, <2>3
<1>12. LET v == Verdict(a, n)
       IN  /\ v.stale => n > a /\ n # 0
           /\ ~v.stale /\ ~v.note => ~(n > a)
  BY DEF Verdict
<1> QED
  BY <1>7, <1>10, <1>11, <1>12 DEF SourceFiles

(* Whatever is edited, removed and built while `build` reads times, the       *)
(* verdict it gives on an artefact holds of the files as they are when it is  *)
(* given, but for the sources touched since the reading began                 *)
(* (rdc_driver.py:140, 155).                                                  *)
THEOREM VerdictsHoldWhenGiven ==
    ASSUME WellFormed, NEW times \in [Files -> 0 .. 2]
    PROVE  BuildInit(times) /\ [][BuildNext]_buildVars => VerdictsAreOfNow
<1>1. BuildInit(times) => BuildInv
  BY DEF BuildInit, Idle_, BuildInv, BuildTypeOK, Builds, ReadingInv
<1>2. BuildInv /\ [BuildNext]_buildVars => BuildInv'
  BY BuildStep
<1>3. BuildInv /\ [BuildNext]_buildVars =>
        [ \A i \in DOMAIN Targets_ :
            Len(build'.verdicts) = i /\ Len(build.verdicts) = i - 1 =>
               LET artefact == Targets_[i]
                   sources == {Lists_} \cup {SourcesOf[artefact][k] : k \in DOMAIN SourcesOf[artefact]}
                   v == build'.verdicts[i]
               IN  /\ v.stale => \E s \in sources : mtime[s] > mtime[artefact] \/ (s \in touched /\ mtime[s] = 0)
                   /\ ~v.stale /\ ~v.note =>
                        \A s \in sources : s \notin touched => mtime[s] <= mtime[artefact] ]_buildVars
  BY VerdictStep
<1> QED
  BY <1>1, <1>2, <1>3, PTL DEF VerdictsAreOfNow

(***************************************************************************)
(* The sidecars of the cache.                                              *)
(***************************************************************************)
LEMMA LeastStored ==
    ASSUME NEW n \in Rows
    PROVE  Least(n, Unique) \in Stored
BY DEF Stored

LEMMA InitType == Init => TypeOK
BY SidecarAssumption DEF Init, TypeOK, Empty, File, Block

LEMMA ScanType ==
    ASSUME NEW q \in Question
    PROVE  ScanOf(q) \in Answer
BY LeastStored DEF ScanOf, Answer, Question

LEMMA EmptyType == Empty \in File
BY DEF Empty, File

LEMMA TypeStep == TypeOK /\ [Next]_vars => TypeOK'
<1> SUFFICES ASSUME TypeOK, [Next]_vars PROVE TypeOK'
  OBVIOUS
<1> USE DEF fileVars, procVars
<1>1. ASSUME NEW p \in Proc, Ask(p) PROVE TypeOK'
  BY <1>1, SidecarAssumption DEF Ask, TypeOK, Question
<1>2. ASSUME NEW p \in Proc, OpenSidecar(p) PROVE TypeOK'
  BY <1>2 DEF OpenSidecar, TypeOK, Path
<1>3. ASSUME NEW p \in Proc, ReadBlock(p) PROVE TypeOK'
  <2>1. at[p] \in Block /\ data[fd[p]][at[p]] \in Piece \cup {NoBlock}
    BY <1>3 DEF ReadBlock, TypeOK, File
  <2>2. copy' \in [Proc -> File]
    BY <1>3, <2>1 DEF ReadBlock, TypeOK, File
  <2> QED
    BY <1>3, <2>2 DEF ReadBlock, TypeOK
<1>4. ASSUME NEW p \in Proc, Judge(p) PROVE TypeOK'
  <2> DEFINE fit == {d \in Parsed(copy[p]) : Accepts(d, job[p])}
  <2>1. fit \subseteq Answer
    BY DEF Parsed
  <2>2. CASE fit = {}
    BY <1>4, <2>2, EmptyType DEF Judge, TypeOK
  <2>3. ASSUME NEW d \in fit, answer' = [answer EXCEPT ![p] = d],
               pc' = [pc EXCEPT ![p] = "done"]
        PROVE  TypeOK'
    BY <1>4, <2>1, <2>3, EmptyType DEF Judge, TypeOK
  <2> QED
    BY <1>4, <2>2, <2>3 DEF Judge
<1>5. ASSUME NEW p \in Proc, Scan(p) PROVE TypeOK'
  <2>1. ScanOf(job[p]) \in Answer
    BY <1>5, ScanType DEF Scan, TypeOK
  <2> QED
    BY <1>5, <2>1 DEF Scan, TypeOK, Question
<1>6. ASSUME NEW p \in Proc, OpenTmp(p) PROVE TypeOK'
  BY <1>6, EmptyType DEF OpenTmp, TypeOK, Path
<1>7. ASSUME NEW p \in Proc, WriteBlock(p) PROVE TypeOK'
  <2>1. answer[p] \in Answer /\ fd[p] \in Inode /\ at[p] \in Nat \ {0}
    BY <1>7 DEF WriteBlock, TypeOK
  <2>2. Size[answer[p].rows] \in Block
    BY <2>1, SidecarAssumption DEF Answer
  <2>3. at[p] \in Block
    BY <1>7, <2>1, <2>2, SidecarAssumption DEF WriteBlock, Block
  <2>4. [data[fd[p]] EXCEPT ![at[p]] = PieceOf(answer[p], at[p])] \in File
    <3>1. PieceOf(answer[p], at[p]) \in Piece
      BY <2>1 DEF PieceOf, Piece, Answer, Text, TextOf
    <3> QED
      BY <2>1, <2>3, <3>1 DEF TypeOK, File
  <2>5. data' \in [Inode -> File]
    BY <1>7, <2>1, <2>4 DEF WriteBlock, TypeOK
  <2> QED
    BY <1>7, <2>5 DEF WriteBlock, TypeOK
<1>8. ASSUME NEW p \in Proc, CloseTmp(p) PROVE TypeOK'
  BY <1>8 DEF CloseTmp, TypeOK
<1>9. ASSUME NEW p \in Proc, Publish(p) PROVE TypeOK'
  BY <1>9 DEF Publish, TypeOK, Path
<1>10. ASSUME NEW p \in Proc, StoreFails(p) PROVE TypeOK'
  BY <1>10 DEF StoreFails, TypeOK
<1>11. ASSUME NEW p \in Proc, Discard(p) PROVE TypeOK'
  BY <1>11 DEF Discard, TypeOK, Path
<1>12. ASSUME NEW p \in Proc, Exit(p) PROVE TypeOK'
  BY <1>12, EmptyType DEF Exit, TypeOK
<1>13. ASSUME NEW k \in Identity, Clear(k) PROVE TypeOK'
  BY <1>13 DEF Clear, TypeOK
<1>14. CASE UNCHANGED vars
  BY <1>14 DEF vars, TypeOK
<1> QED
  BY <1>1, <1>2, <1>3, <1>4, <1>5, <1>6, <1>7, <1>8, <1>9, <1>10, <1>11, <1>12, <1>13, <1>14
     DEF Next, Step, Finish, Crash

(* Every variable keeps its type, however writers and clears interleave.   *)
THEOREM SidecarTypeCorrect == Spec => []TypeOK
BY InitType, TypeStep, PTL DEF Spec

-----------------------------------------------------------------------------
(* Which names a file has, and who has it open: a file in use is of one     *)
(* sidecar, and what a command reads is no temporary name's any more.       *)
Known(k) == {entry[k], tmp[k]} \ {NoInode}
InUse(p) == pc[p] \in {"read", "write"}

PlaceInv ==
    /\ \A k, l \in Identity : k # l => Known(k) \cap Known(l) = {}
    /\ \A k \in Identity : entry[k] # NoInode => entry[k] # tmp[k]
    /\ \A p \in Proc, k \in Identity : InUse(p) /\ fd[p] \in Known(k) => k = Path(p)
    /\ \A p \in Proc : pc[p] = "read" => fd[p] # tmp[Path(p)]
    /\ \A p, q \in Proc : InUse(p) /\ InUse(q) /\ fd[p] = fd[q] => Path(p) = Path(q)

LEMMA OthersStay ==
    ASSUME PlaceInv, NEW p \in Proc, UNCHANGED <<entry, tmp>>, pc'[p] \notin {"read", "write"},
           \A q \in Proc \ {p} : pc'[q] = pc[q] /\ fd'[q] = fd[q] /\ job'[q] = job[q]
    PROVE  PlaceInv'
<1>1. \A q \in Proc : InUse(q)' => q # p /\ InUse(q)
  BY DEF InUse
<1>2. \A q \in Proc : q # p => Path(q)' = Path(q) /\ fd'[q] = fd[q] /\ pc'[q] = pc[q]
  BY DEF Path
<1>3. \A k \in Identity : Known(k)' = Known(k)
  BY DEF Known
<1>4. \A q \in Proc : pc'[q] = "read" => fd'[q] # tmp'[Path(q)']
  BY <1>2 DEF PlaceInv
<1> QED
  BY <1>1, <1>2, <1>3, <1>4 DEF PlaceInv

LEMMA PlaceStep == TypeOK /\ PlaceInv /\ [Next]_vars => PlaceInv'
<1> SUFFICES ASSUME TypeOK, PlaceInv, [Next]_vars PROVE PlaceInv'
  OBVIOUS
<1> USE DEF fileVars, procVars
<1> USE SidecarAssumption
<1>1. ASSUME NEW p \in Proc, Ask(p) PROVE PlaceInv'
  <2>1. /\ UNCHANGED <<entry, tmp, fd>> /\ pc'[p] \notin {"read", "write"}
        /\ \A q \in Proc \ {p} : pc'[q] = pc[q] /\ job'[q] = job[q]
    BY <1>1 DEF Ask, TypeOK
  <2> QED
    BY <2>1, OthersStay
<1>2. ASSUME NEW p \in Proc, OpenSidecar(p) PROVE PlaceInv'
  <2> DEFINE k == Path(p)
  <2>1. /\ UNCHANGED <<entry, tmp, job>> /\ k \in Identity
        /\ \A q \in Proc \ {p} : pc'[q] = pc[q] /\ fd'[q] = fd[q]
        /\ \/ pc'[p] \notin {"read", "write"}
           \/ entry[k] # NoInode /\ fd'[p] = entry[k] /\ pc'[p] = "read"
    <3>1. k \in Identity /\ pc[p] = "load" /\ UNCHANGED <<entry, tmp, job>>
      BY <1>2 DEF OpenSidecar, TypeOK, Path
    <3>2. CASE entry[k] = NoInode
      <4>1. pc' = [pc EXCEPT ![p] = "scan"] /\ UNCHANGED fd
        BY <1>2, <3>2 DEF OpenSidecar
      <4>2. pc'[p] = "scan" /\ \A q \in Proc \ {p} : pc'[q] = pc[q]
        BY <4>1 DEF TypeOK
      <4> QED
        BY ONLY <3>1, <4>1, <4>2
    <3>3. CASE entry[k] # NoInode
      BY <1>2, <3>1, <3>3 DEF OpenSidecar, TypeOK
    <3> QED
      BY <3>2, <3>3
  <2>2. CASE pc'[p] \notin {"read", "write"}
    BY <2>1, <2>2, OthersStay
  <2>3. CASE entry[k] # NoInode /\ fd'[p] = entry[k] /\ pc'[p] = "read"
    <3>1. \A q \in Proc : Path(q)' = Path(q)
      BY <2>1 DEF Path
    <3>2. \A l \in Identity : Known(l)' = Known(l)
      BY <2>1 DEF Known
    <3>3. entry[k] \in Known(k) /\ entry[k] # tmp[k] /\ \A l \in Identity : entry[k] \in Known(l) => l = k
      BY <2>1, <2>3 DEF Known, PlaceInv
    <3>4. \A q \in Proc : InUse(q) /\ fd[q] = entry[k] => Path(q) = k
      BY <2>1, <3>3 DEF PlaceInv
    <3> HIDE DEF k
    <3>5. \A q \in Proc \ {p} : InUse(q)' = InUse(q)
      BY <2>1 DEF InUse
    <3>6. \A q \in Proc, l \in Identity : InUse(q)' /\ fd'[q] \in Known(l)' => l = Path(q)'
      BY <2>1, <2>3, <3>1, <3>2, <3>3, <3>5 DEF PlaceInv, k
    <3>7. \A q, r \in Proc : InUse(q)' /\ InUse(r)' /\ fd'[q] = fd'[r] => Path(q)' = Path(r)'
      BY <2>1, <2>3, <3>1, <3>4, <3>5 DEF PlaceInv, k
    <3>8. \A q \in Proc : pc'[q] = "read" => fd'[q] # tmp'[Path(q)']
      BY <2>1, <2>3, <3>1, <3>3 DEF PlaceInv, k
    <3>9. /\ \A l, m \in Identity : l # m => Known(l)' \cap Known(m)' = {}
          /\ \A l \in Identity : entry'[l] # NoInode => entry'[l] # tmp'[l]
      BY <2>1, <3>2 DEF PlaceInv
    <3> QED
      BY <3>6, <3>7, <3>8, <3>9 DEF PlaceInv
  <2> QED
    BY <2>1, <2>2, <2>3
<1>3. ASSUME NEW p \in Proc, ReadBlock(p) \/ WriteBlock(p) PROVE PlaceInv'
  <2>1. UNCHANGED <<entry, tmp, pc, fd, job>>
    BY <1>3 DEF ReadBlock, WriteBlock
  <2> QED
    BY <2>1 DEF PlaceInv, Known, InUse, Path
<1>4. ASSUME NEW p \in Proc, Judge(p) \/ CloseTmp(p) \/ StoreFails(p) PROVE PlaceInv'
  <2>1. UNCHANGED <<entry, tmp, job>> /\ pc'[p] \notin {"read", "write"}
        /\ \A q \in Proc \ {p} : pc'[q] = pc[q] /\ fd'[q] = fd[q]
    BY <1>4 DEF Judge, CloseTmp, StoreFails, TypeOK
  <2> QED
    BY <2>1 DEF PlaceInv, Known, InUse, Path
<1>5. ASSUME NEW p \in Proc, Scan(p) PROVE PlaceInv'
  <2>1. /\ UNCHANGED <<entry, tmp>> /\ pc'[p] \notin {"read", "write"}
        /\ \A q \in Proc \ {p} : pc'[q] = pc[q] /\ fd'[q] = fd[q] /\ job'[q] = job[q]
    BY <1>5 DEF Scan, TypeOK
  <2> QED
    BY <2>1, OthersStay
<1>6. ASSUME NEW p \in Proc, OpenTmp(p) PROVE PlaceInv'
  <2> DEFINE k == Path(p)
  <2>0. k \in Identity /\ pc[p] = "open" /\ UNCHANGED <<entry, job>>
    BY <1>6 DEF OpenTmp, TypeOK, Path
  <2>1. PICK i \in Inode : /\ IF tmp[k] = NoInode THEN Fresh(i) ELSE i = tmp[k]
                           /\ tmp' = [tmp EXCEPT ![k] = i] /\ fd' = [fd EXCEPT ![p] = i]
    BY <1>6 DEF OpenTmp
  <2>2. /\ tmp'[k] = i /\ \A l \in Identity \ {k} : tmp'[l] = tmp[l]
        /\ fd'[p] = i /\ pc'[p] = "write" /\ \A q \in Proc \ {p} : fd'[q] = fd[q] /\ pc'[q] = pc[q]
    BY <1>6, <2>0, <2>1 DEF OpenTmp, TypeOK
  <2>3. i # entry[k] /\ \A l \in Identity \ {k} : i # entry[l] /\ i # tmp[l]
    BY <2>0, <2>1 DEF Fresh, Free, PlaceInv, Known
  <2>4. \A q \in Proc : InUse(q) /\ fd[q] = i => Path(q) = k /\ pc[q] # "read"
    BY <2>0, <2>1 DEF Fresh, Free, PlaceInv, Known
  <2>5. \A q \in Proc : Path(q)' = Path(q)
    BY <2>0 DEF Path
  <2> HIDE DEF k
  <2>6. \A l \in Identity : Known(l)' = IF l = k THEN ({entry[l]} \ {NoInode}) \cup {i} ELSE Known(l)
    BY <2>0, <2>2 DEF Known
  <2>7. \A q \in Proc : InUse(q)' <=> q = p \/ InUse(q)
    BY <2>2 DEF InUse
  <2>8. \A q \in Proc, l \in Identity : InUse(q)' /\ fd'[q] \in Known(l)' => l = Path(q)'
    BY <2>0, <2>2, <2>3, <2>4, <2>5, <2>6, <2>7 DEF PlaceInv, Known, k
  <2>9. \A q, r \in Proc : InUse(q)' /\ InUse(r)' /\ fd'[q] = fd'[r] => Path(q)' = Path(r)'
    BY <2>2, <2>4, <2>5, <2>7 DEF PlaceInv, k
  <2>10. \A q \in Proc : pc'[q] = "read" => fd'[q] # tmp'[Path(q)]
    BY <2>0, <2>2, <2>4 DEF PlaceInv, InUse, TypeOK, Path
  <2>11. \A l, m \in Identity : l # m => Known(l)' \cap Known(m)' = {}
    BY <2>3, <2>6 DEF PlaceInv, Known
  <2>12. \A l \in Identity : entry'[l] # NoInode => entry'[l] # tmp'[l]
    BY <2>0, <2>2, <2>3 DEF PlaceInv
  <2> QED
    BY <2>5, <2>8, <2>9, <2>10, <2>11, <2>12 DEF PlaceInv
<1>7. ASSUME NEW p \in Proc, Publish(p) PROVE PlaceInv'
  <2> DEFINE k == Path(p)
  <2>1. /\ k \in Identity /\ tmp[k] # NoInode /\ pc[p] = "rename" /\ pc'[p] = "done" /\ UNCHANGED <<fd, job>>
        /\ entry'[k] = tmp[k] /\ tmp'[k] = NoInode
        /\ \A l \in Identity \ {k} : entry'[l] = entry[l] /\ tmp'[l] = tmp[l]
        /\ \A q \in Proc \ {p} : pc'[q] = pc[q]
    BY <1>7 DEF Publish, TypeOK, Path
  <2>2. \A q \in Proc : Path(q)' = Path(q)
    BY <2>1 DEF Path
  <2> HIDE DEF k
  <2>3. \A l \in Identity : Known(l)' \subseteq Known(l)
    BY <2>1 DEF Known
  <2>4. \A q \in Proc : InUse(q)' => InUse(q) /\ q # p
    BY <2>1 DEF InUse
  <2>5. \A q \in Proc : pc'[q] = "read" => fd'[q] # tmp'[Path(q)]
    BY <2>1 DEF PlaceInv, TypeOK, Path
  <2>6. \A l \in Identity : entry'[l] # NoInode => entry'[l] # tmp'[l]
    BY <2>1 DEF PlaceInv
  <2> QED
    BY <2>1, <2>2, <2>3, <2>4, <2>5, <2>6 DEF PlaceInv
<1>8. ASSUME NEW p \in Proc, Discard(p) PROVE PlaceInv'
  <2>1. /\ UNCHANGED <<entry, fd, job>> /\ pc[p] = "discard" /\ pc'[p] = "done"
        /\ \A l \in Identity : tmp'[l] \in {tmp[l], NoInode}
        /\ \A q \in Proc \ {p} : pc'[q] = pc[q]
    BY <1>8 DEF Discard, TypeOK
  <2>2. \A l \in Identity : Known(l)' \subseteq Known(l)
    BY <2>1 DEF Known
  <2>3. \A q \in Proc : Path(q)' = Path(q) /\ (InUse(q)' => InUse(q) /\ pc'[q] = pc[q])
    BY <2>1 DEF Path, InUse
  <2>4. \A q \in Proc : pc'[q] = "read" => fd'[q] # tmp'[Path(q)]
    BY <2>1 DEF PlaceInv, TypeOK, Path
  <2> QED
    BY <2>1, <2>2, <2>3, <2>4 DEF PlaceInv
<1>9. ASSUME NEW p \in Proc, Exit(p) PROVE PlaceInv'
  <2>1. /\ UNCHANGED <<entry, tmp>> /\ pc'[p] = "idle"
        /\ \A q \in Proc \ {p} : pc'[q] = pc[q] /\ fd'[q] = fd[q] /\ job'[q] = job[q]
    BY <1>9 DEF Exit, TypeOK
  <2> QED
    BY <2>1, OthersStay
<1>10. ASSUME NEW k \in Identity, Clear(k) PROVE PlaceInv'
  <2>1. /\ UNCHANGED procVars
        /\ \A l \in Identity : entry'[l] \in {entry[l], NoInode} /\ tmp'[l] \in {tmp[l], NoInode}
    BY <1>10 DEF Clear, TypeOK
  <2>2. \A l \in Identity : Known(l)' \subseteq Known(l)
    BY <2>1 DEF Known
  <2>3. \A q \in Proc : pc'[q] = "read" => fd'[q] # tmp'[Path(q)]
    BY <2>1 DEF PlaceInv, TypeOK, Path
  <2>4. \A q \in Proc : Path(q)' = Path(q) /\ InUse(q)' = InUse(q) /\ fd'[q] = fd[q]
    BY <2>1 DEF Path, InUse
  <2>5. \A l \in Identity : entry'[l] # NoInode => entry'[l] # tmp'[l]
    BY <2>1 DEF PlaceInv
  <2> QED
    BY <2>2, <2>3, <2>4, <2>5 DEF PlaceInv
<1>11. CASE UNCHANGED vars
  BY <1>11 DEF vars, PlaceInv, Known, InUse, Path
<1> QED
  BY <1>1, <1>2, <1>3, <1>4, <1>5, <1>6, <1>7, <1>8, <1>9, <1>10, <1>11 DEF Next, Step, Finish, Crash

-----------------------------------------------------------------------------
(* While commands at one sidecar are alike, a file holds one text, what is  *)
(* being written into it and what has been read of it being of that text.   *)
AlikeNow ==
    \A p, q \in Proc :
        pc[p] # "idle" /\ pc[q] # "idle" /\ job[p].at = job[q].at /\ job[p].at \in Identity =>
            TextOf(job[p]) = TextOf(job[q])

OneText ==
    \A i \in Inode, b, c \in Block :
        data[i][b] # NoBlock /\ data[i][c] # NoBlock => data[i][b].text = data[i][c].text

TextInv ==
    /\ AlikeNow /\ OneText
    /\ \A p \in Proc, b \in Block :
          pc[p] = "write" /\ data[fd[p]][b] # NoBlock => data[fd[p]][b].text = TextOf(job[p])
    /\ \A p \in Proc, b \in Block :
          pc[p] = "read" /\ copy[p][b] # NoBlock =>
              data[fd[p]][b] # NoBlock /\ data[fd[p]][b].text = copy[p][b].text
    /\ \A p \in Proc : pc[p] # "read" => copy[p] = Empty

Unanswered == \A p \in Proc : pc[p] = "idle" => answer[p] = NoAnswer

ServeInv == TypeOK /\ PlaceInv /\ TextInv /\ AnswerRight /\ Unanswered

LEMMA AlikeStep ==
    ASSUME Alike, TypeOK, AlikeNow, [Next]_vars
    PROVE  AlikeNow'
<1> USE DEF fileVars, procVars
<1>1. ASSUME NEW p \in Proc, Ask(p) PROVE AlikeNow'
  <2>1. PICK q \in Question : Welcome(q) /\ job' = [job EXCEPT ![p] = q]
    BY <1>1 DEF Ask
  <2>2. job'[p] = q /\ pc[p] = "idle" /\ \A o \in Proc \ {p} : job'[o] = job[o] /\ pc'[o] = pc[o]
    BY <1>1, <2>1 DEF Ask, TypeOK
  <2>3. \A o \in Proc : pc[o] # "idle" /\ job[o].at = q.at /\ q.at \in Identity => TextOf(job[o]) = TextOf(q)
    BY <2>1, SidecarAssumption DEF Welcome
  <2>4. ASSUME NEW o \in Proc, NEW r \in Proc,
               pc'[o] # "idle", pc'[r] # "idle", job'[o].at = job'[r].at, job'[o].at \in Identity
        PROVE  TextOf(job'[o]) = TextOf(job'[r])
    <3>1. CASE o = p
      BY <2>2, <2>3, <2>4, <3>1
    <3>2. CASE r = p
      BY <2>2, <2>3, <2>4, <3>2
    <3>3. CASE o # p /\ r # p
      BY <2>2, <2>4, <3>3 DEF AlikeNow
    <3> QED
      BY <3>1, <3>2, <3>3
  <2> QED
    BY <2>4 DEF AlikeNow, TextOf
<1>2. ASSUME job' = job, \A q \in Proc : pc'[q] # "idle" => pc[q] # "idle" PROVE AlikeNow'
  BY <1>2 DEF AlikeNow, TextOf
<1>3. ASSUME NEW p \in Proc, Step(p), ~Finish(p) PROVE AlikeNow'
  <2>1. job' = job /\ \A q \in Proc : pc'[q] # "idle" => pc[q] # "idle"
    BY <1>3 DEF Step, OpenSidecar, ReadBlock, Judge, Scan, OpenTmp, WriteBlock, CloseTmp, Publish, StoreFails,
       Discard, TypeOK
  <2> QED
    BY <1>2, <2>1
<1>4. ASSUME NEW p \in Proc, Exit(p) PROVE AlikeNow'
  <2>1. pc'[p] = "idle" /\ \A o \in Proc \ {p} : job'[o] = job[o] /\ pc'[o] = pc[o]
    BY <1>4 DEF Exit, TypeOK
  <2>2. ASSUME NEW o \in Proc, NEW r \in Proc,
               pc'[o] # "idle", pc'[r] # "idle", job'[o].at = job'[r].at, job'[o].at \in Identity
        PROVE  TextOf(job'[o]) = TextOf(job'[r])
    BY <2>1, <2>2 DEF AlikeNow
  <2> QED
    BY <2>2 DEF AlikeNow, TextOf
<1>5. CASE (\E k \in Identity : Clear(k)) \/ UNCHANGED vars
  BY <1>2, <1>5 DEF Clear, vars
<1> QED
  BY <1>1, <1>3, <1>4, <1>5 DEF Next, Step, Finish, Crash

(* A document that was read of a file of one text and passes the checks     *)
(* answers the question, when the digest tells streams apart.               *)
LEMMA AcceptedIsRight ==
    ASSUME \A s, t \in Stream : Digest[s] = Digest[t] => s = t,
           NEW f \in File, \A b, c \in Block : f[b] # NoBlock /\ f[c] # NoBlock => f[b].text = f[c].text,
           NEW d \in Parsed(f), NEW q \in Question, Accepts(d, q)
    PROVE  TextOf(d) = TextOf(q) /\ d.whole /\ d.rows >= Least(q.rows, Unique)
<1>1. d \in Answer
  BY DEF Parsed
<1>2. d.stream \in Stream /\ q.stream \in Stream /\ q.rows \in Nat /\ Unique \in Nat
  BY <1>1, SidecarAssumption DEF Answer, Question
<1>3. PICK rows \in Rows : d.rows = Least(rows, Unique)
  BY <1>1 DEF Answer, Stored
<1>4. d.rows \in Nat
  BY <1>2, <1>3, SidecarAssumption DEF Least
<1>5. d.whole
  <2>1. PICK n \in Block : /\ \A b \in Block : f[b] # NoBlock <=> b <= n
                           /\ d.whole <=> \A b \in 1 .. n : f[b].text = f[1].text
    BY DEF Parsed
  <2>2. n \in Nat /\ n >= 1 /\ n <= Blocks /\ Blocks \in Nat
    BY SidecarAssumption DEF Block
  <2>3. \A b \in 1 .. n : b \in Block /\ 1 \in Block /\ f[b] # NoBlock /\ f[1] # NoBlock
    BY <2>1, <2>2 DEF Block
  <2> QED
    BY <2>1, <2>3
<1> QED
  BY <1>2, <1>4, <1>5 DEF Accepts, Least, TextOf

-----------------------------------------------------------------------------
(* Steps that touch neither a file's data nor what is read of it.           *)
LEMMA DataStays ==
    ASSUME TextInv, AlikeNow', UNCHANGED data,
           \A q \in Proc : \/ pc'[q] \notin {"read", "write"} /\ copy'[q] = Empty
                           \/ pc'[q] = pc[q] /\ fd'[q] = fd[q] /\ job'[q] = job[q] /\ copy'[q] = copy[q]
    PROVE  TextInv'
<1>1. OneText'
  BY DEF TextInv, OneText
<1>2. \A p \in Proc, b \in Block :
          pc'[p] = "write" /\ data'[fd'[p]][b] # NoBlock => data'[fd'[p]][b].text = TextOf(job'[p])
  BY DEF TextInv
<1>3. \A p \in Proc, b \in Block :
          pc'[p] = "read" /\ copy'[p][b] # NoBlock =>
              data'[fd'[p]][b] # NoBlock /\ data'[fd'[p]][b].text = copy'[p][b].text
  BY DEF TextInv
<1>4. \A p \in Proc : pc'[p] # "read" => copy'[p] = Empty
  BY DEF TextInv
<1>5. Empty' = Empty
  BY DEF Empty
<1> QED
  BY <1>1, <1>2, <1>3, <1>4, <1>5 DEF TextInv, TextOf

(* A process opens nothing a reader still holds, and truncates nothing but  *)
(* what its own temporary name refers to.                                   *)
LEMMA TextStep ==
    ASSUME Alike, ServeInv, [Next]_vars
    PROVE  TextInv'
<1> USE DEF fileVars, procVars
<1>0. TypeOK /\ PlaceInv /\ TextInv /\ AlikeNow' /\ AnswerRight
  BY AlikeStep DEF ServeInv, TextInv
<1>1. ASSUME NEW p \in Proc, Ask(p) \/ Scan(p) \/ CloseTmp(p) \/ StoreFails(p) \/ Publish(p) \/ Discard(p) PROVE TextInv'
  <2>1. UNCHANGED <<data, copy>> /\ pc[p] # "read" /\ pc'[p] \notin {"read", "write"}
        /\ \A q \in Proc \ {p} : pc'[q] = pc[q] /\ job'[q] = job[q] /\ fd'[q] = fd[q]
    BY <1>0, <1>1 DEF Ask, Scan, CloseTmp, StoreFails, Publish, Discard, TypeOK
  <2>2. copy'[p] = Empty
    BY <1>0, <2>1 DEF TextInv
  <2>3. \A q \in Proc : \/ pc'[q] \notin {"read", "write"} /\ copy'[q] = Empty
                        \/ pc'[q] = pc[q] /\ fd'[q] = fd[q] /\ job'[q] = job[q] /\ copy'[q] = copy[q]
    BY <2>1, <2>2
  <2> QED
    BY ONLY <1>0, <2>1, <2>3, DataStays
<1>2. ASSUME NEW p \in Proc, OpenSidecar(p) PROVE TextInv'
  <2>1. UNCHANGED <<data, copy, job>> /\ pc[p] = "load" /\ pc'[p] \in {"scan", "read"}
        /\ \A q \in Proc \ {p} : pc'[q] = pc[q] /\ fd'[q] = fd[q]
    BY <1>0, <1>2 DEF OpenSidecar, TypeOK
  <2>2. copy'[p] = Empty
    BY <1>0, <2>1 DEF TextInv
  <2>3. \A b \in Block : copy'[p][b] = NoBlock
    BY <2>2 DEF Empty
  <2>4. \A q \in Proc, b \in Block :
            pc'[q] = "write" /\ data'[fd'[q]][b] # NoBlock => data'[fd'[q]][b].text = TextOf(job'[q])
    BY <1>0, <2>1 DEF TextInv
  <2>5. \A q \in Proc, b \in Block :
            pc'[q] = "read" /\ copy'[q][b] # NoBlock =>
                data'[fd'[q]][b] # NoBlock /\ data'[fd'[q]][b].text = copy'[q][b].text
    BY <1>0, <2>1, <2>3 DEF TextInv
  <2>6. \A q \in Proc : pc'[q] # "read" => copy'[q] = Empty
    BY <1>0, <2>1, <2>2 DEF TextInv
  <2>7. Empty' = Empty
    BY DEF Empty
  <2> QED
    BY <1>0, <2>1, <2>4, <2>5, <2>6, <2>7 DEF TextInv, OneText, TextOf
<1>3. ASSUME NEW p \in Proc, ReadBlock(p) PROVE TextInv'
  <2>1. /\ UNCHANGED <<data, pc, fd, job>> /\ pc[p] = "read" /\ at[p] \in Block
        /\ \A q \in Proc \ {p} : copy'[q] = copy[q]
        /\ \A b \in Block : copy'[p][b] = IF b = at[p] THEN data[fd[p]][b] ELSE copy[p][b]
    BY <1>0, <1>3 DEF ReadBlock, TypeOK, File
  <2>2. \A q \in Proc, b \in Block :
            pc'[q] = "write" /\ data'[fd'[q]][b] # NoBlock => data'[fd'[q]][b].text = TextOf(job'[q])
    BY <1>0, <2>1 DEF TextInv
  <2>3. \A q \in Proc, b \in Block :
            pc'[q] = "read" /\ copy'[q][b] # NoBlock =>
                data'[fd'[q]][b] # NoBlock /\ data'[fd'[q]][b].text = copy'[q][b].text
    BY <1>0, <2>1 DEF TextInv
  <2>4. \A q \in Proc : pc'[q] # "read" => copy'[q] = Empty
    BY <1>0, <2>1 DEF TextInv
  <2>5. Empty' = Empty
    BY DEF Empty
  <2> QED
    BY <1>0, <2>1, <2>2, <2>3, <2>4, <2>5 DEF TextInv, OneText, TextOf
<1>4. ASSUME NEW p \in Proc, Judge(p) \/ Exit(p) PROVE TextInv'
  <2>1. UNCHANGED data /\ pc'[p] \notin {"read", "write"} /\ copy'[p] = Empty
        /\ \A q \in Proc \ {p} : pc'[q] = pc[q] /\ job'[q] = job[q] /\ fd'[q] = fd[q] /\ copy'[q] = copy[q]
    BY <1>0, <1>4 DEF Judge, Exit, TypeOK
  <2>2. \A q \in Proc : \/ pc'[q] \notin {"read", "write"} /\ copy'[q] = Empty
                        \/ pc'[q] = pc[q] /\ fd'[q] = fd[q] /\ job'[q] = job[q] /\ copy'[q] = copy[q]
    BY <2>1
  <2> QED
    BY ONLY <1>0, <2>1, <2>2, DataStays
<1>5. ASSUME NEW p \in Proc, OpenTmp(p) PROVE TextInv'
  <2>1. PICK i \in Inode : /\ IF tmp[Path(p)] = NoInode THEN Fresh(i) ELSE i = tmp[Path(p)]
                           /\ data' = [data EXCEPT ![i] = Empty] /\ fd' = [fd EXCEPT ![p] = i]
    BY <1>5 DEF OpenTmp
  <2>2. /\ data'[i] = Empty /\ \A j \in Inode \ {i} : data'[j] = data[j]
        /\ fd'[p] = i /\ pc[p] = "open" /\ pc'[p] = "write" /\ Path(p) \in Identity
        /\ \A q \in Proc \ {p} : fd'[q] = fd[q] /\ pc'[q] = pc[q]
        /\ UNCHANGED <<copy, job>>
    BY <1>0, <1>5, <2>1 DEF OpenTmp, TypeOK, Path
  <2>3. \A b \in Block : data'[i][b] = NoBlock
    BY <2>2 DEF Empty
  <2>4. \A q \in Proc : pc[q] = "read" => fd[q] # i /\ fd[q] \in Inode
    BY <1>0, <2>1, <2>2, SidecarAssumption DEF PlaceInv, Known, InUse, Fresh, Free, TypeOK
  <2>5. \A q \in Proc : pc'[q] = "write" => fd'[q] \in Inode
    BY <1>0, <2>2 DEF TypeOK
  <2>6. OneText'
    BY <1>0, <2>2, <2>3 DEF TextInv, OneText
  <2>7. \A q \in Proc, b \in Block :
            pc'[q] = "write" /\ data'[fd'[q]][b] # NoBlock => data'[fd'[q]][b].text = TextOf(job'[q])
    BY <1>0, <2>2, <2>3, <2>5 DEF TextInv
  <2>8. \A q \in Proc, b \in Block :
            pc'[q] = "read" /\ copy'[q][b] # NoBlock =>
                data'[fd'[q]][b] # NoBlock /\ data'[fd'[q]][b].text = copy'[q][b].text
    BY <1>0, <2>2, <2>4 DEF TextInv
  <2>9. \A q \in Proc : pc'[q] # "read" => copy'[q] = Empty
    BY <1>0, <2>2 DEF TextInv
  <2>10. Empty' = Empty
    BY DEF Empty
  <2> QED
    BY <1>0, <2>6, <2>7, <2>8, <2>9, <2>10 DEF TextInv, TextOf
<1>6. ASSUME NEW p \in Proc, WriteBlock(p) PROVE TextInv'
  <2> DEFINE i == fd[p]
             piece == PieceOf(answer[p], at[p])
  <2>1. /\ pc[p] = "write" /\ i \in Inode /\ answer[p] \in Answer /\ answer[p] # NoAnswer
        /\ data' = [data EXCEPT ![i] = [data[i] EXCEPT ![at[p]] = piece]]
        /\ UNCHANGED <<pc, fd, job, copy>> /\ data[i] \in File
    BY <1>0, <1>6, SidecarAssumption DEF WriteBlock, TypeOK
  <2>2. piece.text = TextOf(job[p]) /\ piece # NoBlock
    <3>1. piece.text = TextOf(answer[p]) /\ piece \in Piece
      BY <2>1 DEF PieceOf, Piece, Answer, Text, TextOf
    <3> QED
      BY <1>0, <2>1, <3>1, SidecarAssumption DEF AnswerRight
  <2>3. /\ \A j \in Inode \ {i} : data'[j] = data[j]
        /\ \A b \in Block : data'[i][b] = IF b = at[p] THEN piece ELSE data[i][b]
    BY <1>0, <2>1 DEF TypeOK, File
  <2>4. \A b \in Block : data[i][b] # NoBlock => data[i][b].text = TextOf(job[p])
    BY <1>0, <2>1 DEF TextInv
  <2>5. \A q \in Proc : pc[q] \in {"read", "write"} /\ fd[q] = i => TextOf(job[q]) = TextOf(job[p])
    BY <1>0, <2>1 DEF PlaceInv, InUse, Path, TextInv, AlikeNow, TypeOK
  <2>6. \A q \in Proc : pc[q] \in {"read", "write"} => fd[q] \in Inode
    BY <1>0 DEF TypeOK
  <2> HIDE DEF piece, i
  <2>7. \A b \in Block : data'[i][b] # NoBlock => data'[i][b].text = TextOf(job[p])
    BY <2>2, <2>3, <2>4
  <2>8. OneText'
    BY <1>0, <2>3, <2>7 DEF TextInv, OneText
  <2>9. \A q \in Proc, b \in Block :
            pc'[q] = "write" /\ data'[fd'[q]][b] # NoBlock => data'[fd'[q]][b].text = TextOf(job'[q])
    BY <1>0, <2>1, <2>3, <2>5, <2>6, <2>7 DEF TextInv
  <2>10. ASSUME NEW q \in Proc, NEW b \in Block, pc'[q] = "read", copy'[q][b] # NoBlock
         PROVE  data'[fd'[q]][b] # NoBlock /\ data'[fd'[q]][b].text = copy'[q][b].text
    <3>1. data[fd[q]][b] # NoBlock /\ data[fd[q]][b].text = copy[q][b].text /\ fd[q] \in Inode
      BY <1>0, <2>1, <2>6, <2>10 DEF TextInv
    <3> QED
      BY <2>1, <2>2, <2>3, <2>4, <3>1
  <2>11. \A q \in Proc : pc'[q] # "read" => copy'[q] = Empty
    BY <1>0, <2>1 DEF TextInv
  <2>12. Empty' = Empty
    BY DEF Empty
  <2> QED
    BY <1>0, <2>8, <2>9, <2>10, <2>11, <2>12 DEF TextInv, TextOf
<1>7. CASE (\E k \in Identity : Clear(k)) \/ UNCHANGED vars
  <2>1. UNCHANGED <<data, pc, fd, job, copy>>
    BY <1>7 DEF Clear, vars
  <2> QED
    BY <1>0, <2>1, DataStays
<1> QED
  BY <1>1, <1>2, <1>3, <1>4, <1>5, <1>6, <1>7 DEF Next, Step, Finish, Crash

-----------------------------------------------------------------------------
LEMMA AnswerStep ==
    ASSUME \A s, t \in Stream : Digest[s] = Digest[t] => s = t,
           ServeInv, [Next]_vars
    PROVE  AnswerRight' /\ Unanswered'
<1> DEFINE Right(p) ==
      /\ answer[p] # NoAnswer =>
            /\ TextOf(answer[p]) = TextOf(job[p]) /\ answer[p].whole
            /\ answer[p].rows >= Least(job[p].rows, Unique)
      /\ pc[p] = "idle" => answer[p] = NoAnswer
<1>0. TypeOK /\ TextInv
  BY DEF ServeInv
<1> SUFFICES ASSUME NEW r \in Proc PROVE Right(r)'
  BY DEF AnswerRight, Unanswered, TextOf
<1>1. Right(r)
  BY DEF ServeInv, AnswerRight, Unanswered
<1> USE DEF fileVars, procVars
<1>2. ASSUME NEW p \in Proc, Ask(p) PROVE Right(r)'
  BY <1>0, <1>1, <1>2 DEF Ask, TypeOK, TextOf
<1>3. ASSUME NEW p \in Proc, Judge(p) PROVE Right(r)'
  <2> DEFINE fit == {d \in Parsed(copy[p]) : Accepts(d, job[p])}
  <2>0. job' = job /\ pc[p] = "read" /\ job[p] \in Question /\ fd[p] \in Inode
    BY <1>0, <1>3 DEF Judge, TypeOK
  <2>1. CASE fit = {}
    BY <1>0, <1>1, <1>3, <2>1 DEF Judge, TypeOK, TextOf
  <2>2. ASSUME NEW d \in fit, answer' = [answer EXCEPT ![p] = d],
               pc' = [pc EXCEPT ![p] = "done"]
        PROVE  Right(r)'
    <3>1. /\ copy[p] \in File
          /\ \A b, c \in Block : copy[p][b] # NoBlock /\ copy[p][c] # NoBlock => copy[p][b].text = copy[p][c].text
      BY <1>0, <2>0 DEF TypeOK, TextInv, OneText
    <3>2. TextOf(d) = TextOf(job[p]) /\ d.whole /\ d.rows >= Least(job[p].rows, Unique)
      BY <2>0, <3>1, AcceptedIsRight
    <3> QED
      BY <1>0, <1>1, <2>0, <2>2, <3>2 DEF TypeOK, TextOf
  <2> QED
    BY <1>3, <2>1, <2>2 DEF Judge
<1>4. ASSUME NEW p \in Proc, Scan(p) PROVE Right(r)'
  <2>1. job[p] \in Question
    BY <1>0, <1>4 DEF Scan, TypeOK
  <2>2. Least(job[p].rows, Unique) \in Nat
    BY <2>1, SidecarAssumption DEF Question, Least
  <2> QED
    BY <1>0, <1>1, <1>4, <2>2 DEF Scan, ScanOf, TypeOK, TextOf
<1>5. ASSUME NEW p \in Proc, Exit(p) PROVE Right(r)'
  BY <1>0, <1>1, <1>5 DEF Exit, TypeOK, TextOf
<1>6. ASSUME NEW p \in Proc,
             \/ OpenSidecar(p) \/ ReadBlock(p) \/ OpenTmp(p) \/ WriteBlock(p) \/ CloseTmp(p)
             \/ Publish(p) \/ StoreFails(p) \/ Discard(p)
      PROVE  Right(r)'
  BY <1>0, <1>1, <1>6 DEF OpenSidecar, ReadBlock, OpenTmp, WriteBlock, CloseTmp, Publish, StoreFails,
     Discard, TypeOK, TextOf
<1>7. ASSUME NEW k \in Identity, Clear(k) PROVE Right(r)'
  BY <1>1, <1>7 DEF Clear, TextOf
<1>8. CASE UNCHANGED vars
  BY <1>1, <1>8 DEF vars, TextOf
<1> QED
  BY <1>2, <1>3, <1>4, <1>5, <1>6, <1>7, <1>8 DEF Next, Step, Finish, Crash

LEMMA ServeStart == Init => ServeInv
<1> SUFFICES ASSUME Init PROVE ServeInv
  OBVIOUS
<1>1. TypeOK
  BY InitType
<1>2. PlaceInv
  BY DEF Init, PlaceInv, Known, InUse
<1>3. TextInv
  BY DEF Init, TextInv, AlikeNow, OneText, Empty
<1> QED
  BY <1>1, <1>2, <1>3 DEF Init, ServeInv, AnswerRight, Unanswered

(* While the commands at work on one sidecar at once ask for one text, no  *)
(* torn, stale, foreign, spliced or shorter sidecar ever reaches the       *)
(* output, whatever is killed, cleared and left behind, as long as the     *)
(* digest tells two streams apart.                                         *)
THEOREM SidecarNeverLies ==
    ASSUME \A s, t \in Stream : Digest[s] = Digest[t] => s = t, Alike
    PROVE  Spec => []AnswerRight
<1>1. Init => ServeInv
  BY ServeStart
<1>2. ServeInv /\ [Next]_vars => ServeInv'
  <2> SUFFICES ASSUME ServeInv, [Next]_vars PROVE ServeInv'
    OBVIOUS
  <2>1. TypeOK' /\ PlaceInv'
    BY TypeStep, PlaceStep DEF ServeInv
  <2>2. TextInv'
    BY TextStep
  <2>3. AnswerRight' /\ Unanswered'
    BY AnswerStep
  <2> QED
    BY <2>1, <2>2, <2>3 DEF ServeInv
<1>3. ServeInv => AnswerRight
  BY DEF ServeInv
<1> QED
  BY <1>1, <1>2, <1>3, PTL DEF Spec
=============================================================================
