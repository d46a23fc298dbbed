---------------------------- MODULE LedgerProofs ----------------------------
(***************************************************************************)
(* What the walks of the offline commands say of a frame, and what the     *)
(* commands read out of the ledger they leave: hazards, aliasing           *)
(* conflicts, provenance and dependency flags; for any stream of chunks,   *)
(* any number of command lists and resources and any root signature        *)
(* layout.                                                                 *)
(***************************************************************************)
EXTENDS FrameWalk, NaturalsInduction, WellFoundedInduction, FiniteSetTheorems, TLAPS

-----------------------------------------------------------------------------
(* A set of naturals has a least member.                                     *)
NatBelow == {pair \in Nat \X Nat : pair[1] < pair[2]}

LEMMA NatBelowWellFounded == IsWellFoundedOn(NatBelow, Nat)
  BY NatLessThanWellFounded DEF OpToRel, NatBelow

LEMMA NatLeast ==
    ASSUME NEW T \in SUBSET Nat, T # {}
    PROVE  \E m \in T : \A y \in T : m <= y
<1>1. PICK m \in T : \A y \in T : ~(<<y, m>> \in NatBelow)
  BY WFMin, NatBelowWellFounded
<1>2. \A y \in T : ~(y < m)
  BY <1>1 DEF NatBelow
<1> QED
  BY <1>2

(* A set of events of one stream has a latest one.                           *)
LEMMA NatLatest ==
    ASSUME NEW n \in Nat, NEW T \in SUBSET (0..n), T # {}
    PROVE  \E m \in T : \A y \in T : y <= m
<1> DEFINE U == {n - y : y \in T}
<1>1. U \in SUBSET Nat /\ U # {}
  <2>1. \A y \in T : n - y \in Nat
    OBVIOUS
  <2> QED
    BY <2>1
<1>2. PICK d \in U : \A e \in U : d <= e
  BY <1>1, NatLeast
<1>3. PICK m \in T : d = n - m
  OBVIOUS
<1>4. \A y \in T : n - m <= n - y
  BY <1>2, <1>3
<1> QED
  BY <1>4

LEMMA LatestIs ==
    ASSUME NEW T \in SUBSET Nat, NEW m \in T, \A y \in T : y <= m
    PROVE  (CHOOSE i \in T : \A j \in T : j <= i) = m
<1>1. \A i \in T : (\A j \in T : j <= i) => i = m
  OBVIOUS
<1>2. \E i \in T : \A j \in T : j <= i
  OBVIOUS
<1> QED
  BY <1>1, <1>2

-----------------------------------------------------------------------------
(***************************************************************************)
(* Types.                                                                  *)
(***************************************************************************)
ArgKey == Namespaces \X RootKinds \X Nat
ArgsOK(args) ==
    /\ DOMAIN args \in SUBSET ArgKey
    /\ args = [k \in DOMAIN args |-> args[k]]
    /\ \A k \in DOMAIN args : args[k] \in IF k[2] = "table" THEN Slots_ ELSE Resources
BoundOK(st) ==
    /\ st = [sig |-> st.sig, args |-> st.args, vbs |-> st.vbs, ib |-> st.ib, rtv |-> st.rtv,
             dsv |-> st.dsv, pso |-> st.pso]
    /\ st.sig \in [Namespaces -> Nat] /\ ArgsOK(st.args)
    /\ DOMAIN st.vbs \in SUBSET Nat /\ \A v \in DOMAIN st.vbs : st.vbs[v] \in Resources
    /\ st.ib \in Resources /\ st.rtv \in SUBSET Resources /\ st.dsv \in Resources

StreamOK == stream \in Seq(FrameChunks)
StatesOK ==
    /\ DOMAIN states \in SUBSET Lists
    /\ states = [l \in DOMAIN states |-> states[l]]
    /\ \A l \in DOMAIN states : BoundOK(states[l])

LEMMA AppendStep ==
    ASSUME StreamOK, NEW c \in FrameChunks, stream' = Append(stream, c)
    PROVE  /\ Len(stream) \in Nat /\ Len(stream') = Len(stream) + 1 /\ StreamOK'
           /\ \A i \in 1..Len(stream) : stream'[i] = stream[i]
           /\ stream'[Len(stream) + 1] = c
  BY DEF StreamOK

LEMMA ChunkAt ==
    ASSUME StreamOK, NEW i \in 1..Len(stream)
    PROVE  stream[i] \in FrameChunks /\ IsChunk(stream[i])
  BY FrameChunksAssumption DEF StreamOK

LEMMA FreshOK == BoundOK(Fresh)
  BY FrameAssumption DEF BoundOK, Fresh, ArgsOK, Empty, None, Namespaces

LEMMA PutFacts ==
    ASSUME NEW f, NEW key, NEW value
    PROVE  /\ DOMAIN Put(f, key, value) = DOMAIN f \cup {key}
           /\ Put(f, key, value)[key] = value
           /\ \A k \in DOMAIN f : k # key => Put(f, key, value)[k] = f[k]
           /\ Put(f, key, value) = [k \in DOMAIN Put(f, key, value) |-> Put(f, key, value)[k]]
  BY DEF Put

LEMMA AppliedOK ==
    ASSUME NEW st, BoundOK(st), NEW c, IsChunk(c), c.op \in Setters \cup {"reset"}
    PROVE  BoundOK(Applied(st, c))
<1> USE DEF BoundOK, IsChunk
<1>1. CASE c.op = "reset"
  BY <1>1, FreshOK DEF Applied, Fresh
<1>2. CASE c.op = "sig"
  <2>1. CASE st.sig[c.ns] = c.sig
    BY <1>2, <2>1 DEF Applied, SetSignature
  <2>2. CASE st.sig[c.ns] # c.sig
    <3> DEFINE kept == [a \in {k \in DOMAIN st.args : k[1] # c.ns} |-> st.args[a]]
    <3>1. ArgsOK(kept)
      BY DEF ArgsOK
    <3>2. Applied(st, c) = [st EXCEPT !.sig = [st.sig EXCEPT ![c.ns] = c.sig], !.args = kept]
      BY <1>2, <2>2 DEF Applied, SetSignature
    <3>3. [st.sig EXCEPT ![c.ns] = c.sig] \in [Namespaces -> Nat]
      BY <1>2
    <3> DEFINE sig == [st.sig EXCEPT ![c.ns] = c.sig]
    <3> HIDE DEF kept, sig
    <3> QED
      BY <3>1, <3>2, <3>3 DEF sig
  <2> QED
    BY <2>1, <2>2
<1>3. CASE c.op = "root"
  <2> DEFINE key == <<c.ns, c.kind, c.rp>>
             args == Put(st.args, key, c.value)
  <2>1. key \in ArgKey /\ key[2] = c.kind
    BY <1>3 DEF ArgKey
  <2> HIDE DEF key
  <2>2. ArgsOK(args)
    BY <2>1, <1>3 DEF ArgsOK, Put
  <2>3. Applied(st, c) = [st EXCEPT !.args = args]
    BY <1>3 DEF Applied, SetRoot, key
  <2> HIDE DEF args
  <2> QED
    BY <2>2, <2>3
<1>4. CASE c.op = "vb"
  <2> DEFINE vbs == Put(st.vbs, c.slot, c.res)
  <2>1. DOMAIN vbs \in SUBSET Nat /\ \A v \in DOMAIN vbs : vbs[v] \in Resources
    BY <1>4 DEF Put
  <2>2. Applied(st, c) = [st EXCEPT !.vbs = vbs]
    BY <1>4 DEF Applied, SetInput
  <2> HIDE DEF vbs
  <2> QED
    BY <2>1, <2>2
<1>5. CASE c.op = "ib"
  BY <1>5 DEF Applied, SetInput
<1>6. CASE c.op = "targets"
  BY <1>6 DEF Applied, SetTargets
<1>7. CASE c.op = "pso"
  BY <1>7 DEF Applied
<1> QED
  BY <1>1, <1>2, <1>3, <1>4, <1>5, <1>6, <1>7 DEF Setters

LEMMA StateOfOK ==
    ASSUME StatesOK, NEW l
    PROVE  BoundOK(StateOf(l))
  BY FreshOK DEF StatesOK, StateOf

(* The chunks that bind something, and what a step does to each list.        *)
Binders == Setters \cup {"reset"}

LEMMA StatesStep ==
    ASSUME StatesOK, NEW c \in FrameChunks, ReadChunk(c)
    PROVE  /\ StatesOK'
           /\ \A l : StateOf(l)' = IF c.op \in Binders /\ l = c.list THEN Applied(StateOf(l), c) ELSE StateOf(l)
<1> IsChunk(c)
  BY FrameChunksAssumption
<1>1. CASE c.op \in Binders
  <2>1. states' = Put(states, c.list, Applied(StateOf(c.list), c))
    BY <1>1 DEF Binders, ReadChunk, Note, Call, Scope, Reset, SetState, Describe, Create, Marker,
                ListOps, TouchOps, Setters
  <2>2. BoundOK(Applied(StateOf(c.list), c)) /\ c.list \in Lists
    BY <1>1, StateOfOK, AppliedOK DEF Binders, IsChunk
  <2> DEFINE st == Applied(StateOf(c.list), c)
  <2>3. \A l : StateOf(l)' = IF l = c.list THEN st ELSE StateOf(l)
    BY <2>1 DEF StateOf, Put
  <2>4. StatesOK'
    <3> HIDE DEF st
    <3> QED
      BY <2>1, <2>2 DEF StatesOK, Put, st
  <2> QED
    BY <1>1, <2>3, <2>4
<1>2. CASE c.op \notin Binders
  <2>1. states' = states
    BY <1>2 DEF Binders, ReadChunk, Note, Call, Scope, Reset, SetState, Describe, Create
  <2> QED
    BY <1>2, <2>1 DEF StateOf, StatesOK
<1> QED
  BY <1>1, <1>2

-----------------------------------------------------------------------------
(***************************************************************************)
(* The signature in force, read from the stream, is the one the list has.  *)
(***************************************************************************)
SetsIn(s, list, ns, at) ==
    {i \in 1..(at - 1) : /\ s[i].op \in {"sig", "reset"} /\ s[i].list = list
                         /\ s[i].op = "sig" => s[i].ns = ns}
SignatureIn(s, list, ns, at) ==
    LET last == CHOOSE i \in SetsIn(s, list, ns, at) : \A j \in SetsIn(s, list, ns, at) : j <= i
    IN  IF SetsIn(s, list, ns, at) = {} \/ s[last].op = "reset" THEN None ELSE s[last].sig

LEMMA SignatureAtIn ==
    ASSUME NEW list, NEW ns, NEW at
    PROVE  /\ SignatureAt(list, ns, at) = SignatureIn(stream, list, ns, at)
           /\ SignatureAt(list, ns, at)' = SignatureIn(stream', list, ns, at)
  BY DEF SignatureAt, SignatureIn, SetsIn

LEMMA SignatureInNone ==
    ASSUME NEW s, NEW list, NEW ns, NEW at, SetsIn(s, list, ns, at) = {}
    PROVE  SignatureIn(s, list, ns, at) = None
  BY DEF SignatureIn

LEMMA SignatureInLatest ==
    ASSUME NEW s, NEW list, NEW ns, NEW at \in Nat, NEW sets, sets = SetsIn(s, list, ns, at),
           NEW m \in sets, \A y \in sets : y <= m
    PROVE  SignatureIn(s, list, ns, at) = IF s[m].op = "reset" THEN None ELSE s[m].sig
<1>1. sets \in SUBSET Nat
  BY DEF SetsIn
<1>2. SignatureIn(s, list, ns, at) =
        LET last == CHOOSE i \in sets : \A j \in sets : j <= i
        IN  IF sets = {} \/ s[last].op = "reset" THEN None ELSE s[last].sig
  BY DEF SignatureIn
<1> QED
  BY <1>1, <1>2, LatestIs

LEMMA LatestSetExists ==
    ASSUME NEW s, NEW list, NEW ns, NEW at \in Nat, SetsIn(s, list, ns, at) # {}
    PROVE  \E m \in SetsIn(s, list, ns, at) : \A y \in SetsIn(s, list, ns, at) : y <= m
<1>1. SetsIn(s, list, ns, at) \in SUBSET (0..at)
  BY DEF SetsIn
<1> QED
  BY <1>1, NatLatest

(* One chunk more.                                                           *)
Grows(s, t, n, c) ==
    /\ n \in Nat /\ s \in Seq(FrameChunks) /\ t \in Seq(FrameChunks) /\ c \in FrameChunks
    /\ Len(s) = n /\ Len(t) = n + 1
    /\ \A i \in 1..n : t[i] = s[i]
    /\ t[n + 1] = c

LEMMA StreamGrows ==
    ASSUME StreamOK, NEW c \in FrameChunks, stream' = Append(stream, c), NEW n, n = Len(stream)
    PROVE  Grows(stream, stream', n, c)
  BY AppendStep DEF Grows, StreamOK

(* What the stream said of an event it goes on saying.                       *)
LEMMA SignatureStays ==
    ASSUME NEW s, NEW t, NEW n, NEW c, Grows(s, t, n, c), NEW list, NEW ns, NEW at \in 1..(n + 1)
    PROVE  SignatureIn(t, list, ns, at) = SignatureIn(s, list, ns, at)
<1> DEFINE sets == SetsIn(s, list, ns, at)
<1>1. at \in Nat /\ \A i \in 1..(at - 1) : t[i] = s[i]
  BY DEF Grows
<1>2. SetsIn(t, list, ns, at) = sets
  BY <1>1 DEF SetsIn
<1>3. CASE sets = {}
  BY <1>2, <1>3, SignatureInNone
<1>4. CASE sets # {}
  <2>1. PICK m \in sets : \A y \in sets : y <= m
    BY <1>1, <1>4, LatestSetExists
  <2>2. t[m] = s[m]
    BY <1>1, <2>1 DEF SetsIn
  <2>3. SignatureIn(s, list, ns, at) = IF s[m].op = "reset" THEN None ELSE s[m].sig
    BY <1>1, <2>1, SignatureInLatest
  <2>4. SignatureIn(t, list, ns, at) = IF t[m].op = "reset" THEN None ELSE t[m].sig
    BY <1>1, <1>2, <2>1, SignatureInLatest
  <2> QED
    BY <2>2, <2>3, <2>4
<1> QED
  BY <1>3, <1>4

(* What the chunk just read says of the signature at the next event.         *)
LEMMA SignatureStep ==
    ASSUME NEW s, NEW t, NEW n, NEW c, Grows(s, t, n, c), NEW list, NEW ns
    PROVE  SignatureIn(t, list, ns, n + 2) =
              IF c.op = "reset" /\ c.list = list THEN None
              ELSE IF c.op = "sig" /\ c.list = list /\ c.ns = ns THEN c.sig
              ELSE SignatureIn(s, list, ns, n + 1)
<1> DEFINE here == c.op \in {"sig", "reset"} /\ c.list = list /\ (c.op = "sig" => c.ns = ns)
           sets == SetsIn(s, list, ns, n + 1)
           setsNow == SetsIn(t, list, ns, n + 2)
<1>1. n \in Nat /\ t[n + 1] = c /\ \A i \in 1..n : t[i] = s[i]
  BY DEF Grows
<1>2. setsNow = sets \cup {i \in {n + 1} : here}
  BY <1>1 DEF SetsIn
<1>3. \A i \in sets : i \in 1..n
  BY <1>1 DEF SetsIn
<1>4. CASE here
  <2>1. n + 1 \in setsNow /\ \A y \in setsNow : y <= n + 1
    BY <1>1, <1>2, <1>3, <1>4
  <2>2. SignatureIn(t, list, ns, n + 2) = IF t[n + 1].op = "reset" THEN None ELSE t[n + 1].sig
    BY <1>1, <2>1, SignatureInLatest
  <2> QED
    BY <1>1, <1>4, <2>2
<1>5. CASE ~here
  <2>1. setsNow = sets
    BY <1>2, <1>5
  <2>2. CASE sets = {}
    BY <2>1, <2>2, <1>5, SignatureInNone
  <2>3. CASE sets # {}
    <3>1. PICK m \in sets : \A y \in sets : y <= m
      BY <1>1, <2>3, LatestSetExists
    <3>2. t[m] = s[m]
      BY <1>1, <1>3, <3>1
    <3>3. SignatureIn(s, list, ns, n + 1) = IF s[m].op = "reset" THEN None ELSE s[m].sig
      BY <1>1, <3>1, SignatureInLatest
    <3>4. SignatureIn(t, list, ns, n + 2) = IF t[m].op = "reset" THEN None ELSE t[m].sig
      BY <1>1, <2>1, <3>1, SignatureInLatest
    <3> QED
      BY <1>5, <3>2, <3>3, <3>4
  <2> QED
    BY <2>2, <2>3
<1> QED
  BY <1>4, <1>5

-----------------------------------------------------------------------------
(***************************************************************************)
(* The root arguments in force, read from the stream, are those the list   *)
(* has.                                                                    *)
(***************************************************************************)
KeyOf(chunk) == <<chunk.ns, chunk.kind, chunk.rp>>
(* An argument outlives the chunk that comes next.                           *)
Outlives(arg, c, signature) ==
    /\ c.op = "reset" => c.list # arg.list
    /\ c.op = "sig" /\ c.list = arg.list /\ c.ns = arg.ns => c.sig = signature
    /\ c.op = "root" /\ c.list = arg.list => KeyOf(c) # KeyOf(arg)

InForceIn(s, i, at) ==
    /\ s[i].op = "root"
    /\ \A j \in (i + 1)..(at - 1) : Outlives(s[i], s[j], SignatureIn(s, s[i].list, s[i].ns, j))
LiveIn(s, list, n) == {i \in 1..n : s[i].list = list /\ InForceIn(s, i, n + 1)}

LEMMA InForceAtIn ==
    ASSUME NEW i, NEW at
    PROVE  InForce(i, at) <=> InForceIn(stream, i, at)
  BY SignatureAtIn DEF InForce, InForceIn, Outlives, KeyOf

LEMMA InForceStays ==
    ASSUME NEW s, NEW t, NEW n, NEW c, Grows(s, t, n, c), NEW i \in 1..n, NEW at \in 1..(n + 1)
    PROVE  InForceIn(t, i, at) <=> InForceIn(s, i, at)
<1>1. n \in Nat /\ t[i] = s[i] /\ \A j \in (i + 1)..(at - 1) : j \in 1..(n + 1) /\ t[j] = s[j]
  BY DEF Grows
<1>2. \A j \in (i + 1)..(at - 1) :
          SignatureIn(t, t[i].list, t[i].ns, j) = SignatureIn(s, s[i].list, s[i].ns, j)
  BY <1>1, SignatureStays
<1> QED
  BY <1>1, <1>2 DEF InForceIn

LEMMA InForceStep ==
    ASSUME NEW s, NEW t, NEW n, NEW c, Grows(s, t, n, c)
    PROVE  /\ \A i \in 1..n : InForceIn(t, i, n + 2) <=>
                 InForceIn(s, i, n + 1) /\ Outlives(s[i], c, SignatureIn(s, s[i].list, s[i].ns, n + 1))
           /\ InForceIn(t, n + 1, n + 2) <=> c.op = "root"
<1>1. n \in Nat /\ t[n + 1] = c /\ \A i \in 1..n : t[i] = s[i]
  BY DEF Grows
<1>2. ASSUME NEW i \in 1..n
      PROVE  InForceIn(t, i, n + 2) <=>
                InForceIn(s, i, n + 1) /\ Outlives(s[i], c, SignatureIn(s, s[i].list, s[i].ns, n + 1))
  <2>1. \A j : j \in (i + 1)..(n + 2 - 1) <=> j \in (i + 1)..(n + 1 - 1) \/ j = n + 1
    BY <1>1
  <2>2. InForceIn(t, i, n + 2) <=> InForceIn(t, i, n + 1)
                                     /\ Outlives(t[i], t[n + 1], SignatureIn(t, t[i].list, t[i].ns, n + 1))
    BY <1>1, <2>1 DEF InForceIn
  <2>3. InForceIn(t, i, n + 1) <=> InForceIn(s, i, n + 1)
    BY <1>1, InForceStays
  <2>4. SignatureIn(t, s[i].list, s[i].ns, n + 1) = SignatureIn(s, s[i].list, s[i].ns, n + 1)
    BY <1>1, SignatureStays
  <2> QED
    BY <1>1, <2>2, <2>3, <2>4
<1>3. InForceIn(t, n + 1, n + 2) <=> c.op = "root"
  BY <1>1 DEF InForceIn
<1> QED
  BY <1>2, <1>3

(* The arguments of a list are the live ones: each live one is held, and     *)
(* nothing else is.                                                          *)
ArgsFollow(s, list, n, args) ==
    /\ \A i \in LiveIn(s, list, n) : KeyOf(s[i]) \in DOMAIN args /\ args[KeyOf(s[i])] = s[i].value
    /\ \A k \in DOMAIN args : \E i \in LiveIn(s, list, n) : KeyOf(s[i]) = k

BindingsFollow(s, list, n, st) ==
    /\ ArgsFollow(s, list, n, st.args)
    /\ \A ns \in Namespaces : st.sig[ns] = SignatureIn(s, list, ns, n + 1)

LEMMA BindingsStep ==
    ASSUME NEW s, NEW t, NEW n, NEW c, Grows(s, t, n, c), NEW list, NEW st,
           BoundOK(st), BindingsFollow(s, list, n, st)
    PROVE  BindingsFollow(t, list, n + 1, IF c.op \in Binders /\ list = c.list THEN Applied(st, c) ELSE st)
<1> DEFINE live == LiveIn(s, list, n)
           now == IF c.op \in Binders /\ list = c.list THEN Applied(st, c) ELSE st
<1> IsChunk(c)
  BY FrameChunksAssumption DEF Grows
<1>0. /\ n \in Nat /\ t[n + 1] = c /\ \A i \in 1..n : t[i] = s[i] /\ IsChunk(s[i])
  BY FrameChunksAssumption DEF Grows
<1>1. LiveIn(t, list, n + 1) =
        {i \in live : Outlives(s[i], c, SignatureIn(s, list, s[i].ns, n + 1))}
          \cup {i \in {n + 1} : c.op = "root" /\ c.list = list}
  BY <1>0, InForceStep DEF LiveIn
<1>2. \A i \in live : /\ i \in 1..n /\ s[i].list = list /\ s[i].op = "root" /\ t[i] = s[i]
                       /\ KeyOf(s[i]) \in ArgKey /\ s[i].ns \in Namespaces /\ KeyOf(s[i])[1] = s[i].ns
  BY <1>0 DEF LiveIn, InForceIn, IsChunk, KeyOf, ArgKey
<1>3. \A ns \in Namespaces : now.sig[ns] = SignatureIn(t, list, ns, n + 2)
  <2> SUFFICES ASSUME NEW ns \in Namespaces PROVE now.sig[ns] = SignatureIn(t, list, ns, n + 2)
    OBVIOUS
  <2>1. SignatureIn(t, list, ns, n + 2) =
              IF c.op = "reset" /\ c.list = list THEN None
              ELSE IF c.op = "sig" /\ c.list = list /\ c.ns = ns THEN c.sig
              ELSE st.sig[ns]
    BY SignatureStep DEF BindingsFollow
  <2>2. CASE c.op = "reset"
    BY <2>1, <2>2 DEF Binders, Applied, Fresh
  <2>3. CASE c.op = "sig"
    BY <2>1, <2>3 DEF Binders, Setters, Applied, SetSignature, BoundOK
  <2>4. CASE c.op \notin {"reset", "sig"}
    BY <2>1, <2>4 DEF Binders, Setters, Applied, SetRoot, SetInput, SetTargets, BoundOK
  <2> QED
    BY <2>2, <2>3, <2>4
<1>4. ArgsFollow(t, list, n + 1, now.args)
  <2>1. CASE c.op \notin {"reset", "sig", "root"} \/ list # c.list
    <3>1. now.args = st.args
      BY <2>1 DEF Binders, Setters, Applied, SetInput, SetTargets, BoundOK
    <3>2. LiveIn(t, list, n + 1) = live
      BY <1>1, <1>2, <2>1 DEF Outlives
    <3> QED
      BY <1>2, <3>1, <3>2 DEF BindingsFollow, ArgsFollow
  <2>2. CASE c.op = "reset" /\ list = c.list
    <3>1. DOMAIN now.args = {}
      BY <2>2 DEF Binders, Applied, Fresh, Empty
    <3>2. LiveIn(t, list, n + 1) = {}
      BY <1>1, <1>2, <2>2 DEF Outlives
    <3> QED
      BY <3>1, <3>2 DEF ArgsFollow
  <2>3. CASE c.op = "sig" /\ list = c.list /\ st.sig[c.ns] = c.sig
    <3>1. now.args = st.args
      BY <2>3 DEF Binders, Setters, Applied, SetSignature
    <3>2. LiveIn(t, list, n + 1) = live
      <4>1. ASSUME NEW i \in live PROVE Outlives(s[i], c, SignatureIn(s, list, s[i].ns, n + 1))
        <5>1. c.sig = SignatureIn(s, list, c.ns, n + 1)
          BY <2>3 DEF BindingsFollow, IsChunk
        <5> QED
          BY <1>2, <2>3, <5>1 DEF Outlives
      <4>2. {i \in {n + 1} : c.op = "root" /\ c.list = list} = {}
        BY <2>3
      <4> HIDE DEF live
      <4> QED
        BY <1>1, <4>1, <4>2
    <3> QED
      BY <1>2, <3>1, <3>2 DEF BindingsFollow, ArgsFollow
  <2>4. CASE c.op = "sig" /\ list = c.list /\ st.sig[c.ns] # c.sig
    <3>1. now.args = [a \in {k \in DOMAIN st.args : k[1] # c.ns} |-> st.args[a]]
      BY <2>4 DEF Binders, Setters, Applied, SetSignature, BoundOK
    <3>2. LiveIn(t, list, n + 1) = {i \in live : s[i].ns # c.ns}
      BY <1>1, <1>2, <2>4 DEF Outlives, BindingsFollow, IsChunk
    <3> QED
      BY <1>2, <3>1, <3>2 DEF BindingsFollow, ArgsFollow
  <2>5. CASE c.op = "root" /\ list = c.list
    <3>1. now.args = Put(st.args, KeyOf(c), c.value)
      BY <2>5 DEF Binders, Setters, Applied, SetRoot, BoundOK, KeyOf
    <3>2. LiveIn(t, list, n + 1) = {i \in live : KeyOf(s[i]) # KeyOf(c)} \cup {n + 1}
      BY <1>1, <1>2, <2>5 DEF Outlives
    <3>3. n + 1 \notin live /\ t[n + 1] = c
      BY <1>0, <1>2
    <3> DEFINE liveNow == LiveIn(t, list, n + 1)
               args == now.args
    <3>4. /\ DOMAIN args = DOMAIN st.args \cup {KeyOf(c)} /\ args[KeyOf(c)] = c.value
          /\ \A k \in DOMAIN st.args : k # KeyOf(c) => args[k] = st.args[k]
      BY <3>1 DEF Put
    <3>5. liveNow = {i \in live : KeyOf(s[i]) # KeyOf(c)} \cup {n + 1}
      BY <3>2
    <3>6. /\ \A i \in live : KeyOf(s[i]) \in DOMAIN st.args /\ st.args[KeyOf(s[i])] = s[i].value
          /\ \A k \in DOMAIN st.args : \E i \in live : KeyOf(s[i]) = k
      BY DEF BindingsFollow, ArgsFollow
    <3> HIDE DEF live, now, liveNow, args
    <3>7. \A i \in liveNow : KeyOf(t[i]) \in DOMAIN args /\ args[KeyOf(t[i])] = t[i].value
      BY <1>2, <3>3, <3>4, <3>5, <3>6
    <3>8. \A k \in DOMAIN args : \E i \in liveNow : KeyOf(t[i]) = k
      BY <1>2, <3>3, <3>4, <3>5, <3>6
    <3> QED
      BY <3>7, <3>8 DEF ArgsFollow, liveNow, args
  <2> QED
    BY <2>1, <2>2, <2>3, <2>4, <2>5
<1> QED
  BY <1>0, <1>3, <1>4 DEF BindingsFollow

(***************************************************************************)
(* The arguments a list has are those its stream leaves in force: what the *)
(* walk knows of a list after each chunk is what its chunks so far say.    *)
(***************************************************************************)
FrameInv ==
    /\ StreamOK /\ StatesOK
    /\ \A l \in Lists : BindingsFollow(stream, l, Len(stream), StateOf(l))

LEMMA FrameInvInit == FrameWalkInit => FrameInv
<1> SUFFICES ASSUME FrameWalkInit PROVE FrameInv
  OBVIOUS
<1>1. stream = <<>> /\ states = Empty /\ Len(stream) = 0
  BY DEF FrameWalkInit, FrameInit
<1>2. StreamOK /\ StatesOK
  BY <1>1 DEF StreamOK, StatesOK, Empty
<1>3. \A l : StateOf(l) = Fresh
  BY <1>1 DEF StateOf, Empty
<1>4. \A l, ns : SetsIn(stream, l, ns, 1) = {}
  BY DEF SetsIn
<1>5. \A l, ns : SignatureIn(stream, l, ns, 1) = None
  BY <1>4, SignatureInNone
<1>6. \A l : LiveIn(stream, l, 0) = {}
  BY DEF LiveIn
<1>7. \A l : BindingsFollow(stream, l, 0, Fresh)
  BY <1>5, <1>6 DEF BindingsFollow, ArgsFollow, Fresh, Empty
<1> QED
  BY <1>1, <1>2, <1>3, <1>7 DEF FrameInv

LEMMA FrameInvStep == FrameInv /\ [FrameWalkNext]_walkVars => FrameInv'
<1> SUFFICES ASSUME FrameInv, [FrameWalkNext]_walkVars PROVE FrameInv'
  OBVIOUS
<1>1. CASE UNCHANGED walkVars
  BY <1>1 DEF FrameInv, walkVars, frameVars, StreamOK, StatesOK, StateOf
<1>2. ASSUME NEW c \in FrameChunks, ReadChunk(c) PROVE FrameInv'
  <2>1. StreamOK /\ StatesOK /\ stream' = Append(stream, c)
    BY <1>2 DEF FrameInv, ReadChunk
  <2>2. StreamOK' /\ StatesOK' /\ Len(stream') = Len(stream) + 1
    BY <1>2, <2>1, AppendStep, StatesStep
  <2>3. Grows(stream, stream', Len(stream), c)
    BY <2>1, StreamGrows
  <2>4. \A l \in Lists : BindingsFollow(stream', l, Len(stream) + 1, StateOf(l)')
    <3> SUFFICES ASSUME NEW l \in Lists PROVE BindingsFollow(stream', l, Len(stream) + 1, StateOf(l)')
      OBVIOUS
    <3>1. StateOf(l)' = IF c.op \in Binders /\ l = c.list THEN Applied(StateOf(l), c) ELSE StateOf(l)
      BY <1>2, <2>1, StatesStep
    <3>2. BoundOK(StateOf(l)) /\ BindingsFollow(stream, l, Len(stream), StateOf(l))
      BY <2>1, StateOfOK DEF FrameInv
    <3> QED
      BY <2>3, <3>1, <3>2, BindingsStep
  <2> QED
    BY <2>2, <2>4 DEF FrameInv
<1> QED
  BY <1>1, <1>2 DEF FrameWalkNext

(* No two arguments in force have one place.                                 *)
LEMMA OneArgumentPerKey ==
    ASSUME NEW s, NEW n \in Nat, NEW list, NEW i \in LiveIn(s, list, n), NEW j \in LiveIn(s, list, n),
           KeyOf(s[i]) = KeyOf(s[j])
    PROVE  i = j
<1>1. \A a, b \in LiveIn(s, list, n) : a < b => KeyOf(s[a]) # KeyOf(s[b])
  BY DEF LiveIn, InForceIn, Outlives
<1> QED
  BY <1>1 DEF LiveIn

LEMMA ArgumentsFromInv == FrameInv => ArgumentsAreInForce
<1> SUFFICES ASSUME FrameInv, NEW list \in Lists
             PROVE  StateOf(list).args =
                        LET live == {i \in 1..Len(stream) : InForce(i, Now) /\ stream[i].list = list}
                            key(i) == <<stream[i].ns, stream[i].kind, stream[i].rp>>
                        IN  [k \in {key(i) : i \in live} |-> stream[CHOOSE i \in live : key(i) = k].value]
  BY DEF ArgumentsAreInForce
<1> DEFINE n == Len(stream)
           live == LiveIn(stream, list, n)
           args == StateOf(list).args
<1>1. n \in Nat
  BY DEF FrameInv, StreamOK
<1>2. {i \in 1..Len(stream) : InForce(i, Now) /\ stream[i].list = list} = live
  BY InForceAtIn DEF LiveIn, Now
<1>3. args = [k \in DOMAIN args |-> args[k]]
  BY StateOfOK DEF FrameInv, BoundOK, ArgsOK
<1>4. ArgsFollow(stream, list, n, args)
  BY DEF FrameInv, BindingsFollow
<1>5. DOMAIN args = {KeyOf(stream[i]) : i \in live}
  BY <1>4 DEF ArgsFollow
<1>6. ASSUME NEW k \in DOMAIN args
      PROVE  args[k] = stream[CHOOSE i \in live : KeyOf(stream[i]) = k].value
  <2> DEFINE arg == CHOOSE i \in live : KeyOf(stream[i]) = k
  <2>1. arg \in live /\ KeyOf(stream[arg]) = k
    BY <1>5, <1>6
  <2> QED
    BY <1>4, <2>1 DEF ArgsFollow
<1>7. args = [k \in {KeyOf(stream[i]) : i \in live} |-> stream[CHOOSE i \in live : KeyOf(stream[i]) = k].value]
  BY <1>3, <1>5, <1>6
<1> QED
  BY <1>2, <1>7 DEF KeyOf

(* Whatever the stream, what every list has bound is what its own setters    *)
(* and resets left in force: no walk charges a draw with a root argument     *)
(* its signature dropped, or another list set (_apply_state_chunk).          *)
THEOREM ArgumentsStayInForce == FrameWalkSpec => []ArgumentsAreInForce
<1>1. FrameWalkSpec => []FrameInv
  BY FrameInvInit, FrameInvStep, PTL DEF FrameWalkSpec
<1> QED
  BY <1>1, ArgumentsFromInv, PTL

-----------------------------------------------------------------------------
(***************************************************************************)
(* The targets a list has, read from the stream.                           *)
(***************************************************************************)
TargetSetsIn(s, list, at) == {i \in 1..(at - 1) : s[i].op \in {"targets", "reset"} /\ s[i].list = list}
TargetsOf(chunk) == IF chunk.op = "reset" THEN {} ELSE (chunk.rtv \cup {chunk.dsv}) \ {None}
TargetsIn(s, list, at) ==
    LET last == CHOOSE i \in TargetSetsIn(s, list, at) : \A j \in TargetSetsIn(s, list, at) : j <= i
    IN  IF TargetSetsIn(s, list, at) = {} \/ s[last].op = "reset" THEN {}
        ELSE (s[last].rtv \cup {s[last].dsv}) \ {None}

LEMMA TargetsAtIn ==
    ASSUME NEW list, NEW at
    PROVE  TargetsAt(list, at) = TargetsIn(stream, list, at) /\ TargetsAt(list, at)' = TargetsIn(stream', list, at)
  BY DEF TargetsAt, TargetsIn, TargetSetsIn

LEMMA TargetsInNone ==
    ASSUME NEW s, NEW list, NEW at, TargetSetsIn(s, list, at) = {}
    PROVE  TargetsIn(s, list, at) = {}
  BY DEF TargetsIn

LEMMA TargetsInLatest ==
    ASSUME NEW s, NEW list, NEW at \in Nat, NEW sets, sets = TargetSetsIn(s, list, at),
           NEW m \in sets, \A y \in sets : y <= m
    PROVE  TargetsIn(s, list, at) = TargetsOf(s[m])
<1>1. sets \in SUBSET Nat
  BY DEF TargetSetsIn
<1>2. TargetsIn(s, list, at) =
        LET last == CHOOSE i \in sets : \A j \in sets : j <= i
        IN  IF sets = {} THEN {} ELSE TargetsOf(s[last])
  BY DEF TargetsIn, TargetsOf
<1> QED
  BY <1>1, <1>2, LatestIs

LEMMA LatestTargetsExist ==
    ASSUME NEW s, NEW list, NEW at \in Nat, TargetSetsIn(s, list, at) # {}
    PROVE  \E m \in TargetSetsIn(s, list, at) : \A y \in TargetSetsIn(s, list, at) : y <= m
<1>1. TargetSetsIn(s, list, at) \in SUBSET (0..at)
  BY DEF TargetSetsIn
<1> QED
  BY <1>1, NatLatest

LEMMA TargetsStay ==
    ASSUME NEW s, NEW t, NEW n, NEW c, Grows(s, t, n, c), NEW list, NEW at \in 1..(n + 1)
    PROVE  TargetsIn(t, list, at) = TargetsIn(s, list, at)
<1> DEFINE sets == TargetSetsIn(s, list, at)
<1>1. at \in Nat /\ \A i \in 1..(at - 1) : t[i] = s[i]
  BY DEF Grows
<1>2. TargetSetsIn(t, list, at) = sets
  BY <1>1 DEF TargetSetsIn
<1>3. CASE sets = {}
  BY <1>2, <1>3, TargetsInNone
<1>4. CASE sets # {}
  <2>1. PICK m \in sets : \A y \in sets : y <= m
    BY <1>1, <1>4, LatestTargetsExist
  <2>2. t[m] = s[m]
    BY <1>1, <2>1 DEF TargetSetsIn
  <2>3. TargetsIn(s, list, at) = TargetsOf(s[m])
    BY <1>1, <2>1, TargetsInLatest
  <2>4. TargetsIn(t, list, at) = TargetsOf(t[m])
    BY <1>1, <1>2, <2>1, TargetsInLatest
  <2> QED
    BY <2>2, <2>3, <2>4
<1> QED
  BY <1>3, <1>4

LEMMA TargetsStep ==
    ASSUME NEW s, NEW t, NEW n, NEW c, Grows(s, t, n, c), NEW list
    PROVE  TargetsIn(t, list, n + 2) =
              IF c.op \in {"targets", "reset"} /\ c.list = list THEN TargetsOf(c) ELSE TargetsIn(s, list, n + 1)
<1> DEFINE here == c.op \in {"targets", "reset"} /\ c.list = list
           sets == TargetSetsIn(s, list, n + 1)
           setsNow == TargetSetsIn(t, list, n + 2)
<1>1. n \in Nat /\ t[n + 1] = c /\ \A i \in 1..n : t[i] = s[i]
  BY DEF Grows
<1>2. setsNow = sets \cup {i \in {n + 1} : here}
  BY <1>1 DEF TargetSetsIn
<1>3. \A i \in sets : i \in 1..n
  BY <1>1 DEF TargetSetsIn
<1>4. CASE here
  <2>1. n + 1 \in setsNow /\ \A y \in setsNow : y <= n + 1
    BY <1>1, <1>2, <1>3, <1>4
  <2>2. TargetsIn(t, list, n + 2) = TargetsOf(t[n + 1])
    BY <1>1, <2>1, TargetsInLatest
  <2> QED
    BY <1>1, <1>4, <2>2
<1>5. CASE ~here
  <2>1. setsNow = sets
    BY <1>2, <1>5
  <2>2. CASE sets = {}
    BY <2>1, <2>2, <1>5, TargetsInNone
  <2>3. CASE sets # {}
    <3>1. PICK m \in sets : \A y \in sets : y <= m
      BY <1>1, <2>3, LatestTargetsExist
    <3>2. t[m] = s[m]
      BY <1>1, <1>3, <3>1
    <3>3. TargetsIn(s, list, n + 1) = TargetsOf(s[m])
      BY <1>1, <3>1, TargetsInLatest
    <3>4. TargetsIn(t, list, n + 2) = TargetsOf(t[m])
      BY <1>1, <2>1, <3>1, TargetsInLatest
    <3> QED
      BY <1>5, <3>2, <3>3, <3>4
  <2> QED
    BY <2>2, <2>3
<1> QED
  BY <1>4, <1>5

-----------------------------------------------------------------------------
(***************************************************************************)
(* What a slot held at each event, read from the stream.  A history is     *)
(* what the slots of `D` hold after each number of chunks.                 *)
(***************************************************************************)
Holding(s, k, before, x) ==
    IF s[k].op = "view" /\ s[k].slot = x THEN <<s[k].kind, s[k].res>>
    ELSE IF s[k].op = "viewcopy" /\ s[k].slot = x /\ before[s[k].from] # <<>> THEN before[s[k].from]
    ELSE before[x]
History(f, s, D) ==
    /\ f = [k \in 0..Len(s) |-> f[k]]
    /\ \A x \in D : f[0][x] = <<>>
    /\ \A k \in 1..Len(s) : \A x \in D : f[k][x] = Holding(s, k, f[k - 1], x)

WrittenIn(s) == {s[i].slot : i \in {i \in 1..Len(s) : s[i].op \in {"view", "viewcopy"}}}
HeldIn(s, slot) ==
    LET held[k \in 0..Len(s)] == [x \in WrittenIn(s) \cup {slot} |->
            IF k = 0 THEN <<>>
            ELSE IF s[k].op = "view" /\ s[k].slot = x THEN <<s[k].kind, s[k].res>>
            ELSE IF s[k].op = "viewcopy" /\ s[k].slot = x
                 THEN LET from == IF s[k].from \in DOMAIN held[k - 1] THEN held[k - 1][s[k].from] ELSE <<>>
                      IN  IF from = <<>> THEN held[k - 1][x] ELSE from
            ELSE held[k - 1][x]]
    IN  held

LEMMA SlotAtIn ==
    ASSUME NEW slot, NEW at
    PROVE  /\ SlotAt(slot, at) = HeldIn(stream, slot)[at - 1][slot]
           /\ SlotAt(slot, at)' = HeldIn(stream', slot)[at - 1][slot]
  BY DEF SlotAt, HeldIn, WrittenIn

(* A slot nothing has written holds nothing.                                 *)
LEMMA UnwrittenIsEmpty ==
    ASSUME NEW s \in Seq(FrameChunks), NEW D, NEW f, History(f, s, D), NEW x \in D, x \notin WrittenIn(s)
    PROVE  \A k \in 0..Len(s) : f[k][x] = <<>>
<1> DEFINE bad == {k \in 0..Len(s) : f[k][x] # <<>>}
<1>0. Len(s) \in Nat
  OBVIOUS
<1>1. SUFFICES bad = {}
  OBVIOUS
<1>2. SUFFICES ASSUME bad # {} PROVE FALSE
  OBVIOUS
<1>3. PICK k \in bad : \A y \in bad : k <= y
  <2>1. bad \in SUBSET Nat
    BY <1>0
  <2> QED
    BY <1>2, <2>1, NatLeast
<1>4. k # 0
  BY <1>3 DEF History
<1>5. k \in 1..Len(s) /\ k - 1 \in 0..Len(s) /\ ~(k <= k - 1)
  BY <1>0, <1>3, <1>4
<1>6. f[k - 1][x] = <<>>
  BY <1>3, <1>5
<1>7. f[k][x] = Holding(s, k, f[k - 1], x)
  BY <1>5 DEF History
<1>8. s[k].op \in {"view", "viewcopy"} => s[k].slot # x
  BY <1>5 DEF WrittenIn
<1> QED
  BY <1>3, <1>6, <1>7, <1>8 DEF Holding

HeldFrom(s, W, h) ==
    [k \in 0..Len(s) |-> [x \in W |->
        IF k = 0 THEN <<>>
        ELSE IF s[k].op = "view" /\ s[k].slot = x THEN <<s[k].kind, s[k].res>>
        ELSE IF s[k].op = "viewcopy" /\ s[k].slot = x
             THEN LET from == IF s[k].from \in DOMAIN h[k - 1] THEN h[k - 1][s[k].from] ELSE <<>>
                  IN  IF from = <<>> THEN h[k - 1][x] ELSE from
        ELSE h[k - 1][x]]]

LEMMA HeldInDef ==
    ASSUME NEW s, NEW slot
    PROVE  HeldIn(s, slot) = CHOOSE h : h = HeldFrom(s, WrittenIn(s) \cup {slot}, h)
  BY DEF HeldIn, HeldFrom

(* The slots the property looks up, one by one, are those of any history.    *)
LEMMA HeldIsHistory ==
    ASSUME NEW s \in Seq(FrameChunks), NEW slot, NEW D, NEW f, History(f, s, D),
           Slots_ \subseteq D, slot \in D, NEW k \in 0..Len(s)
    PROVE  HeldIn(s, slot)[k][slot] = f[k][slot]
<1> DEFINE W == WrittenIn(s) \cup {slot}
           g == [j \in 0..Len(s) |-> [x \in W |-> f[j][x]]]
           h == HeldIn(s, slot)
<1>0. Len(s) \in Nat /\ \A j \in 1..Len(s) : IsChunk(s[j])
  BY FrameChunksAssumption
<1>1. W \subseteq D
  BY <1>0 DEF WrittenIn, IsChunk
<1>2. g = HeldFrom(s, W, g)
  <2> SUFFICES ASSUME NEW j \in 0..Len(s), NEW x \in W
               PROVE  g[j][x] = HeldFrom(s, W, g)[j][x]
    BY DEF HeldFrom
  <2>1. CASE j = 0
    BY <1>1, <2>1 DEF History, HeldFrom
  <2>2. CASE j # 0
    <3>1. j \in 1..Len(s) /\ j - 1 \in 0..Len(s) /\ IsChunk(s[j])
      BY <1>0, <2>2
    <3>2. g[j][x] = Holding(s, j, f[j - 1], x)
      BY <1>1, <3>1 DEF History
    <3>3. DOMAIN g[j - 1] = W /\ \A y \in W : g[j - 1][y] = f[j - 1][y]
      BY <3>1
    <3>4. \A y \in D : y \notin W => f[j - 1][y] = <<>>
      BY <3>1, UnwrittenIsEmpty
    <3>5. s[j].op = "viewcopy" => s[j].from \in D
      BY <3>1 DEF IsChunk
    <3>6. HeldFrom(s, W, g)[j][x] =
            IF s[j].op = "view" /\ s[j].slot = x THEN <<s[j].kind, s[j].res>>
            ELSE IF s[j].op = "viewcopy" /\ s[j].slot = x
                 THEN LET from == IF s[j].from \in DOMAIN g[j - 1] THEN g[j - 1][s[j].from] ELSE <<>>
                      IN  IF from = <<>> THEN g[j - 1][x] ELSE from
            ELSE g[j - 1][x]
      BY <2>2, <3>1 DEF HeldFrom
    <3> HIDE DEF W, g
    <3> QED
      BY <3>2, <3>3, <3>4, <3>5, <3>6 DEF Holding
  <2> QED
    BY <2>1, <2>2
<1>3. h = HeldFrom(s, W, h)
  BY <1>2, HeldInDef
<1>4. \A j \in 0..Len(s) : h[j] = g[j]
  <2> DEFINE bad == {j \in 0..Len(s) : h[j] # g[j]}
  <2> HIDE DEF g, h, W
  <2> SUFFICES ASSUME bad # {} PROVE FALSE
    OBVIOUS
  <2>1. PICK j \in bad : \A y \in bad : j <= y
    <3>1. bad \in SUBSET Nat
      BY <1>0
    <3> QED
      BY <3>1, NatLeast
  <2>2. j # 0 => h[j - 1] = g[j - 1]
    BY <1>0, <2>1
  <2>3. HeldFrom(s, W, h)[j] = HeldFrom(s, W, g)[j]
    BY <2>1, <2>2 DEF HeldFrom
  <2> QED
    BY <1>2, <1>3, <2>1, <2>3
<1> QED
  BY <1>4

LEMMA HistoryGrows ==
    ASSUME NEW s, NEW t, NEW n, NEW c, Grows(s, t, n, c), NEW D, NEW f, History(f, s, D)
    PROVE  \E g : /\ History(g, t, D)
                  /\ \A k \in 0..n : g[k] = f[k]
                  /\ \A x \in D : g[n + 1][x] = Holding(t, n + 1, f[n], x)
<1> DEFINE g == [k \in 0..(n + 1) |-> IF k = n + 1 THEN [x \in D |-> Holding(t, n + 1, f[n], x)] ELSE f[k]]
<1>1. n \in Nat /\ Len(s) = n /\ Len(t) = n + 1 /\ \A k \in 1..n : t[k] = s[k]
  BY DEF Grows
<1>2. \A k \in 0..n : g[k] = f[k]
  BY <1>1
<1>3. \A x \in D : g[n + 1][x] = Holding(t, n + 1, f[n], x)
  BY <1>1
<1>4. History(g, t, D)
  <2>1. g = [k \in 0..Len(t) |-> g[k]]
    BY <1>1
  <2> HIDE DEF g
  <2>2. \A x \in D : g[0][x] = <<>>
    BY <1>1, <1>2 DEF History
  <2>3. ASSUME NEW k \in 1..Len(t), NEW x \in D
        PROVE  g[k][x] = Holding(t, k, g[k - 1], x)
    <3>1. CASE k = n + 1
      BY <1>1, <1>2, <1>3, <3>1
    <3>2. CASE k # n + 1
      <4>1. k \in 1..n /\ k - 1 \in 0..n /\ k \in 0..n
        BY <1>1, <3>2
      <4>2. f[k][x] = Holding(s, k, f[k - 1], x)
        BY <1>1, <4>1 DEF History
      <4> QED
        BY <1>1, <1>2, <4>1, <4>2 DEF Holding
    <3> QED
      BY <3>1, <3>2
  <2> QED
    BY <2>1, <2>2, <2>3 DEF History
<1> QED
  BY <1>2, <1>3, <1>4

(* What a slot held before an event, and what the heaps hold now.            *)
SlotIn(s, x, at) == HeldIn(s, x)[at - 1][x]
HeldNow(hs, x) == IF x \in DOMAIN hs THEN <<hs[x].kind, hs[x].res>> ELSE <<>>

HeapsOK ==
    /\ DOMAIN heaps \in SUBSET Slots_
    /\ \A x \in DOMAIN heaps : heaps[x] \in [kind : ViewKinds, res : Resources]
HeapsFollow(s, hs) ==
    \A x : \E f : /\ History(f, s, Slots_ \cup {x})
                  /\ \A y \in Slots_ \cup {x} : f[Len(s)][y] = HeldNow(hs, y)

LEMMA SlotInNow ==
    ASSUME NEW s \in Seq(FrameChunks), NEW hs, HeapsFollow(s, hs), NEW x
    PROVE  SlotIn(s, x, Len(s) + 1) = HeldNow(hs, x)
<1> DEFINE D == Slots_ \cup {x}
<1>0. Slots_ \subseteq D /\ x \in D
  OBVIOUS
<1>1. PICK f : History(f, s, D) /\ \A y \in D : f[Len(s)][y] = HeldNow(hs, y)
  BY DEF HeapsFollow
<1> HIDE DEF D
<1>2. Len(s) \in 0..Len(s) /\ (Len(s) + 1) - 1 = Len(s)
  OBVIOUS
<1>3. HeldIn(s, x)[Len(s)][x] = f[Len(s)][x]
  BY <1>0, <1>1, <1>2, HeldIsHistory
<1> QED
  BY <1>0, <1>1, <1>2, <1>3 DEF SlotIn

LEMMA SlotInStays ==
    ASSUME NEW s, NEW t, NEW n, NEW c, Grows(s, t, n, c), NEW hs, HeapsFollow(s, hs),
           NEW x, NEW at \in 1..(n + 1)
    PROVE  SlotIn(t, x, at) = SlotIn(s, x, at)
<1> DEFINE D == Slots_ \cup {x}
<1>0. /\ s \in Seq(FrameChunks) /\ t \in Seq(FrameChunks) /\ Len(s) = n /\ Len(t) = n + 1 /\ n \in Nat
      /\ Slots_ \subseteq D /\ x \in D
  BY DEF Grows
<1>1. PICK f : History(f, s, D)
  BY DEF HeapsFollow
<1> HIDE DEF D
<1>2. PICK g : History(g, t, D) /\ \A k \in 0..n : g[k] = f[k]
  BY <1>1, HistoryGrows
<1>3. at - 1 \in 0..Len(s) /\ at - 1 \in 0..Len(t)
  BY <1>0
<1>4. HeldIn(s, x)[at - 1][x] = f[at - 1][x]
  BY <1>0, <1>1, <1>3, HeldIsHistory
<1>5. HeldIn(t, x)[at - 1][x] = g[at - 1][x]
  BY <1>0, <1>2, <1>3, HeldIsHistory
<1> QED
  BY <1>0, <1>2, <1>3, <1>4, <1>5 DEF SlotIn

(* A descriptor written, or copied, is what its slot holds from then on.     *)
LEMMA HeapsStep ==
    ASSUME StreamOK, HeapsOK, HeapsFollow(stream, heaps), NEW c \in FrameChunks, ReadChunk(c)
    PROVE  HeapsOK' /\ HeapsFollow(stream', heaps')
<1> DEFINE n == Len(stream)
<1> IsChunk(c)
  BY FrameChunksAssumption
<1>1. /\ stream' = Append(stream, c) /\ Grows(stream, stream', n, c) /\ n \in Nat
      /\ Len(stream') = n + 1 /\ stream'[n + 1] = c
  BY AppendStep, StreamGrows DEF ReadChunk
<1>2. CASE c.op \in {"view", "viewcopy"}
  <2>1. heaps' = Written(heaps, c)
    BY <1>2 DEF ReadChunk, Note, Call, Scope, Reset, SetState, Describe, Create, Marker, ListOps,
                TouchOps, Setters
  <2>2. HeapsOK'
    BY <1>2, <2>1 DEF HeapsOK, Written, Put, IsChunk
  <2>3. \A f, x : (\A y \in Slots_ \cup {x} : f[y] = HeldNow(heaps, y)) =>
              \A y \in Slots_ \cup {x} : Holding(stream', n + 1, f, y) = HeldNow(heaps', y)
    <3> SUFFICES ASSUME NEW f, NEW x, \A y \in Slots_ \cup {x} : f[y] = HeldNow(heaps, y),
                        NEW y \in Slots_ \cup {x}
                 PROVE  Holding(stream', n + 1, f, y) = HeldNow(heaps', y)
      OBVIOUS
    <3>1. Holding(stream', n + 1, f, y) =
              IF c.op = "view" /\ c.slot = y THEN <<c.kind, c.res>>
              ELSE IF c.op = "viewcopy" /\ c.slot = y /\ f[c.from] # <<>> THEN f[c.from]
              ELSE f[y]
      BY <1>1 DEF Holding
    <3>2. CASE c.op = "view"
      BY <3>1, <3>2, <2>1 DEF Written, Put, HeldNow
    <3>3. CASE c.op = "viewcopy"
      <4>1. f[c.from] = HeldNow(heaps, c.from)
        BY <3>3 DEF IsChunk
      <4> QED
        <5>1. CASE c.from \in DOMAIN heaps
          <6>1. heaps' = Put(heaps, c.slot, heaps[c.from])
            BY <3>3, <2>1, <5>1 DEF Written
          <6>2. f[c.from] = <<heaps[c.from].kind, heaps[c.from].res>>
            BY <4>1, <5>1 DEF HeldNow
          <6>3. f[c.from] # <<>>
            BY <6>2
          <6>4. CASE c.slot = y
            BY <3>1, <3>3, <6>1, <6>2, <6>3, <6>4 DEF Put, HeldNow
          <6>5. CASE c.slot # y
            BY <3>1, <3>3, <6>1, <6>5 DEF Put, HeldNow
          <6> QED
            BY <6>4, <6>5
        <5>2. CASE c.from \notin DOMAIN heaps
          BY <3>1, <3>3, <2>1, <4>1, <5>2 DEF Written, HeldNow
        <5> QED
          BY <5>1, <5>2
    <3> QED
      BY <1>2, <3>2, <3>3
  <2>4. HeapsFollow(stream', heaps')
    <3> SUFFICES ASSUME NEW x
                 PROVE  \E g : /\ History(g, stream', Slots_ \cup {x})
                               /\ \A y \in Slots_ \cup {x} : g[Len(stream')][y] = HeldNow(heaps', y)
      BY DEF HeapsFollow
    <3> DEFINE D == Slots_ \cup {x}
    <3>0. \A f : (\A y \in D : f[y] = HeldNow(heaps, y)) =>
                   \A y \in D : Holding(stream', n + 1, f, y) = HeldNow(heaps', y)
      BY <2>3
    <3>1. PICK f : History(f, stream, D) /\ \A y \in D : f[n][y] = HeldNow(heaps, y)
      BY DEF HeapsFollow
    <3> HIDE DEF D, n
    <3>2. PICK g : History(g, stream', D) /\ \A y \in D : g[n + 1][y] = Holding(stream', n + 1, f[n], y)
      BY <1>1, <3>1, HistoryGrows
    <3>3. \A y \in D : g[Len(stream')][y] = HeldNow(heaps', y)
      <4>1. \A y \in D : Holding(stream', n + 1, f[n], y) = HeldNow(heaps', y)
        BY <3>0, <3>1
      <4>2. \A y \in D : g[n + 1][y] = HeldNow(heaps', y)
        BY <3>2, <4>1
      <4> QED
        BY <1>1, <4>2
    <3> QED
      BY <3>2, <3>3 DEF D
  <2> QED
    BY <2>2, <2>4
<1>3. CASE c.op \notin {"view", "viewcopy"}
  <2>1. heaps' = heaps
    BY <1>3 DEF ReadChunk, Note, Call, Scope, Reset, SetState, Describe, Create
  <2>2. \A f, y : Holding(stream', n + 1, f, y) = f[y]
    BY <1>1, <1>3 DEF Holding
  <2>3. HeapsFollow(stream', heaps')
    <3> SUFFICES ASSUME NEW x
                 PROVE  \E g : /\ History(g, stream', Slots_ \cup {x})
                               /\ \A y \in Slots_ \cup {x} : g[Len(stream')][y] = HeldNow(heaps, y)
      BY <2>1 DEF HeapsFollow
    <3> DEFINE D == Slots_ \cup {x}
    <3>1. PICK f : History(f, stream, D) /\ \A y \in D : f[n][y] = HeldNow(heaps, y)
      BY DEF HeapsFollow
    <3> HIDE DEF D, n
    <3>2. PICK g : History(g, stream', D) /\ \A y \in D : g[n + 1][y] = Holding(stream', n + 1, f[n], y)
      BY <1>1, <3>1, HistoryGrows
    <3> QED
      BY <1>1, <2>2, <3>1, <3>2 DEF D
  <2> QED
    BY <2>1, <2>3 DEF HeapsOK
<1> QED
  BY <1>2, <1>3

-----------------------------------------------------------------------------
(***************************************************************************)
(* What the bindings of a draw reach, read from the stream.                *)
(***************************************************************************)
BoundIn(s, list, ns, at) ==
    {i \in 1..(at - 1) : s[i].op = "root" /\ s[i].list = list /\ s[i].ns = ns /\ InForceIn(s, i, at)}
TableOf(params, rp, value) ==
    IF rp \in 1..Len(params) /\ params[rp].kind = "table"
    THEN {f.slot : f \in TableSlots(params[rp].ranges, value[1], value[2])} ELSE {}
TablesIn(s, list, ns, at) ==
    UNION {TableOf(ParamsOf(SignatureIn(s, list, ns, at)), s[i].rp, s[i].value) :
              i \in {i \in BoundIn(s, list, ns, at) : s[i].kind = "table"}}
ReachedIn(s, list, ns, at) ==
    {<<s[i].kind, s[i].value>> : i \in {i \in BoundIn(s, list, ns, at) : s[i].kind # "table"}}
      \cup {SlotIn(s, x, at) : x \in {x \in TablesIn(s, list, ns, at) :
                                       SlotIn(s, x, at) # <<>> /\ SlotIn(s, x, at)[1] \in {"srv", "uav"}}}

LEMMA ReachedAtIn ==
    ASSUME NEW list, NEW ns, NEW at
    PROVE  ReachedAt(list, ns, at) = ReachedIn(stream, list, ns, at)
<1>1. \A i : InForce(i, at) <=> InForceIn(stream, i, at)
  BY InForceAtIn
<1>2. \A x : SlotAt(x, at) = SlotIn(stream, x, at)
  BY SlotAtIn DEF SlotIn
<1>3. SignatureAt(list, ns, at) = SignatureIn(stream, list, ns, at)
  BY SignatureAtIn
<1> QED
  BY <1>1, <1>2, <1>3, SMTT(60) DEF ReachedAt, ReachedIn, TablesIn, TableOf, BoundIn

LEMMA ReachedStays ==
    ASSUME NEW s, NEW t, NEW n, NEW c, Grows(s, t, n, c), NEW hs, HeapsFollow(s, hs),
           NEW list, NEW ns, NEW at \in 1..(n + 1)
    PROVE  ReachedIn(t, list, ns, at) = ReachedIn(s, list, ns, at)
<1>1. n \in Nat /\ \A i \in 1..(at - 1) : i \in 1..n /\ t[i] = s[i]
  BY DEF Grows
<1>2. BoundIn(t, list, ns, at) = BoundIn(s, list, ns, at)
  BY <1>1, InForceStays DEF BoundIn
<1>3. \A i \in BoundIn(s, list, ns, at) : t[i] = s[i]
  BY <1>1 DEF BoundIn
<1>4. SignatureIn(t, list, ns, at) = SignatureIn(s, list, ns, at)
  BY SignatureStays
<1>5. TablesIn(t, list, ns, at) = TablesIn(s, list, ns, at)
  BY <1>2, <1>3, <1>4 DEF TablesIn
<1>6. \A x : SlotIn(t, x, at) = SlotIn(s, x, at)
  BY SlotInStays
<1> QED
  BY <1>2, <1>3, <1>5, <1>6 DEF ReachedIn

(* The views a walk resolves are what the stream's bindings reach.           *)
LEMMA ViewsAreReached ==
    ASSUME HeapsOK, NEW s \in Seq(FrameChunks), NEW n, n = Len(s), HeapsFollow(s, heaps),
           NEW list, NEW ns \in Namespaces, NEW st, BoundOK(st), BindingsFollow(s, list, n, st)
    PROVE  /\ \A kind : \A r \in Resources \ {None} :
                 <<r, kind>> \in ViewsOf(st, ns) <=> <<kind, r>> \in ReachedIn(s, list, ns, n + 1)
           /\ \A v \in ViewsOf(st, ns) : v = <<v[1], v[2]>> /\ v[1] # None
           /\ \A v \in ReachedIn(s, list, ns, n + 1) : v = <<v[1], v[2]>>
<1> DEFINE live == LiveIn(s, list, n)
           bound == BoundIn(s, list, ns, n + 1)
           params == ParamsOf(st.sig[ns])
           roots == {a \in DOMAIN st.args : a[1] = ns /\ a[2] # "table" /\ st.args[a] # None}
           tables == {a \in DOMAIN st.args : a[1] = ns /\ a[2] = "table"}
           slots == UNION {TableOf(params, a[3], st.args[a]) : a \in tables}
           reached == TablesIn(s, list, ns, n + 1)
<1>0. n \in Nat /\ \A i \in 1..n : IsChunk(s[i])
  BY FrameChunksAssumption
<1>1. ViewsOf(st, ns) = {<<st.args[a], a[2]>> : a \in roots}
                          \cup {<<heaps[x].res, heaps[x].kind>> :
                                    x \in {x \in slots : /\ x \in DOMAIN heaps
                                                         /\ heaps[x].kind \in {"srv", "uav"}
                                                         /\ heaps[x].res # None}}
  BY DEF ViewsOf, TableOf
<1>2. \A x : SlotIn(s, x, n + 1) = HeldNow(heaps, x)
  BY SlotInNow
<1>3. /\ \A i \in bound : /\ i \in live /\ s[i].ns = ns /\ s[i].op = "root"
                           /\ KeyOf(s[i]) \in DOMAIN st.args /\ st.args[KeyOf(s[i])] = s[i].value
      /\ \A i \in live : s[i].ns = ns => i \in bound
  BY <1>0 DEF BoundIn, LiveIn, BindingsFollow, ArgsFollow, InForceIn
<1>4. \A a \in DOMAIN st.args : a[1] = ns => \E i \in bound : KeyOf(s[i]) = a
  <2> SUFFICES ASSUME NEW a \in DOMAIN st.args, a[1] = ns PROVE \E i \in bound : KeyOf(s[i]) = a
    OBVIOUS
  <2>1. PICK i \in live : KeyOf(s[i]) = a
    BY DEF BindingsFollow, ArgsFollow
  <2>2. s[i].ns = ns
    BY <2>1 DEF KeyOf
  <2> QED
    BY <1>3, <2>1, <2>2
<1>5. \A i : KeyOf(s[i])[1] = s[i].ns /\ KeyOf(s[i])[2] = s[i].kind /\ KeyOf(s[i])[3] = s[i].rp
  BY DEF KeyOf
<1>6. st.sig[ns] = SignatureIn(s, list, ns, n + 1)
  BY DEF BindingsFollow
<1>7. reached = slots
  <2>1. reached = UNION {TableOf(params, s[i].rp, s[i].value) : i \in {i \in bound : s[i].kind = "table"}}
    BY <1>6 DEF TablesIn
  <2>2. \A i \in bound : s[i].kind = "table" =>
            KeyOf(s[i]) \in tables /\ TableOf(params, s[i].rp, s[i].value)
                                         = TableOf(params, KeyOf(s[i])[3], st.args[KeyOf(s[i])])
    BY <1>3, <1>5
  <2>3. \A a \in tables : \E i \in bound : /\ KeyOf(s[i]) = a /\ s[i].kind = "table"
                                           /\ TableOf(params, s[i].rp, s[i].value) = TableOf(params, a[3], st.args[a])
    BY <1>3, <1>4, <1>5
  <2> HIDE DEF bound, tables, params
  <2> QED
    BY <2>1, <2>2, <2>3
<1> DEFINE byRoot == {<<s[i].kind, s[i].value>> : i \in {i \in bound : s[i].kind # "table"}}
           bySlot == {SlotIn(s, x, n + 1) : x \in {x \in slots : /\ SlotIn(s, x, n + 1) # <<>>
                                                                 /\ SlotIn(s, x, n + 1)[1] \in {"srv", "uav"}}}
<1>8. ReachedIn(s, list, ns, n + 1) = byRoot \cup bySlot
  BY <1>7 DEF ReachedIn
<1>9. bySlot = {<<heaps[x].kind, heaps[x].res>> :
                   x \in {x \in slots : x \in DOMAIN heaps /\ heaps[x].kind \in {"srv", "uav"}}}
  <2>1. \A x : x \in DOMAIN heaps => /\ SlotIn(s, x, n + 1) = <<heaps[x].kind, heaps[x].res>>
                                     /\ SlotIn(s, x, n + 1) # <<>> /\ SlotIn(s, x, n + 1)[1] = heaps[x].kind
    <3>1. \A x : x \in DOMAIN heaps => SlotIn(s, x, n + 1) = <<heaps[x].kind, heaps[x].res>>
      BY <1>2 DEF HeldNow
    <3>2. \A k, r : <<k, r>> # <<>> /\ <<k, r>>[1] = k
      OBVIOUS
    <3> QED
      BY <3>1, <3>2
  <2>2. \A x : x \notin DOMAIN heaps => SlotIn(s, x, n + 1) = <<>>
    BY <1>2 DEF HeldNow
  <2> HIDE DEF slots
  <2> QED
    BY <2>1, <2>2
<1> HIDE DEF slots, tables, bound, live, params, reached
<1>10. \A kind : \A r \in Resources \ {None} :
          <<r, kind>> \in {<<st.args[a], a[2]>> : a \in roots} <=> <<kind, r>> \in byRoot
  <2> SUFFICES ASSUME NEW r \in Resources \ {None}, NEW kind
               PROVE  <<r, kind>> \in {<<st.args[a], a[2]>> : a \in roots} <=> <<kind, r>> \in byRoot
    OBVIOUS
  <2>1. ASSUME NEW a \in roots, r = st.args[a], kind = a[2] PROVE <<kind, r>> \in byRoot
    <3>1. PICK i \in bound : KeyOf(s[i]) = a
      BY <1>4
    <3> QED
      BY <1>3, <1>5, <2>1, <3>1
  <2>2. ASSUME NEW i \in bound, s[i].kind # "table", kind = s[i].kind, r = s[i].value
        PROVE  KeyOf(s[i]) \in roots /\ r = st.args[KeyOf(s[i])] /\ kind = KeyOf(s[i])[2]
    BY <1>3, <1>5, <2>2
  <2> QED
    BY <2>1, <2>2
<1>11. \A kind : \A r \in Resources \ {None} :
          <<r, kind>> \in {<<heaps[x].res, heaps[x].kind>> :
                              x \in {x \in slots : /\ x \in DOMAIN heaps /\ heaps[x].kind \in {"srv", "uav"}
                                                   /\ heaps[x].res # None}}
             <=> <<kind, r>> \in bySlot
  BY <1>9
<1>12. \A v \in ViewsOf(st, ns) : v = <<v[1], v[2]>> /\ v[1] # None
  BY <1>1
<1>13. \A v \in byRoot \cup bySlot : v = <<v[1], v[2]>>
  BY <1>9
<1> HIDE DEF byRoot, bySlot, roots
<1> QED
  BY <1>1, <1>8, <1>10, <1>11, <1>12, <1>13

-----------------------------------------------------------------------------
(***************************************************************************)
(* The loops reported are those of the bindings as they were at each draw. *)
(***************************************************************************)
TargetsFollow(s, list, n, st) == TargetsIn(s, list, n + 1) = (st.rtv \cup {st.dsv}) \ {None}

SideOf(call) == IF call = "dispatch" THEN "comp" ELSE "gfx"
LoopsRight(list, ns, at, views, targets, ls) ==
    \A r \in Resources \ {None} :
       /\ ([res |-> r, eid |-> at, certain |-> TRUE] \in ls <=> r \in targets /\ \E v \in views : v[2] = r)
       /\ ([res |-> r, eid |-> at, certain |-> FALSE] \in ls
              <=> r \notin targets /\ {<<"srv", r>>, <<"uav", r>>} \subseteq views)
LoopsRightAt(s, at, ls) ==
    LET ns == SideOf(s[at].call)
    IN  LoopsRight(s[at].list, ns, at, ReachedIn(s, s[at].list, ns, at),
                   IF ns = "comp" THEN {} ELSE TargetsIn(s, s[at].list, at), ls)
LoopsFollow(s, ls) ==
    /\ \A l \in ls : l.eid \in 1..Len(s)
    /\ \A at \in 1..Len(s) : s[at].op = "draw" => LoopsRightAt(s, at, ls)

LoopInv ==
    /\ FrameInv /\ HeapsOK /\ HeapsFollow(stream, heaps)
    /\ \A l \in Lists : TargetsFollow(stream, l, Len(stream), StateOf(l))
    /\ LoopsFollow(stream, loops)

LEMMA TargetsFollowStep ==
    ASSUME NEW s, NEW t, NEW n, NEW c, Grows(s, t, n, c), NEW list, NEW st,
           BoundOK(st), TargetsFollow(s, list, n, st)
    PROVE  TargetsFollow(t, list, n + 1, IF c.op \in Binders /\ list = c.list THEN Applied(st, c) ELSE st)
<1> DEFINE now == IF c.op \in Binders /\ list = c.list THEN Applied(st, c) ELSE st
<1>1. TargetsIn(t, list, n + 2) =
              IF c.op \in {"targets", "reset"} /\ c.list = list THEN TargetsOf(c) ELSE TargetsIn(s, list, n + 1)
  BY TargetsStep
<1>2. n \in Nat /\ (n + 1) + 1 = n + 2 /\ IsChunk(c)
  BY FrameChunksAssumption DEF Grows
<1>3. CASE c.op = "reset" /\ c.list = list
  <2>1. now.rtv = {} /\ now.dsv = None
    BY <1>3 DEF Binders, Applied, Fresh
  <2> QED
    BY <1>1, <1>2, <1>3, <2>1 DEF TargetsFollow, TargetsOf
<1>4. CASE c.op = "targets" /\ c.list = list
  <2>1. now.rtv = c.rtv /\ now.dsv = c.dsv
    BY <1>4 DEF Binders, Setters, Applied, SetTargets, BoundOK
  <2> QED
    BY <1>1, <1>2, <1>4, <2>1 DEF TargetsFollow, TargetsOf
<1>5. CASE c.op \notin {"reset", "targets"} \/ c.list # list
  <2>1. now.rtv = st.rtv /\ now.dsv = st.dsv
    BY <1>5 DEF Binders, Setters, Applied, SetSignature, SetRoot, SetInput, BoundOK
  <2> QED
    BY <1>1, <1>2, <1>5, <2>1 DEF TargetsFollow
<1> QED
  BY <1>3, <1>4, <1>5

(* What a draw adds is right of it, whether or not its list was ever begun.  *)
LEMMA LoopsAtRight ==
    ASSUME LoopInv, NEW c \in FrameChunks, c.op = "draw",
           NEW ls, \A l \in ls : l.eid \in 1..Len(stream)
    PROVE  LET ns == SideOf(c.call)
           IN  LoopsRight(c.list, ns, Now, ReachedIn(stream, c.list, ns, Now),
                          IF ns = "comp" THEN {} ELSE TargetsIn(stream, c.list, Now), ls \cup LoopsAt(c))
<1> DEFINE n == Len(stream)
           ns == SideOf(c.call)
           st == StateOf(c.list)
           views == ViewsOf(st, ns)
           reached == ReachedIn(stream, c.list, ns, n + 1)
           targets == IF ns = "comp" THEN {} ELSE TargetsIn(stream, c.list, n + 1)
<1>1. n \in Nat /\ Now = n + 1 /\ stream \in Seq(FrameChunks) /\ c.list \in Lists /\ ns \in Namespaces
  BY FrameChunksAssumption DEF LoopInv, FrameInv, StreamOK, Now, IsChunk, ListOps, SideOf, Namespaces
<1>2. BoundOK(st) /\ BindingsFollow(stream, c.list, n, st) /\ TargetsFollow(stream, c.list, n, st)
  BY <1>1, StateOfOK DEF LoopInv, FrameInv
<1>3. /\ \A kind : \A r \in Resources \ {None} : <<r, kind>> \in views <=> <<kind, r>> \in reached
      /\ \A v \in views : v = <<v[1], v[2]>> /\ v[1] # None
      /\ \A v \in reached : v = <<v[1], v[2]>>
  BY <1>1, <1>2, ViewsAreReached DEF LoopInv
<1>4. \A r \in Resources \ {None} : (r \in {v[1] : v \in views}) <=> \E v \in reached : v[2] = r
  <2> SUFFICES ASSUME NEW r \in Resources \ {None}
               PROVE  (r \in {v[1] : v \in views}) <=> \E v \in reached : v[2] = r
    OBVIOUS
  <2> HIDE DEF views, reached
  <2>1. ASSUME NEW v \in views, r = v[1] PROVE \E w \in reached : w[2] = r
    <3>1. <<v[2], r>> \in reached /\ <<v[2], r>>[2] = r
      BY <1>3, <2>1
    <3> QED
      BY <3>1
  <2>2. ASSUME NEW v \in reached, v[2] = r PROVE \E w \in views : w[1] = r
    <3>1. <<r, v[1]>> \in views /\ <<r, v[1]>>[1] = r
      BY <1>3, <2>2
    <3> QED
      BY <3>1
  <2> QED
    BY <2>1, <2>2
<1>5. \A r \in Resources \ {None} :
         {<<r, "srv">>, <<r, "uav">>} \subseteq views <=> {<<"srv", r>>, <<"uav", r>>} \subseteq reached
  BY <1>3
<1> DEFINE found == {v[1] : v \in views}
           mine == IF ns = "comp" THEN {} ELSE st.rtv \cup ({st.dsv} \ {None})
<1>6. \A r \in Resources \ {None} : r \in mine <=> r \in targets
  BY <1>2 DEF TargetsFollow
<1>7. LoopsAt(c) = {[res |-> r, eid |-> n + 1, certain |-> TRUE] : r \in found \cap mine}
                     \cup {[res |-> r, eid |-> n + 1, certain |-> FALSE] :
                              r \in {r \in found \ mine : {<<r, "srv">>, <<r, "uav">>} \subseteq views}}
  <2>1. CASE c.list \in DOMAIN states
    BY <1>1, <2>1 DEF LoopsAt, StateOf, SideOf
  <2>2. CASE c.list \notin DOMAIN states
    <3>1. st = Fresh
      BY <2>2 DEF StateOf
    <3>2. views = {}
      BY <3>1 DEF ViewsOf, Fresh, Empty
    <3>3. LoopsAt(c) = {}
      BY <2>2 DEF LoopsAt
    <3> QED
      BY <3>2, <3>3
  <2> QED
    BY <2>1, <2>2
<1>8. \A r, b : [res |-> r, eid |-> n + 1, certain |-> b] \notin ls
  BY <1>1
<1>9. \A r \in Resources \ {None} : {<<r, "srv">>, <<r, "uav">>} \subseteq views => r \in found
  BY <1>3
<1> HIDE DEF found, mine, views, reached, targets, st, ns
<1>10. ASSUME NEW r \in Resources \ {None}
       PROVE  /\ [res |-> r, eid |-> n + 1, certain |-> TRUE] \in ls \cup LoopsAt(c)
                     <=> r \in targets /\ \E v \in reached : v[2] = r
              /\ [res |-> r, eid |-> n + 1, certain |-> FALSE] \in ls \cup LoopsAt(c)
                     <=> r \notin targets /\ {<<"srv", r>>, <<"uav", r>>} \subseteq reached
  <2>1. [res |-> r, eid |-> n + 1, certain |-> TRUE] \in ls \cup LoopsAt(c) <=> r \in found /\ r \in mine
    BY <1>7, <1>8
  <2>2. [res |-> r, eid |-> n + 1, certain |-> FALSE] \in ls \cup LoopsAt(c)
           <=> r \in found /\ r \notin mine /\ {<<r, "srv">>, <<r, "uav">>} \subseteq views
    BY <1>7, <1>8
  <2>3. r \in found <=> \E v \in reached : v[2] = r
    BY <1>4 DEF found
  <2> QED
    BY <1>5, <1>6, <1>9, <2>1, <2>2, <2>3
<1>11. LoopsRight(c.list, ns, n + 1, reached, targets, ls \cup LoopsAt(c))
  BY <1>10 DEF LoopsRight
<1> QED
  BY <1>1, <1>11 DEF ns, reached, targets

LEMMA LoopInvInit == FrameWalkInit => LoopInv
<1> SUFFICES ASSUME FrameWalkInit PROVE LoopInv
  OBVIOUS
<1>1. stream = <<>> /\ states = Empty /\ heaps = Empty /\ loops = {} /\ Len(stream) = 0
  BY DEF FrameWalkInit, FrameInit, StateTrackInit
<1>2. HeapsOK
  BY <1>1 DEF HeapsOK, Empty
<1>3. HeapsFollow(stream, heaps)
  <2> SUFFICES ASSUME NEW x
               PROVE  \E f : /\ History(f, stream, Slots_ \cup {x})
                             /\ \A y \in Slots_ \cup {x} : f[Len(stream)][y] = HeldNow(heaps, y)
    BY DEF HeapsFollow
  <2> DEFINE D == Slots_ \cup {x}
             f == [k \in 0..Len(stream) |-> [y \in D |-> <<>>]]
  <2>1. 1..Len(stream) = {} /\ 0..Len(stream) = {0}
    BY <1>1
  <2>2. f[0] = [y \in D |-> <<>>]
    BY <2>1
  <2>3. History(f, stream, D)
    BY <2>1, <2>2 DEF History
  <2>4. \A y \in D : HeldNow(heaps, y) = <<>>
    BY <1>1 DEF HeldNow, Empty
  <2> HIDE DEF f
  <2> QED
    BY <1>1, <2>2, <2>3, <2>4
<1>4. \A l : TargetsFollow(stream, l, Len(stream), StateOf(l))
  <2>1. \A l : StateOf(l).rtv = {} /\ StateOf(l).dsv = None
    BY <1>1 DEF StateOf, Empty, Fresh
  <2>2. \A l : TargetSetsIn(stream, l, Len(stream) + 1) = {}
    BY <1>1 DEF TargetSetsIn
  <2>3. \A l : TargetsIn(stream, l, Len(stream) + 1) = {}
    BY <2>2, TargetsInNone
  <2> QED
    BY <2>1, <2>3 DEF TargetsFollow
<1>5. LoopsFollow(stream, loops)
  BY <1>1 DEF LoopsFollow
<1> QED
  BY <1>2, <1>3, <1>4, <1>5, FrameInvInit DEF LoopInv

LEMMA LoopsFollowStep ==
    ASSUME LoopInv, NEW c \in FrameChunks, ReadChunk(c)
    PROVE  LoopsFollow(stream', loops')
<1> DEFINE n == Len(stream)
<1>1. /\ StreamOK /\ StatesOK /\ stream' = Append(stream, c) /\ Grows(stream, stream', n, c)
      /\ n \in Nat /\ Len(stream') = n + 1 /\ stream'[n + 1] = c /\ Now = n + 1
      /\ \A i \in 1..n : stream'[i] = stream[i]
  BY AppendStep, StreamGrows DEF LoopInv, FrameInv, ReadChunk, Now
<1>2. loops' = loops \cup IF c.op = "draw" THEN LoopsAt(c) ELSE {}
  <2>1. c.op = "draw" => loops' = loops \cup LoopsAt(c)
    BY DEF ReadChunk, Note, Call, Scope, ScanLoops, Reset, SetState, Describe, Create, Marker, Setters
  <2>2. c.op # "draw" => loops' = loops
    BY DEF ReadChunk, Note, Call, Scope, ScanLoops, trackVars
  <2> QED
    BY <2>1, <2>2
<1>3. \A l \in LoopsAt(c) : l.eid = n + 1
  <2>1. \A l \in LoopsAt(c) : \E r : \/ l = [res |-> r, eid |-> Now, certain |-> TRUE]
                                    \/ l = [res |-> r, eid |-> Now, certain |-> FALSE]
    BY DEF LoopsAt
  <2> QED
    BY <1>1, <2>1
<1>4. \A l \in loops : l.eid \in 1..n
  BY DEF LoopInv, LoopsFollow
<1>5. \A l \in loops' : l.eid \in 1..(n + 1)
  BY <1>1, <1>2, <1>3, <1>4
<1>6. ASSUME NEW at \in 1..n, stream'[at].op = "draw" PROVE LoopsRightAt(stream', at, loops')
  <2> DEFINE list == stream[at].list
             ns == SideOf(stream[at].call)
  <2>1. stream'[at] = stream[at] /\ at \in 1..(n + 1)
    BY <1>1
  <2>2. ReachedIn(stream', list, ns, at) = ReachedIn(stream, list, ns, at)
    BY <1>1, <2>1, ReachedStays DEF LoopInv
  <2>3. TargetsIn(stream', list, at) = TargetsIn(stream, list, at)
    BY <1>1, <2>1, TargetsStay
  <2>4. LoopsRightAt(stream, at, loops)
    BY <2>1, <1>6 DEF LoopInv, LoopsFollow
  <2>5. \A l \in LoopsAt(c) : l.eid # at
    BY <1>1, <1>3
  <2>6. \A r, b : [res |-> r, eid |-> at, certain |-> b] \in loops'
                     <=> [res |-> r, eid |-> at, certain |-> b] \in loops
    BY <1>2, <2>5
  <2> DEFINE reached == ReachedIn(stream, list, ns, at)
             targets == IF ns = "comp" THEN {} ELSE TargetsIn(stream, list, at)
  <2>7. LoopsRight(list, ns, at, reached, targets, loops)
    BY <2>4 DEF LoopsRightAt
  <2>8. LoopsRight(list, ns, at, reached, targets, loops')
    <3> HIDE DEF reached, targets, list, ns
    <3> QED
      BY <2>6, <2>7 DEF LoopsRight
  <2> QED
    BY <2>1, <2>2, <2>3, <2>8 DEF LoopsRightAt
<1>7. ASSUME c.op = "draw" PROVE LoopsRightAt(stream', n + 1, loops')
  <2> DEFINE ns == SideOf(c.call)
  <2>1. LoopsRight(c.list, ns, n + 1, ReachedIn(stream, c.list, ns, n + 1),
                   IF ns = "comp" THEN {} ELSE TargetsIn(stream, c.list, n + 1), loops \cup LoopsAt(c))
    BY <1>1, <1>4, <1>7, LoopsAtRight
  <2>2. ReachedIn(stream', c.list, ns, n + 1) = ReachedIn(stream, c.list, ns, n + 1)
    BY <1>1, ReachedStays DEF LoopInv
  <2>3. TargetsIn(stream', c.list, n + 1) = TargetsIn(stream, c.list, n + 1)
    BY <1>1, TargetsStay
  <2> QED
    BY <1>1, <1>2, <1>7, <2>1, <2>2, <2>3 DEF LoopsRightAt
<1> QED
  <2>1. ASSUME NEW at \in 1..(n + 1), stream'[at].op = "draw" PROVE LoopsRightAt(stream', at, loops')
    <3>1. at \in 1..n \/ at = n + 1
      BY <1>1
    <3> QED
      BY <1>1, <1>6, <1>7, <2>1, <3>1
  <2> QED
    BY <1>1, <1>5, <2>1 DEF LoopsFollow

LEMMA LoopInvStep == LoopInv /\ [FrameWalkNext]_walkVars => LoopInv'
<1> SUFFICES ASSUME LoopInv, [FrameWalkNext]_walkVars PROVE LoopInv'
  OBVIOUS
<1>0. FrameInv'
  BY FrameInvStep DEF LoopInv
<1>1. CASE UNCHANGED walkVars
  <2>1. UNCHANGED <<stream, states, heaps, loops>>
    BY <1>1 DEF walkVars, frameVars, trackVars
  <2> QED
    BY <1>0, <2>1 DEF LoopInv, HeapsOK, StateOf
<1>2. ASSUME NEW c \in FrameChunks, ReadChunk(c) PROVE LoopInv'
  <2> DEFINE n == Len(stream)
  <2>1. /\ StreamOK /\ StatesOK /\ Grows(stream, stream', n, c) /\ Len(stream') = n + 1
    BY <1>2, AppendStep, StreamGrows DEF LoopInv, FrameInv, ReadChunk
  <2>2. HeapsOK' /\ HeapsFollow(stream', heaps')
    BY <1>2, <2>1, HeapsStep DEF LoopInv
  <2>3. LoopsFollow(stream', loops')
    BY <1>2, LoopsFollowStep
  <2>4. \A l \in Lists : TargetsFollow(stream', l, n + 1, StateOf(l)')
    <3> SUFFICES ASSUME NEW l \in Lists PROVE TargetsFollow(stream', l, n + 1, StateOf(l)')
      OBVIOUS
    <3>1. StateOf(l)' = IF c.op \in Binders /\ l = c.list THEN Applied(StateOf(l), c) ELSE StateOf(l)
      BY <1>2, <2>1, StatesStep
    <3>2. BoundOK(StateOf(l)) /\ TargetsFollow(stream, l, n, StateOf(l))
      BY <2>1, StateOfOK DEF LoopInv
    <3> QED
      BY <2>1, <3>1, <3>2, TargetsFollowStep
  <2> QED
    BY <1>0, <2>1, <2>2, <2>3, <2>4 DEF LoopInv
<1> QED
  BY <1>1, <1>2 DEF FrameWalkNext

LEMMA LoopsFromInv == LoopInv => LoopsAreAsOfTheDraw
<1> SUFFICES ASSUME LoopInv, NEW at \in 1..Len(stream), stream[at].op = "draw", NEW r \in Resources \ {None}
             PROVE  LET ns == IF stream[at].call = "dispatch" THEN "comp" ELSE "gfx"
                        views == ReachedAt(stream[at].list, ns, at)
                        targets == IF ns = "comp" THEN {} ELSE TargetsAt(stream[at].list, at)
                    IN  /\ ([res |-> r, eid |-> at, certain |-> TRUE] \in loops
                               <=> r \in targets /\ \E v \in views : v[2] = r)
                        /\ ([res |-> r, eid |-> at, certain |-> FALSE] \in loops
                               <=> r \notin targets /\ {<<"srv", r>>, <<"uav", r>>} \subseteq views)
  BY DEF LoopsAreAsOfTheDraw
<1>1. LoopsRightAt(stream, at, loops)
  BY DEF LoopInv, LoopsFollow
<1>2. \A l, ns : ReachedAt(l, ns, at) = ReachedIn(stream, l, ns, at) /\ TargetsAt(l, at) = TargetsIn(stream, l, at)
  BY ReachedAtIn, TargetsAtIn
<1> QED
  BY <1>1, <1>2 DEF LoopsRightAt, LoopsRight, SideOf

(* Whatever the stream, a loop is reported of a draw exactly when its list's *)
(* targets and the views its tables reached then, not later, say so: the     *)
(* scan of rdc_hazards reads slots as they were at the draw.                 *)
THEOREM LoopsAreOfTheirDraws == FrameWalkSpec => []LoopsAreAsOfTheDraw
<1>1. FrameWalkSpec => []LoopInv
  BY LoopInvInit, LoopInvStep, PTL DEF FrameWalkSpec
<1> QED
  BY <1>1, LoopsFromInv, PTL

-----------------------------------------------------------------------------
(***************************************************************************)
(* What a use is, by the chunk it is of.                                   *)
(***************************************************************************)
BindingHows == {"cbv", "srv", "uav", "vb", "ib", "rtv", "dsv"}
UseFits(c, u) ==
    \/ c.op = "draw" /\ u.how \in BindingHows /\ u.access = AccessByKind[u.how]
    \/ c.op = "clear" /\ u.how = "clear" /\ u.access = "write" /\ u.res = c.res
    \/ c.op = "discard" /\ u.how = "discard" /\ u.access = "discard" /\ u.res = c.res
    \/ c.op = "copy" /\ u.how = "copy-dst" /\ u.access = "write" /\ u.res = c.res
    \/ c.op = "copy" /\ u.how = "copy-src" /\ u.access = "read" /\ u.res = c.from
    \/ c.op = "resolve" /\ u.how = "resolve-dst" /\ u.access = "write" /\ u.res = c.res
    \/ c.op = "resolve" /\ u.how = "resolve-src" /\ u.access = "read" /\ u.res = c.from
    \/ c.op = "barrier" /\ u.how = "barrier" /\ u.access \in {"read", "write", "read+write"} /\ u.res = c.res
    \/ c.op = "barrier" /\ u.how = "discard" /\ u.access = "discard" /\ u.res = c.res

UseRight(s, u) ==
    /\ u = [eid |-> u.eid, res |-> u.res, how |-> u.how, access |-> u.access]
    /\ u.eid \in 1..Len(s) /\ u.res \in Resources \ {None} /\ UseFits(s[u.eid], u)

LedgerInv ==
    /\ FrameInv /\ HeapsOK
    /\ \A u \in uses : UseRight(stream, u)
    /\ \A t \in tableUses : \E e, x : t = <<e, x>> /\ e \in 1..Len(stream) /\ stream[e].op = "draw"

LEMMA UseIs ==
    ASSUME NEW eid, NEW res, NEW how, NEW access, NEW u \in Use(eid, res, how, access)
    PROVE  res # None /\ access # "" /\ u = [eid |-> eid, res |-> res, how |-> how, access |-> access]
  BY DEF Use

LEMMA BoundUsesFit ==
    ASSUME NEW c, c.op = "draw", NEW st, BoundOK(st), NEW ns, NEW eid, NEW u \in BindUses(st, ns, eid)
    PROVE  /\ u = [eid |-> eid, res |-> u.res, how |-> u.how, access |-> u.access]
           /\ u.res \in Resources \ {None} /\ UseFits(c, u)
<1> DEFINE Good(v) == /\ v = [eid |-> eid, res |-> v.res, how |-> v.how, access |-> v.access]
                      /\ v.res \in Resources \ {None} /\ v.how \in BindingHows /\ v.access = AccessByKind[v.how]
<1>1. ASSUME NEW res \in Resources, NEW how \in BindingHows, NEW v \in Use(eid, res, how, AccessByKind[how])
      PROVE  Good(v)
  <2>1. res # None /\ v = [eid |-> eid, res |-> res, how |-> how, access |-> AccessByKind[how]]
    BY <1>1 DEF Use
  <2>2. v.res = res /\ v.how = how /\ v.access = AccessByKind[how]
    BY <2>1
  <2> QED
    BY <2>1, <2>2
<1>2. ASSUME NEW a \in DOMAIN st.args, a[2] # "table", NEW v \in Use(eid, st.args[a], a[2], AccessByKind[a[2]])
      PROVE  Good(v)
  <2>1. a[2] \in BindingHows /\ st.args[a] \in Resources
    BY <1>2 DEF BoundOK, ArgsOK, ArgKey, RootKinds, BindingHows
  <2> QED
    BY <1>1, <1>2, <2>1
<1>3. /\ AccessByKind["vb"] = "read" /\ AccessByKind["ib"] = "read"
      /\ AccessByKind["rtv"] = "write" /\ AccessByKind["dsv"] = "write"
  BY DEF AccessByKind
<1>4. ASSUME NEW v \in DOMAIN st.vbs, NEW w \in Use(eid, st.vbs[v], "vb", "read") PROVE Good(w)
  BY <1>1, <1>3, <1>4 DEF BoundOK, BindingHows
<1>5. ASSUME NEW w \in Use(eid, st.ib, "ib", "read") PROVE Good(w)
  BY <1>1, <1>3, <1>5 DEF BoundOK, BindingHows
<1>6. ASSUME NEW r \in st.rtv, NEW w \in Use(eid, r, "rtv", "write") PROVE Good(w)
  BY <1>1, <1>3, <1>6 DEF BoundOK, BindingHows
<1>7. ASSUME NEW w \in Use(eid, st.dsv, "dsv", "write") PROVE Good(w)
  BY <1>1, <1>3, <1>7 DEF BoundOK, BindingHows
<1>8. Good(u)
  <2> HIDE DEF Good
  <2>1. CASE u \in UNION {Use(eid, st.args[a], a[2], AccessByKind[a[2]]) :
                            a \in {a \in DOMAIN st.args : a[1] = ns /\ a[2] # "table"}}
    BY <1>2, <2>1
  <2>2. CASE \/ u \in UNION {Use(eid, st.vbs[v], "vb", "read") : v \in DOMAIN st.vbs}
             \/ u \in Use(eid, st.ib, "ib", "read")
             \/ u \in UNION {Use(eid, r, "rtv", "write") : r \in st.rtv}
             \/ u \in Use(eid, st.dsv, "dsv", "write")
    BY <1>4, <1>5, <1>6, <1>7, <2>2
  <2> QED
    BY <2>1, <2>2 DEF BindUses
<1> QED
  BY <1>8 DEF UseFits

LEMMA TouchFits ==
    ASSUME NEW c, IsChunk(c), c.op \in TouchOps, NEW u \in Touch(c)
    PROVE  /\ u = [eid |-> Now, res |-> u.res, how |-> u.how, access |-> u.access]
           /\ u.res \in Resources \ {None} /\ UseFits(c, u)
<1> DEFINE Good(v) == /\ v = [eid |-> Now, res |-> v.res, how |-> v.how, access |-> v.access]
                      /\ v.res \in Resources \ {None} /\ UseFits(c, v)
<1>1. ASSUME NEW res \in Resources, NEW how, NEW access, NEW v \in Use(Now, res, how, access),
             access # "" => UseFits(c, [eid |-> Now, res |-> res, how |-> how, access |-> access])
      PROVE  Good(v)
  <2>1. /\ res # None /\ access # ""
        /\ v = [eid |-> Now, res |-> res, how |-> how, access |-> access]
    BY <1>1 DEF Use
  <2>2. v.res = res /\ v.how = how /\ v.access = access
    BY <2>1
  <2> QED
    BY <1>1, <2>1, <2>2
<1>2. CASE c.op = "clear"
  <2>1. u \in Use(Now, c.res, "clear", "write") /\ c.res \in Resources
    BY <1>2 DEF Touch, IsChunk
  <2>2. UseFits(c, [eid |-> Now, res |-> c.res, how |-> "clear", access |-> "write"])
    BY <1>2 DEF UseFits
  <2> HIDE DEF Good
  <2>3. Good(u)
    BY <1>1, <2>1, <2>2
  <2> QED
    BY <2>3 DEF Good
<1>3. CASE c.op = "discard"
  <2>1. u \in Use(Now, c.res, "discard", "discard") /\ c.res \in Resources
    BY <1>3 DEF Touch, IsChunk
  <2>2. UseFits(c, [eid |-> Now, res |-> c.res, how |-> "discard", access |-> "discard"])
    BY <1>3 DEF UseFits
  <2> HIDE DEF Good
  <2>3. Good(u)
    BY <1>1, <2>1, <2>2
  <2> QED
    BY <2>3 DEF Good
<1>4. CASE c.op = "copy"
  <2>1. /\ u \in Use(Now, c.res, "copy-dst", "write") \/ u \in Use(Now, c.from, "copy-src", "read")
        /\ c.res \in Resources /\ c.from \in Resources
    BY <1>4 DEF Touch, IsChunk
  <2>2. /\ UseFits(c, [eid |-> Now, res |-> c.res, how |-> "copy-dst", access |-> "write"])
        /\ UseFits(c, [eid |-> Now, res |-> c.from, how |-> "copy-src", access |-> "read"])
    BY <1>4 DEF UseFits
  <2> HIDE DEF Good
  <2>3. Good(u)
    BY <1>1, <2>1, <2>2
  <2> QED
    BY <2>3 DEF Good
<1>5. CASE c.op = "resolve"
  <2>1. /\ u \in Use(Now, c.res, "resolve-dst", "write") \/ u \in Use(Now, c.from, "resolve-src", "read")
        /\ c.res \in Resources /\ c.from \in Resources
    BY <1>5 DEF Touch, IsChunk
  <2>2. /\ UseFits(c, [eid |-> Now, res |-> c.res, how |-> "resolve-dst", access |-> "write"])
        /\ UseFits(c, [eid |-> Now, res |-> c.from, how |-> "resolve-src", access |-> "read"])
    BY <1>5 DEF UseFits
  <2> HIDE DEF Good
  <2>3. Good(u)
    BY <1>1, <2>1, <2>2
  <2> QED
    BY <2>3 DEF Good
<1>6. CASE c.op = "barrier"
  <2>1. AccessOf(c.after) \in {"read", "write", "read+write", ""}
    BY DEF AccessOf
  <2>2. u \in Use(Now, c.res, "barrier", AccessOf(c.after)) \/ u \in Use(Now, c.res, "discard", "discard")
    BY <1>6 DEF Touch, BarrierUses
  <2>3. c.res \in Resources
    BY <1>6 DEF IsChunk
  <2>4. AccessOf(c.after) # "" =>
            UseFits(c, [eid |-> Now, res |-> c.res, how |-> "barrier", access |-> AccessOf(c.after)])
    BY <1>6, <2>1 DEF UseFits
  <2>5. UseFits(c, [eid |-> Now, res |-> c.res, how |-> "discard", access |-> "discard"])
    BY <1>6 DEF UseFits
  <2> HIDE DEF Good
  <2>6. Good(u)
    BY <1>1, <2>2, <2>3, <2>4, <2>5
  <2> QED
    BY <2>6 DEF Good
<1> QED
  BY <1>2, <1>3, <1>4, <1>5, <1>6 DEF TouchOps

(* A use stays what it is: its chunk does not change.                        *)
LEMMA UseStaysRight ==
    ASSUME NEW s, NEW t, NEW n, NEW c, Grows(s, t, n, c), NEW u, UseRight(s, u)
    PROVE  UseRight(t, u)
<1>1. n \in Nat /\ Len(s) = n /\ Len(t) = n + 1 /\ t[u.eid] = s[u.eid]
  BY DEF Grows, UseRight
<1> QED
  BY <1>1 DEF UseRight

LEMMA LedgerInvInit == FrameWalkInit => LedgerInv
<1> SUFFICES ASSUME FrameWalkInit PROVE LedgerInv
  OBVIOUS
<1>1. FrameInv
  BY FrameInvInit
<1>2. heaps = Empty /\ uses = {} /\ tableUses = {}
  BY DEF FrameWalkInit, FrameInit, LedgerInit
<1> QED
  BY <1>1, <1>2 DEF LedgerInv, HeapsOK, Empty

(* What a call adds to the ledger.                                           *)
LEMMA UsesStep ==
    ASSUME StatesOK, StreamOK, NEW c \in FrameChunks, ReadChunk(c)
    PROVE  /\ \A u \in uses' : u \in uses \/ (u.eid = Now /\ UseRight(stream', u))
           /\ \A t \in tableUses' : t \in tableUses \/ (c.op = "draw" /\ \E x : t = <<Now, x>>)
           /\ uses \subseteq uses' /\ tableUses \subseteq tableUses'
<1> IsChunk(c)
  BY FrameChunksAssumption
<1>0. Now \in 1..Len(stream') /\ stream'[Now] = c
  BY AppendStep DEF ReadChunk, Now
<1>1. CASE c.op = "draw"
  <2>0. RecordUses(c) /\ DrawUses(c)
    BY <1>1 DEF ReadChunk, Note, Call, Scope, Reset, SetState, Describe, Create, Marker, Setters,
                RecordUses, TouchOps
  <2>1. CASE c.list \notin DOMAIN states
    BY <2>0, <2>1 DEF DrawUses
  <2>2. CASE c.list \in DOMAIN states
    <3>1. BoundOK(states[c.list])
      BY <2>2 DEF StatesOK
    <3>2. uses' = uses \cup UNION {BindUses(states[c.list], ns, Now) : ns \in NamespacesOf(c)}
      BY <2>0, <2>2 DEF DrawUses
    <3>3. tableUses' = tableUses \cup UNION {BindTables(states[c.list], ns, Now) : ns \in NamespacesOf(c)}
      BY <2>0, <2>2 DEF DrawUses
    <3>4. ASSUME NEW ns, NEW u \in BindUses(states[c.list], ns, Now)
          PROVE  u.eid = Now /\ UseRight(stream', u)
      <4>1. /\ u = [eid |-> Now, res |-> u.res, how |-> u.how, access |-> u.access]
            /\ u.res \in Resources \ {None} /\ UseFits(c, u)
        BY <1>1, <3>1, <3>4, BoundUsesFit
      <4>2. u.eid = Now
        BY <4>1
      <4> QED
        BY <1>0, <4>1, <4>2 DEF UseRight
    <3>5. ASSUME NEW ns, NEW t \in BindTables(states[c.list], ns, Now) PROVE \E x : t = <<Now, x>>
      BY <3>5 DEF BindTables
    <3> QED
      BY <1>1, <3>2, <3>3, <3>4, <3>5
  <2> QED
    BY <2>1, <2>2
<1>2. CASE c.op \in TouchOps
  <2>1. uses' = uses \cup Touch(c) /\ tableUses' = tableUses
    BY <1>2 DEF ReadChunk, Note, Call, Scope, Reset, SetState, Describe, Create, Marker, Setters,
                RecordUses, TouchOps
  <2>2. ASSUME NEW u \in Touch(c) PROVE u.eid = Now /\ UseRight(stream', u)
    <3>1. /\ u = [eid |-> Now, res |-> u.res, how |-> u.how, access |-> u.access]
          /\ u.res \in Resources \ {None} /\ UseFits(c, u)
      BY <1>2, <2>2, TouchFits
    <3>2. u.eid = Now
      BY <3>1
    <3> QED
      BY <1>0, <3>1, <3>2 DEF UseRight
  <2> QED
    BY <2>1, <2>2
<1>3. CASE c.op \notin ListOps
  BY <1>3 DEF ReadChunk, Note, Call, Scope, ledgerVars
<1> QED
  BY <1>1, <1>2, <1>3 DEF ListOps

LEMMA LedgerInvStep == LedgerInv /\ [FrameWalkNext]_walkVars => LedgerInv'
<1> SUFFICES ASSUME LedgerInv, [FrameWalkNext]_walkVars PROVE LedgerInv'
  OBVIOUS
<1>0. FrameInv'
  BY FrameInvStep DEF LedgerInv
<1>1. CASE UNCHANGED walkVars
  BY <1>0, <1>1 DEF walkVars, frameVars, ledgerVars, LedgerInv, HeapsOK
<1>2. ASSUME NEW c \in FrameChunks, ReadChunk(c) PROVE LedgerInv'
  <2>1. StreamOK /\ StatesOK /\ stream' = Append(stream, c)
    BY <1>2 DEF LedgerInv, FrameInv, ReadChunk
  <2>2. /\ Grows(stream, stream', Len(stream), c) /\ Len(stream) \in Nat /\ Len(stream') = Len(stream) + 1
        /\ \A i \in 1..Len(stream) : stream'[i] = stream[i]
        /\ Now = Len(stream) + 1 /\ stream'[Now] = c
    BY <2>1, StreamGrows, AppendStep DEF Now
  <2>3. HeapsOK'
    <3>1. CASE c.op \in {"view", "viewcopy"}
      <4>1. heaps' = Written(heaps, c)
        BY <1>2, <3>1 DEF ReadChunk, Note, Call, Scope, Reset, SetState, Describe, Create, Marker, ListOps,
                          TouchOps, Setters
      <4>2. IsChunk(c)
        BY FrameChunksAssumption
      <4> QED
        BY <3>1, <4>1, <4>2 DEF LedgerInv, HeapsOK, Written, Put, IsChunk
    <3>2. CASE c.op \notin {"view", "viewcopy"}
      BY <1>2, <3>2 DEF LedgerInv, HeapsOK, ReadChunk, Note, Call, Scope, Reset, SetState, Describe, Create
    <3> QED
      BY <3>1, <3>2
  <2>4. \A u \in uses' : UseRight(stream', u)
    BY <1>2, <2>1, <2>2, UsesStep, UseStaysRight DEF LedgerInv
  <2>5. ASSUME NEW t \in tableUses'
        PROVE  \E e, x : t = <<e, x>> /\ e \in 1..Len(stream') /\ stream'[e].op = "draw"
    <3>1. CASE t \in tableUses
      <4>1. PICK e, x : t = <<e, x>> /\ e \in 1..Len(stream) /\ stream[e].op = "draw"
        BY <3>1 DEF LedgerInv
      <4> QED
        BY <2>2, <4>1
    <3>2. CASE t \notin tableUses
      <4>1. PICK x : t = <<Now, x>> /\ c.op = "draw"
        BY <1>2, <2>1, <2>5, <3>2, UsesStep
      <4> QED
        BY <2>2, <4>1
    <3> QED
      BY <3>1, <3>2
  <2> QED
    BY <1>0, <2>3, <2>4, <2>5 DEF LedgerInv
<1> QED
  BY <1>1, <1>2 DEF FrameWalkNext

(* So is every use the tables add when the walk ends.                        *)
LEMMA AllUsesRight ==
    ASSUME LedgerInv, NEW u \in AllUses
    PROVE  UseRight(stream, u)
<1>1. CASE u \in uses
  BY <1>1 DEF LedgerInv
<1>2. ASSUME NEW t \in tableUses, t[2] \in DOMAIN heaps, heaps[t[2]].kind # "sampler",
             u \in Use(t[1], heaps[t[2]].res, heaps[t[2]].kind, AccessByKind[heaps[t[2]].kind])
      PROVE  UseRight(stream, u)
  <2>1. PICK e, x : t = <<e, x>> /\ e \in 1..Len(stream) /\ stream[e].op = "draw"
    BY <1>2 DEF LedgerInv
  <2>2. heaps[x] \in [kind : ViewKinds, res : Resources] /\ heaps[x].kind # "sampler"
    BY <1>2, <2>1 DEF LedgerInv, HeapsOK
  <2> DEFINE how == heaps[x].kind
             res == heaps[x].res
  <2>3. how \in BindingHows /\ res \in Resources
    BY <2>2 DEF ViewKinds, BindingHows
  <2>4. res # None /\ u = [eid |-> e, res |-> res, how |-> how, access |-> AccessByKind[how]]
    BY <1>2, <2>1 DEF Use
  <2> HIDE DEF how, res
  <2>5. u.eid = e /\ u.res = res /\ u.how = how /\ u.access = AccessByKind[how]
    BY <2>4
  <2> QED
    BY <2>1, <2>3, <2>4, <2>5 DEF UseRight, UseFits
<1> QED
  BY <1>1, <1>2 DEF AllUses, Resolved

-----------------------------------------------------------------------------
(***************************************************************************)
(* The state walk keeps, of each list and resource, the barriers the list  *)
(* recorded on it, in their order; a resource it does not call ambiguous   *)
(* is one whose claims of the two kinds agree.                             *)
(***************************************************************************)
Row == [eid : Nat, sub : Nat, after : SUBSET (StateWrites \cup StateReads)]
ClaimsIn(s, list, r) ==
    {e \in 1..Len(s) : s[e].op = "barrier" /\ s[e].form # "alias" /\ s[e].list = list /\ s[e].res = r}
WholeOf(sub) == IF sub \in WholeResource THEN All ELSE sub

RowsFollow(s, list, r, rows) ==
    /\ rows \in Seq(Row)
    /\ \A i \in 1..Len(rows) : /\ rows[i].eid \in ClaimsIn(s, list, r)
                               /\ rows[i].sub = WholeOf(s[rows[i].eid].sub)
                               /\ rows[i].after = s[rows[i].eid].after
    /\ \A i, j \in 1..Len(rows) : i < j => rows[i].eid < rows[j].eid
    /\ \A e \in ClaimsIn(s, list, r) : \E i \in 1..Len(rows) : rows[i].eid = e
Agreeing(rows) ==
    \A i, j \in 1..Len(rows) : rows[i].sub = All /\ rows[j].sub # All => rows[i].after = rows[j].after

TrackInv ==
    /\ LedgerInv
    /\ \A l \in Lists, r \in Resources \ {None} :
          RowsFollow(stream, l, r, Rows(l, r)) /\ (r \notin ambiguous => Agreeing(Rows(l, r)))
    /\ \A e \in DOMAIN listOf : e \in 1..Len(stream) /\ listOf[e] = stream[e].list /\ listOf[e] \in Lists

LEMMA TrackInvInit == FrameWalkInit => TrackInv
<1> SUFFICES ASSUME FrameWalkInit PROVE TrackInv
  OBVIOUS
<1>1. stream = <<>> /\ track = Empty /\ listOf = Empty
  BY DEF FrameWalkInit, FrameInit, StateTrackInit
<1>2. \A l, r : Rows(l, r) = <<>>
  BY <1>1 DEF Rows, Empty
<1>3. \A l, r : ClaimsIn(stream, l, r) = {}
  BY <1>1 DEF ClaimsIn
<1>4. \A l, r : RowsFollow(stream, l, r, <<>>) /\ Agreeing(<<>>)
  BY <1>3 DEF RowsFollow, Agreeing
<1> QED
  BY <1>1, <1>2, <1>4, LedgerInvInit DEF TrackInv, Empty

(* Rows of a list the chunk does not claim on stay those of its claims.      *)
LEMMA RowsStay ==
    ASSUME NEW s, NEW t, NEW n, NEW c, Grows(s, t, n, c), NEW list, NEW r, NEW rows,
           RowsFollow(s, list, r, rows),
           ~(c.op = "barrier" /\ c.form # "alias" /\ c.list = list /\ c.res = r)
    PROVE  RowsFollow(t, list, r, rows)
<1>1. n \in Nat /\ Len(s) = n /\ Len(t) = n + 1 /\ t[n + 1] = c /\ \A i \in 1..n : t[i] = s[i]
  BY DEF Grows
<1>2. ClaimsIn(t, list, r) = ClaimsIn(s, list, r)
  BY <1>1 DEF ClaimsIn
<1>3. \A e \in ClaimsIn(s, list, r) : t[e] = s[e]
  BY <1>1 DEF ClaimsIn
<1> QED
  BY <1>2, <1>3 DEF RowsFollow

LEMMA RowsGrow ==
    ASSUME NEW s, NEW t, NEW n, NEW c, Grows(s, t, n, c), NEW list, NEW r, NEW rows,
           RowsFollow(s, list, r, rows), c.op = "barrier", c.form # "alias", c.list = list, c.res = r
    PROVE  RowsFollow(t, list, r, Append(rows, [eid |-> n + 1, sub |-> WholeOf(c.sub), after |-> c.after]))
<1> DEFINE row == [eid |-> n + 1, sub |-> WholeOf(c.sub), after |-> c.after]
           more == Append(rows, row)
           m == Len(rows)
<1>1. n \in Nat /\ Len(s) = n /\ Len(t) = n + 1 /\ t[n + 1] = c /\ \A i \in 1..n : t[i] = s[i]
  BY DEF Grows
<1>2. ClaimsIn(t, list, r) = ClaimsIn(s, list, r) \cup {n + 1}
  BY <1>1 DEF ClaimsIn
<1>3. \A e \in ClaimsIn(s, list, r) : t[e] = s[e] /\ e \in 1..n
  BY <1>1 DEF ClaimsIn
<1>4. row \in Row /\ row.eid = n + 1 /\ row.sub = WholeOf(c.sub) /\ row.after = c.after
  <2>1. c.sub \in Nat /\ c.after \subseteq StateWrites \cup StateReads
    BY FrameChunksAssumption DEF Grows, IsChunk
  <2>2. WholeOf(c.sub) \in Nat
    BY <2>1 DEF WholeOf, All
  <2> QED
    BY <1>1, <2>1, <2>2 DEF Row
<1> HIDE DEF row
<1>5. /\ more \in Seq(Row) /\ Len(more) = m + 1 /\ m \in Nat /\ more[m + 1] = row
      /\ \A i \in 1..m : more[i] = rows[i]
  BY <1>4 DEF RowsFollow
<1> HIDE DEF more, m
<1>6. /\ \A i \in 1..m : /\ rows[i].eid \in ClaimsIn(s, list, r)
                          /\ rows[i].sub = WholeOf(s[rows[i].eid].sub)
                          /\ rows[i].after = s[rows[i].eid].after
      /\ \A i, j \in 1..m : i < j => rows[i].eid < rows[j].eid
      /\ \A e \in ClaimsIn(s, list, r) : \E i \in 1..m : rows[i].eid = e
  BY DEF RowsFollow, m
<1>7. \A i \in 1..(m + 1) : /\ more[i].eid \in ClaimsIn(t, list, r)
                            /\ more[i].sub = WholeOf(t[more[i].eid].sub)
                            /\ more[i].after = t[more[i].eid].after
  <2> SUFFICES ASSUME NEW i \in 1..(m + 1)
               PROVE  /\ more[i].eid \in ClaimsIn(t, list, r)
                      /\ more[i].sub = WholeOf(t[more[i].eid].sub)
                      /\ more[i].after = t[more[i].eid].after
    OBVIOUS
  <2>1. CASE i = m + 1
    BY <1>1, <1>2, <1>4, <1>5, <2>1
  <2>2. CASE i \in 1..m
    BY <1>2, <1>3, <1>5, <1>6, <2>2
  <2> QED
    BY <1>5, <2>1, <2>2
<1>8. \A i, j \in 1..(m + 1) : i < j => more[i].eid < more[j].eid
  <2> SUFFICES ASSUME NEW i \in 1..(m + 1), NEW j \in 1..(m + 1), i < j PROVE more[i].eid < more[j].eid
    OBVIOUS
  <2>1. i \in 1..m
    BY <1>5
  <2>2. rows[i].eid \in 1..n
    BY <1>3, <1>6, <2>1
  <2>3. CASE j = m + 1
    BY <1>1, <1>4, <1>5, <2>1, <2>2, <2>3
  <2>4. CASE j \in 1..m
    BY <1>5, <1>6, <2>1, <2>4
  <2> QED
    BY <1>5, <2>3, <2>4
<1>9. \A e \in ClaimsIn(t, list, r) : \E i \in 1..(m + 1) : more[i].eid = e
  <2> SUFFICES ASSUME NEW e \in ClaimsIn(t, list, r) PROVE \E i \in 1..(m + 1) : more[i].eid = e
    OBVIOUS
  <2>1. CASE e = n + 1
    BY <1>4, <1>5, <2>1
  <2>2. CASE e # n + 1
    <3>1. PICK i \in 1..m : rows[i].eid = e
      BY <1>2, <1>6, <2>2
    <3> QED
      BY <1>5, <3>1
  <2> QED
    BY <2>1, <2>2
<1> QED
  BY <1>5, <1>7, <1>8, <1>9 DEF RowsFollow, more, row

LEMMA AgreeingGrows ==
    ASSUME NEW rows \in Seq(Row), Agreeing(rows), NEW row \in Row,
           \A i \in 1..Len(rows) : (IF row.sub = All THEN rows[i].sub # All ELSE rows[i].sub = All)
                                       => rows[i].after = row.after
    PROVE  Agreeing(Append(rows, row))
<1> DEFINE more == Append(rows, row)
           m == Len(rows)
<1>1. /\ m \in Nat /\ Len(more) = m + 1 /\ more[m + 1] = row /\ \A i \in 1..m : more[i] = rows[i]
  OBVIOUS
<1> HIDE DEF more, m
<1>2. SUFFICES ASSUME NEW i \in 1..(m + 1), NEW j \in 1..(m + 1), more[i].sub = All, more[j].sub # All
               PROVE  more[i].after = more[j].after
  BY <1>1 DEF Agreeing, more
<1>3. CASE i \in 1..m /\ j \in 1..m
  BY <1>1, <1>2, <1>3 DEF Agreeing, m
<1>4. CASE i = m + 1 /\ j \in 1..m
  BY <1>1, <1>2, <1>4 DEF m
<1>5. CASE i \in 1..m /\ j = m + 1
  BY <1>1, <1>2, <1>5 DEF m
<1>6. i # j
  BY <1>2
<1> QED
  BY <1>1, <1>3, <1>4, <1>5, <1>6

(* A claim is a row of its own resource and list, and makes that resource    *)
(* ambiguous unless it agrees with the rows of the other kind.               *)
LEMMA ClaimStep ==
    ASSUME TrackInv, NEW c, Grows(stream, stream', Len(stream), c), Claim(c),
           c.op = "barrier", c.form # "alias", c.res # None
    PROVE  \A l \in Lists, r \in Resources \ {None} :
              RowsFollow(stream', l, r, Rows(l, r)') /\ (r \notin ambiguous' => Agreeing(Rows(l, r)'))
<1> TAKE l \in Lists, r \in Resources \ {None}
<1> DEFINE row == [eid |-> Now, sub |-> WholeOf(c.sub), after |-> c.after]
<1>1. track' = Put(track, <<c.list, c.res>>, Append(Rows(c.list, c.res), row))
  BY DEF Claim, WholeOf
<1>2. ambiguous \subseteq ambiguous'
  BY DEF Claim
<1>3. /\ RowsFollow(stream, l, r, Rows(l, r)) /\ (r \notin ambiguous => Agreeing(Rows(l, r)))
  BY DEF TrackInv
<1>4. CASE <<l, r>> # <<c.list, c.res>>
  <2>1. Rows(l, r)' = Rows(l, r)
    BY <1>1, <1>4 DEF Rows, Put
  <2>2. RowsFollow(stream', l, r, Rows(l, r))
    BY <1>3, <1>4, RowsStay
  <2> QED
    BY <1>2, <1>3, <2>1, <2>2
<1>5. CASE <<l, r>> = <<c.list, c.res>>
  <2>0. l = c.list /\ r = c.res
    BY <1>5
  <2>1. Rows(l, r)' = Append(Rows(l, r), row)
    BY <1>1, <2>0 DEF Rows, Put
  <2>2. RowsFollow(stream', l, r, Append(Rows(l, r), row))
    BY <1>3, <2>0, RowsGrow DEF Now
  <2>3. ASSUME r \notin ambiguous' PROVE Agreeing(Append(Rows(l, r), row))
    <3>1. Agreeing(Rows(l, r)) /\ Rows(l, r) \in Seq(Row)
      BY <1>2, <1>3, <2>3 DEF RowsFollow
    <3>2. row \in Row /\ row.sub = WholeOf(c.sub) /\ row.after = c.after
      <4>1. c.sub \in Nat /\ c.after \subseteq StateWrites \cup StateReads
        BY FrameChunksAssumption DEF Grows, IsChunk
      <4>2. WholeOf(c.sub) \in Nat /\ Now \in Nat
        BY <4>1 DEF WholeOf, All, Now, Grows
      <4> QED
        BY <4>1, <4>2 DEF Row
    <3>3. \A w \in Range(Rows(l, r)) :
              ~((IF WholeOf(c.sub) = All THEN w.sub # All ELSE w.sub = All) /\ w.after # c.after)
      BY <2>0, <2>3 DEF Claim, WholeOf
    <3>4. \A i \in 1..Len(Rows(l, r)) : Rows(l, r)[i] \in Range(Rows(l, r))
      BY <3>1 DEF Range
    <3> HIDE DEF row
    <3>5. \A i \in 1..Len(Rows(l, r)) : (IF row.sub = All THEN Rows(l, r)[i].sub # All ELSE Rows(l, r)[i].sub = All)
                                            => Rows(l, r)[i].after = row.after
      BY <3>2, <3>3, <3>4
    <3> QED
      BY <3>1, <3>2, <3>5, AgreeingGrows
  <2> QED
    BY <2>1, <2>2, <2>3
<1> QED
  BY <1>4, <1>5

LEMMA TrackInvStep == TrackInv /\ [FrameWalkNext]_walkVars => TrackInv'
<1> SUFFICES ASSUME TrackInv, [FrameWalkNext]_walkVars PROVE TrackInv'
  OBVIOUS
<1>0. LedgerInv'
  BY LedgerInvStep DEF TrackInv
<1>1. CASE UNCHANGED walkVars
  BY <1>0, <1>1 DEF walkVars, frameVars, trackVars, TrackInv, Rows
<1>2. ASSUME NEW c \in FrameChunks, ReadChunk(c) PROVE TrackInv'
  <2>1. StreamOK /\ stream' = Append(stream, c) /\ IsChunk(c)
    BY <1>2, FrameChunksAssumption DEF TrackInv, LedgerInv, FrameInv, ReadChunk
  <2>2. /\ Grows(stream, stream', Len(stream), c) /\ Len(stream) \in Nat /\ Len(stream') = Len(stream) + 1
        /\ \A i \in 1..Len(stream) : stream'[i] = stream[i]
        /\ Now = Len(stream) + 1 /\ stream'[Now] = c
    BY <2>1, StreamGrows, AppendStep DEF Now
  <2>3. CASE c.op \in ListOps
    <3>1. TrackStates(c) /\ c.list \in Lists
      BY <1>2, <2>1, <2>3 DEF ReadChunk, Note, Call, Scope, Reset, SetState, Describe, Create, Marker, Setters,
                              ListOps, TouchOps, IsChunk
    <3>2. \A e \in DOMAIN listOf' : e \in 1..Len(stream') /\ listOf'[e] = stream'[e].list /\ listOf'[e] \in Lists
      BY <2>2, <3>1 DEF TrackStates, Put, TrackInv
    <3>3. \A l \in Lists, r \in Resources \ {None} :
              RowsFollow(stream', l, r, Rows(l, r)') /\ (r \notin ambiguous' => Agreeing(Rows(l, r)'))
      <4>1. CASE c.op = "barrier" /\ c.form # "alias" /\ c.res # None
        BY <2>2, <3>1, <4>1, ClaimStep DEF TrackStates
      <4>2. CASE ~(c.op = "barrier" /\ c.form # "alias" /\ c.res # None)
        <5>1. UNCHANGED <<track, ambiguous>>
          BY <3>1, <4>2 DEF TrackStates
        <5>2. \A l \in Lists, r \in Resources \ {None} : RowsFollow(stream', l, r, Rows(l, r))
          BY <2>2, <4>2, RowsStay DEF TrackInv
        <5> QED
          BY <5>1, <5>2 DEF TrackInv, Rows
      <4> QED
        BY <4>1, <4>2
    <3> QED
      BY <1>0, <3>2, <3>3 DEF TrackInv
  <2>4. CASE c.op \notin ListOps
    <3>1. UNCHANGED trackVars
      BY <1>2, <2>4 DEF ReadChunk, Note, Call, Scope
    <3>2. \A l \in Lists, r \in Resources \ {None} : RowsFollow(stream', l, r, Rows(l, r))
      BY <2>2, <2>4, RowsStay DEF TrackInv, ListOps, TouchOps
    <3>3. \A l, r : Rows(l, r)' = Rows(l, r)
      BY <3>1 DEF Rows, trackVars
    <3> QED
      BY <1>0, <2>2, <3>1, <3>2, <3>3 DEF TrackInv, trackVars
  <2> QED
    BY <2>3, <2>4
<1> QED
  BY <1>1, <1>2 DEF FrameWalkNext

(***************************************************************************)
(* The last whole transition before a use and the last barrier that names  *)
(* a subresource of it leave the same state: they are one barrier, or they *)
(* are rows of the two kinds, which agree.                                 *)
(***************************************************************************)
LEMMA FindingsFromInv == TrackInv => FindingsHaveNoExcuse
<1> SUFFICES ASSUME TrackInv, NEW u \in Findings, u.res \in Textures => NamedApart(u.res),
                    NEW sub \in Subresources(u.res),
                    NEW state \in SubstateAt(u.res, stream[u.eid].list, sub, u.eid)
             PROVE  ~Permitted(u, state)
  BY DEF FindingsHaveNoExcuse
<1>1. /\ u \in AllUses /\ u.res \notin ambiguous /\ u.eid \in DOMAIN listOf
      /\ \E old \in StateAt(u.res, listOf[u.eid], u.eid) : ~Permitted(u, old)
  BY DEF Findings, Checked, StateOfUse
<1>2. PICK old \in StateAt(u.res, listOf[u.eid], u.eid) : ~Permitted(u, old)
  BY <1>1
<1>3. u.res \in Resources \ {None} /\ u.eid \in 1..Len(stream)
  BY <1>1, AllUsesRight DEF TrackInv, UseRight
<1> DEFINE l == stream[u.eid].list
           r == u.res
           at == u.eid
           rows == Rows(l, r)
<1>4. l \in Lists /\ listOf[u.eid] = l
  BY <1>1 DEF TrackInv
<1>5. RowsFollow(stream, l, r, rows) /\ Agreeing(rows)
  BY <1>1, <1>3, <1>4 DEF TrackInv
<1>6. PICK i0 \in 1..Len(rows) : /\ rows[i0].sub = All /\ rows[i0].eid < at /\ old = rows[i0].after
                                 /\ \A j \in 1..Len(rows) : rows[j].sub = All /\ rows[j].eid < at => j <= i0
  BY <1>2, <1>4 DEF StateAt
<1>7. PICK e1 \in 1..(at - 1) :
          /\ stream[e1].op = "barrier" /\ stream[e1].form # "alias" /\ stream[e1].list = l /\ stream[e1].res = r
          /\ stream[e1].sub \in {sub, All} /\ state = stream[e1].after
          /\ \A j \in 1..(at - 1) : /\ stream[j].op = "barrier" /\ stream[j].form # "alias"
                                    /\ stream[j].list = l /\ stream[j].res = r
                                    /\ stream[j].sub \in {sub, All}
                                    => j <= e1
  BY DEF SubstateAt
<1>8. Len(stream) \in Nat
  BY DEF TrackInv, LedgerInv, FrameInv, StreamOK
<1>9. e1 \in ClaimsIn(stream, l, r) /\ e1 < at
  BY <1>3, <1>7, <1>8 DEF ClaimsIn
<1>10. PICK i1 \in 1..Len(rows) : rows[i1].eid = e1
  BY <1>5, <1>9 DEF RowsFollow
<1>11. rows[i1].after = state /\ rows[i1].sub = WholeOf(stream[e1].sub)
  BY <1>5, <1>7, <1>10 DEF RowsFollow
<1> HIDE DEF rows, l, r, at
<1>12. CASE rows[i1].sub # All
  BY <1>2, <1>5, <1>6, <1>11, <1>12 DEF Agreeing
<1>13. CASE rows[i1].sub = All
  <2>1. i1 <= i0
    BY <1>6, <1>9, <1>10, <1>13
  <2> DEFINE e0 == rows[i0].eid
  <2>2. e0 \in ClaimsIn(stream, l, r) /\ WholeOf(stream[e0].sub) = All /\ rows[i0].after = stream[e0].after
    BY <1>5, <1>6 DEF RowsFollow
  <2>3. i1 = i0 \/ e1 < e0
    BY <1>5, <1>10, <2>1 DEF RowsFollow
  <2>4. stream[e0].sub \in WholeResource
    BY <2>2 DEF WholeOf, WholeResource, All
  <2>5. stream[e0].sub \in {sub, All}
    <3>1. CASE sub = 0
      BY <2>4, <3>1 DEF WholeResource
    <3>2. CASE sub # 0
      <4>1. u.res \in Textures
        BY <3>2 DEF Subresources
      <4>2. stream[e0] \in Range(stream)
        BY <1>8, <2>2 DEF ClaimsIn, Range, TrackInv, LedgerInv, FrameInv, StreamOK
      <4>3. stream[e0].sub # 0
        BY <2>2, <4>1, <4>2 DEF NamedApart, ClaimsIn, r
      <4> QED
        BY <2>4, <4>3 DEF WholeResource
    <3> QED
      BY <3>1, <3>2
  <2>6. e0 \in 1..(at - 1)
    BY <1>3, <1>6, <1>8, <2>2 DEF ClaimsIn, at
  <2>7. e0 <= e1
    BY <1>7, <2>2, <2>5, <2>6 DEF ClaimsIn, l, r, at
  <2>8. e0 = e1
    BY <1>10, <2>3, <2>6, <2>7
  <2> QED
    BY <1>2, <1>6, <1>7, <2>2, <2>8
<1> QED
  BY <1>12, <1>13

(* Whatever the stream, a use `hazards` reports is one that no barrier its   *)
(* own list recorded before it explains, whichever subresource it was of     *)
(* (a texture of which subresource 0 alone was transitioned excepted).       *)
THEOREM FindingsAreUnexcused == FrameWalkSpec => []FindingsHaveNoExcuse
<1>1. FrameWalkInit => TrackInv
  BY TrackInvInit
<1>2. TrackInv /\ [FrameWalkNext]_walkVars => TrackInv'
  BY TrackInvStep
<1>3. TrackInv => FindingsHaveNoExcuse
  BY FindingsFromInv
<1> QED
  BY <1>1, <1>2, <1>3, PTL DEF FrameWalkSpec

-----------------------------------------------------------------------------
(***************************************************************************)
(* Placement: the window of a resource is from its first use to its last.  *)
(***************************************************************************)
LEMMA NatMinIs ==
    ASSUME NEW T \in SUBSET Nat, T # {}
    PROVE  Min(T) \in T /\ \A y \in T : Min(T) <= y
<1>1. \E m \in T : \A y \in T : m <= y
  BY NatLeast
<1> QED
  BY <1>1 DEF Min

LEMMA NatMaxIs ==
    ASSUME NEW n \in Nat, NEW T \in SUBSET (0..n), T # {}
    PROVE  Max(T) \in T /\ \A y \in T : y <= Max(T)
<1>1. \E m \in T : \A y \in T : y <= m
  BY NatLatest
<1> QED
  BY <1>1 DEF Max

CreatedOK == DOMAIN created \in SUBSET (Resources \ {None})
PlacementInv == LedgerInv /\ CreatedOK

LEMMA PlacementInvInit == FrameWalkInit => PlacementInv
  BY LedgerInvInit DEF FrameWalkInit, FrameInit, PlacementInv, CreatedOK, Empty

LEMMA PlacementInvStep == PlacementInv /\ [FrameWalkNext]_walkVars => PlacementInv'
<1> SUFFICES ASSUME PlacementInv, [FrameWalkNext]_walkVars PROVE PlacementInv'
  OBVIOUS
<1>0. LedgerInv'
  BY LedgerInvStep DEF PlacementInv
<1>1. CASE UNCHANGED walkVars
  BY <1>0, <1>1 DEF walkVars, frameVars, PlacementInv, CreatedOK
<1>2. ASSUME NEW c \in FrameChunks, ReadChunk(c) PROVE CreatedOK'
  <2>1. CASE UNCHANGED created
    BY <2>1 DEF PlacementInv, CreatedOK
  <2>2. CASE Create(c)
    <3>1. IsChunk(c) /\ c.op = "create"
      BY <2>2, FrameChunksAssumption DEF Create
    <3>2. c.res \in Resources \ {None}
      BY <3>1 DEF IsChunk
    <3>3. DOMAIN created' = DOMAIN created \cup {c.res}
      BY <2>2 DEF Create, Put
    <3> QED
      BY <3>2, <3>3 DEF PlacementInv, CreatedOK
  <2> QED
    BY <1>2, <2>1, <2>2 DEF ReadChunk, Note, Call, Scope
<1> QED
  BY <1>0, <1>1, <1>2 DEF FrameWalkNext, PlacementInv

LEMMA WindowIs ==
    ASSUME LedgerInv, NEW r \in Used, NEW u \in UsesOf(r)
    PROVE  /\ FirstUse(r) \in Nat /\ LastUse(r) \in Nat /\ u.eid \in Nat
           /\ FirstUse(r) <= u.eid /\ u.eid <= LastUse(r)
<1> DEFINE T == Eids(UsesOf(r))
<1>1. Len(stream) \in Nat
  BY DEF LedgerInv, FrameInv, StreamOK
<1>2. \A v \in UsesOf(r) : v.eid \in 1..Len(stream)
  BY AllUsesRight DEF UsesOf, UseRight
<1>3. T \in SUBSET (0..Len(stream)) /\ T \in SUBSET Nat /\ u.eid \in T
  BY <1>1, <1>2 DEF Eids
<1> HIDE DEF T
<1>4. Min(T) \in T /\ Min(T) <= u.eid
  BY <1>3, NatMinIs
<1>5. Max(T) \in T /\ u.eid <= Max(T)
  BY <1>1, <1>3, NatMaxIs
<1> QED
  BY <1>3, <1>4, <1>5 DEF FirstUse, LastUse, T

(* Of the pairs of a write and a later read there is a first.                *)
LEMMA FirstPair ==
    ASSUME NEW T \in SUBSET (Nat \X Nat), T # {}
    PROVE  \E f \in T : \A g \in T : f[1] < g[1] \/ (f[1] = g[1] /\ f[2] <= g[2])
<1> DEFINE W == {f[1] : f \in T}
<1>1. W \in SUBSET Nat /\ W # {}
  OBVIOUS
<1>2. PICK m \in W : \A y \in W : m <= y
  BY <1>1, NatLeast
<1> DEFINE R == {f[2] : f \in {f \in T : f[1] = m}}
<1>3. R \in SUBSET Nat /\ R # {}
  OBVIOUS
<1>4. PICK k \in R : \A y \in R : k <= y
  BY <1>3, NatLeast
<1>5. PICK f \in T : f[1] = m /\ f[2] = k
  BY <1>4
<1>6. ASSUME NEW g \in T PROVE f[1] < g[1] \/ (f[1] = g[1] /\ f[2] <= g[2])
  <2>1. g[1] \in W /\ m <= g[1] /\ g[1] \in Nat /\ m \in Nat
    BY <1>1, <1>2
  <2>2. CASE g[1] = m
    BY <1>4, <1>5, <2>2
  <2>3. CASE g[1] # m
    BY <1>5, <2>1, <2>3
  <2> QED
    BY <2>2, <2>3
<1> QED
  BY <1>6

LEMMA WriteIsFound ==
    ASSUME LedgerInv, NEW a \in Used, NEW b \in Used, NEW w \in Writes(a), NEW u \in Reads(b),
           w.how \in WriterHows, w.eid < u.eid, FirstUse(b) <= w.eid
    PROVE  \E x \in PairConflicts(a, b) \cap PairConflicts(b, a) : x.writer = a
<1> DEFINE found == {<<v.eid, t.eid>> : v \in {v \in Writes(a) : v.how \in WriterHows}, t \in Reads(b)}
           live == {f \in found : FirstUse(b) <= f[1] /\ f[1] <= LastUse(b) /\ f[1] <= f[2]}
<1>1. \A v \in Writes(a), t \in Reads(b) : v.eid \in Nat /\ t.eid \in Nat
  BY WindowIs DEF Writes, Reads
<1>2. found \in SUBSET (Nat \X Nat)
  BY <1>1
<1>3. w.eid \in Nat /\ u.eid \in Nat /\ LastUse(b) \in Nat /\ u.eid <= LastUse(b)
  BY <1>1, WindowIs DEF Reads
<1>4. <<w.eid, u.eid>> \in live
  BY <1>3
<1>5. live \in SUBSET (Nat \X Nat) /\ live # {}
  BY <1>2, <1>4
<1>6. WriteWhileRead(a, b) = {f \in live : \A g \in live : f[1] < g[1] \/ (f[1] = g[1] /\ f[2] <= g[2])}
  BY DEF WriteWhileRead
<1> HIDE DEF live, found
<1>7. PICK f \in WriteWhileRead(a, b) : TRUE
  BY <1>5, <1>6, FirstPair
<1> DEFINE declared(h) == {k \in Handovers(a, b) : h[1] < k /\ k <= h[2]}
           x == [writer |-> a, reader |-> b, write |-> f[1], read |-> f[2],
                 declared |-> IF declared(f) = {} THEN 0 ELSE Min(declared(f))]
<1>8. x \in PairConflicts(a, b)
  BY <1>7 DEF PairConflicts
<1>9. Handovers(b, a) = Handovers(a, b)
  <2>1. {a, b} = {b, a}
    OBVIOUS
  <2> QED
    BY <2>1 DEF Handovers
<1>10. x \in PairConflicts(b, a)
  BY <1>7, <1>9 DEF PairConflicts
<1> QED
  BY <1>8, <1>10

LEMMA ClobbersFromInv == PlacementInv => NoClobberMissed
<1> SUFFICES ASSUME PlacementInv, NEW a \in Placed \cap Used, NEW b \in Placed \cap Used,
                    a # b, created[a].heap = created[b].heap, ByteOverlap(a, b) > 0,
                    NEW w \in Writes(a), NEW u \in Reads(b),
                    w.how \in WriterHows, w.eid < u.eid, FirstUse(b) <= w.eid
             PROVE  /\ \E p \in AliasConflicts : {p.a, p.b} = {a, b} /\ \E x \in p.conflicts : x.writer = a
                    /\ {a, b} \notin AliasCandidates
  BY DEF NoClobberMissed
<1>1. a \in Nat /\ b \in Nat
  BY FrameAssumption DEF PlacementInv, CreatedOK, Placed
<1>2. /\ FirstUse(a) \in Nat /\ LastUse(a) \in Nat /\ w.eid \in Nat
      /\ FirstUse(a) <= w.eid /\ w.eid <= LastUse(a)
  BY WindowIs DEF PlacementInv, Writes
<1>3. /\ FirstUse(b) \in Nat /\ LastUse(b) \in Nat /\ u.eid \in Nat /\ u.eid <= LastUse(b)
  BY WindowIs DEF PlacementInv, Reads
<1>4. WindowsMeet(a, b) /\ WindowsMeet(b, a)
  BY <1>2, <1>3 DEF WindowsMeet
<1>5. PICK x \in PairConflicts(a, b) \cap PairConflicts(b, a) : x.writer = a
  BY WriteIsFound DEF PlacementInv
<1>6. ByteOverlap(b, a) > 0
  <2>1. /\ {created[a].offset + Size(a), created[b].offset + Size(b)}
             = {created[b].offset + Size(b), created[a].offset + Size(a)}
        /\ {created[a].offset, created[b].offset} = {created[b].offset, created[a].offset}
    OBVIOUS
  <2> QED
    BY <2>1 DEF ByteOverlap
<1>7. a \in InHeap(created[b].heap) /\ b \in InHeap(created[a].heap)
  BY DEF InHeap
<1>8. {a, b} \notin AliasCandidates
  BY <1>4 DEF AliasCandidates
<1>9. ASSUME NEW p, NEW q, p \in Placed, q \in InHeap(created[p].heap), p < q, WindowsMeet(p, q),
             ByteOverlap(p, q) > 0, x \in PairConflicts(p, q), {p, q} = {a, b}
      PROVE  \E row \in AliasConflicts : {row.a, row.b} = {a, b} /\ \E y \in row.conflicts : y.writer = a
  <2> DEFINE row == [a |-> p, b |-> q, conflicts |-> PairConflicts(p, q)]
  <2>1. row \in AliasConflicts
    BY <1>9 DEF AliasConflicts
  <2>2. row.a = p /\ row.b = q /\ row.conflicts = PairConflicts(p, q)
    OBVIOUS
  <2> HIDE DEF row
  <2> QED
    BY <1>5, <1>9, <2>1, <2>2
<1>10. CASE a < b
  BY <1>4, <1>5, <1>7, <1>8, <1>9, <1>10
<1>11. CASE b < a
  <2>1. {b, a} = {a, b}
    OBVIOUS
  <2> QED
    BY <1>4, <1>5, <1>6, <1>7, <1>8, <1>9, <1>11, <2>1
<1> QED
  BY <1>1, <1>10, <1>11

(* Whatever the stream, `memory` lists every pair of placed resources of     *)
(* which one was written in the other's bytes while the other was still to   *)
(* be read, in that direction, and offers no such pair to share memory.      *)
THEOREM ClobbersAreListed == FrameWalkSpec => []NoClobberMissed
<1>1. FrameWalkInit => PlacementInv
  BY PlacementInvInit
<1>2. PlacementInv /\ [FrameWalkNext]_walkVars => PlacementInv'
  BY PlacementInvStep
<1>3. PlacementInv => NoClobberMissed
  BY ClobbersFromInv
<1> QED
  BY <1>1, <1>2, <1>3, PTL DEF FrameWalkSpec

-----------------------------------------------------------------------------
(***************************************************************************)
(* Provenance.  A resource was made by the one chunk that creates it, and  *)
(* a copy's source is one of its uses.                                     *)
(***************************************************************************)
CopiesFrom(c) == c.op \in {"copy", "resolve"} /\ c.from # None
SourceUse(c, k) ==
    [eid |-> k, res |-> c.from, how |-> IF c.op = "copy" THEN "copy-src" ELSE "resolve-src", access |-> "read"]

OriginInv ==
    /\ PlacementInv
    /\ \A r \in DOMAIN created : /\ created[r].eid \in 1..Len(stream)
                                 /\ stream[created[r].eid].op = "create" /\ stream[created[r].eid].res = r
    /\ \A k \in 1..Len(stream) : stream[k].op = "create" =>
          stream[k].res \in DOMAIN created /\ created[stream[k].res].eid = k
    /\ \A k \in 1..Len(stream) : CopiesFrom(stream[k]) => SourceUse(stream[k], k) \in uses

LEMMA OriginInvInit == FrameWalkInit => OriginInv
<1> SUFFICES ASSUME FrameWalkInit PROVE OriginInv
  OBVIOUS
<1>1. stream = <<>> /\ created = Empty
  BY DEF FrameWalkInit, FrameInit
<1> QED
  BY <1>1, PlacementInvInit DEF OriginInv, Empty

LEMMA SourceIsUsed ==
    ASSUME StreamOK, StatesOK, NEW c \in FrameChunks, ReadChunk(c), CopiesFrom(c)
    PROVE  SourceUse(c, Now) \in uses'
<1>1. uses' = uses \cup Touch(c)
  BY DEF ReadChunk, Note, Call, Scope, Reset, SetState, Describe, Create, Marker, Setters,
         RecordUses, TouchOps, CopiesFrom
<1>2. CASE c.op = "copy"
  <2>1. SourceUse(c, Now) \in Use(Now, c.from, "copy-src", "read")
    BY <1>2 DEF CopiesFrom, SourceUse, Use
  <2> QED
    BY <1>1, <1>2, <2>1 DEF Touch
<1>3. CASE c.op = "resolve"
  <2>1. SourceUse(c, Now) \in Use(Now, c.from, "resolve-src", "read")
    BY <1>3 DEF CopiesFrom, SourceUse, Use
  <2> QED
    BY <1>1, <1>3, <2>1 DEF Touch
<1> QED
  BY <1>2, <1>3 DEF CopiesFrom

LEMMA OriginInvStep == OriginInv /\ [FrameWalkNext]_walkVars => OriginInv'
<1> SUFFICES ASSUME OriginInv, [FrameWalkNext]_walkVars PROVE OriginInv'
  OBVIOUS
<1>0. PlacementInv'
  BY PlacementInvStep DEF OriginInv
<1>1. CASE UNCHANGED walkVars
  BY <1>0, <1>1 DEF walkVars, frameVars, ledgerVars, OriginInv
<1>2. ASSUME NEW c \in FrameChunks, ReadChunk(c) PROVE OriginInv'
  <2>1. StreamOK /\ StatesOK /\ stream' = Append(stream, c) /\ IsChunk(c)
    BY <1>2, FrameChunksAssumption DEF OriginInv, PlacementInv, LedgerInv, FrameInv, ReadChunk
  <2>2. /\ Len(stream) \in Nat /\ Len(stream') = Len(stream) + 1
        /\ \A i \in 1..Len(stream) : stream'[i] = stream[i]
        /\ Now = Len(stream) + 1 /\ stream'[Now] = c
    BY <2>1, AppendStep DEF Now
  <2>3. \A k \in 1..Len(stream') : k \in 1..Len(stream) \/ k = Now
    BY <2>2
  <2>4. uses \subseteq uses'
    BY <1>2, <2>1, UsesStep
  <2>5. \A k \in 1..Len(stream') : CopiesFrom(stream'[k]) => SourceUse(stream'[k], k) \in uses'
    BY <1>2, <2>1, <2>2, <2>3, <2>4, SourceIsUsed DEF OriginInv
  <2>6. CASE c.op = "create"
    <3>1. Create(c)
      BY <1>2, <2>6 DEF ReadChunk, Note, Call, Scope, Reset, SetState, Describe, Create, Marker, Setters,
                        ListOps, TouchOps
    <3>2. /\ c.res \notin DOMAIN created /\ DOMAIN created' = DOMAIN created \cup {c.res}
          /\ created'[c.res].eid = Now /\ \A r \in DOMAIN created : created'[r] = created[r]
      BY <3>1 DEF Create, Put
    <3>3. \A r \in DOMAIN created' : /\ created'[r].eid \in 1..Len(stream')
                                     /\ stream'[created'[r].eid].op = "create" /\ stream'[created'[r].eid].res = r
      BY <2>2, <2>6, <3>2 DEF OriginInv
    <3>4. \A k \in 1..Len(stream') : stream'[k].op = "create" =>
              stream'[k].res \in DOMAIN created' /\ created'[stream'[k].res].eid = k
      BY <2>2, <2>3, <3>2 DEF OriginInv
    <3> QED
      BY <1>0, <2>5, <3>3, <3>4 DEF OriginInv
  <2>7. CASE c.op # "create"
    <3>1. UNCHANGED created
      BY <1>2, <2>7 DEF ReadChunk, Note, Call, Scope, Create
    <3> QED
      BY <1>0, <2>2, <2>3, <2>5, <2>7, <3>1 DEF OriginInv
  <2> QED
    BY <2>6, <2>7
<1> QED
  BY <1>1, <1>2 DEF FrameWalkNext

(***************************************************************************)
(* What the frame did, forwards: a recursion on the chunk before.          *)
(***************************************************************************)
HowsAt(r, k) == {u.how : u \in {u \in UsesOf(r) : u.eid = k /\ u.access # "read" /\ u.how # "barrier"}}

RowAfter(row, k) ==
    [r \in Resources |->
        IF k = 0 THEN <<"no-writer", r, 0>>
        ELSE LET hows == {u.how : u \in {u \in UsesOf(r) : u.eid = k /\ u.access # "read" /\ u.how # "barrier"}}
             IN  CASE stream[k].op = "create" /\ stream[k].res = r -> <<"created", r, k>>
                   [] "discard" \in hows -> <<"discard", r, k>>
                   [] "clear" \in hows -> <<"clear", r, k>>
                   [] hows \cap {"copy-dst", "resolve-dst"} # {} ->
                         (IF stream[k].from = None THEN <<"lost", r, k>> ELSE row[stream[k].from])
                   [] hows # {} /\ hows \cap {"discard", "clear", "copy-dst", "resolve-dst"} = {} ->
                         <<"call", r, k>>
                   [] OTHER -> row[r]]
RowsUpTo(f, n) == [k \in 0..n |-> RowAfter(f[k - 1], k)]

LEMMA ContentsDef == Contents = CHOOSE f : f = RowsUpTo(f, Len(stream))
  BY DEF Contents, RowsUpTo, RowAfter

LEMMA FirstRow == \A row, old : RowAfter(row, 0) = RowAfter(old, 0)
  BY DEF RowAfter

LEMMA ContentsExist ==
    ASSUME NEW n \in Nat
    PROVE  \E f : f = RowsUpTo(f, n)
<1> DEFINE bad == {m \in 0..n : ~\E f : f = RowsUpTo(f, m)}
<1>1. SUFFICES ASSUME bad # {} PROVE FALSE
  OBVIOUS
<1>2. PICK m \in bad : \A y \in bad : m <= y
  <2>1. bad \in SUBSET Nat
    OBVIOUS
  <2> QED
    BY <1>1, <2>1, NatLeast
<1>3. CASE m = 0
  <2> DEFINE f == [k \in 0..0 |-> RowAfter(0, 0)]
  <2>1. f = RowsUpTo(f, 0)
    BY FirstRow DEF RowsUpTo
  <2> QED
    BY <1>2, <1>3, <2>1
<1>4. CASE m # 0
  <2>1. m - 1 \in 0..n /\ m - 1 \notin bad
    BY <1>2, <1>4
  <2>2. PICK f : f = RowsUpTo(f, m - 1)
    BY <2>1
  <2> DEFINE g == [k \in 0..m |-> IF k = m THEN RowAfter(f[m - 1], m) ELSE f[k]]
  <2>3. \A k \in 0..(m - 1) : g[k] = f[k] /\ f[k] = RowAfter(f[k - 1], k)
    <3>1. \A k \in 0..(m - 1) : f[k] = RowAfter(f[k - 1], k)
      BY <2>2 DEF RowsUpTo
    <3> QED
      BY <2>1, <3>1
  <2>4. ASSUME NEW k \in 0..m PROVE g[k] = RowAfter(g[k - 1], k)
    <3>1. CASE k = 0
      BY <1>4, <2>1, <2>3, <3>1, FirstRow
    <3>2. CASE k = m
      <4>1. g[m] = RowAfter(f[m - 1], m) /\ g[m - 1] = f[m - 1]
        BY <1>4, <2>1, <2>3
      <4> QED
        BY <3>2, <4>1
    <3>3. CASE k \in 1..(m - 1)
      <4>1. k - 1 \in 0..(m - 1) /\ k \in 0..(m - 1)
        BY <2>1, <3>3
      <4>2. g[k] = f[k] /\ g[k - 1] = f[k - 1] /\ f[k] = RowAfter(f[k - 1], k)
        BY <2>3, <4>1
      <4> HIDE DEF g
      <4> QED
        BY <4>2
    <3> QED
      BY <2>1, <3>1, <3>2, <3>3
  <2>5. g = RowsUpTo(g, m)
    BY <2>4 DEF RowsUpTo
  <2> QED
    BY <1>2, <2>5
<1> QED
  BY <1>3, <1>4

LEMMA ContentsAt ==
    ASSUME Len(stream) \in Nat
    PROVE  /\ \A r \in Resources : Contents[0][r] = <<"no-writer", r, 0>>
           /\ \A k \in 1..Len(stream), r \in Resources : Contents[k][r] = RowAfter(Contents[k - 1], k)[r]
<1>1. Contents = RowsUpTo(Contents, Len(stream))
  BY ContentsDef, ContentsExist
<1>2. \A k \in 0..Len(stream) : Contents[k] = RowAfter(Contents[k - 1], k)
  BY <1>1 DEF RowsUpTo
<1>3. \A row : \A r \in Resources : RowAfter(row, 0)[r] = <<"no-writer", r, 0>>
  BY DEF RowAfter
<1>4. 0 \in 0..Len(stream) /\ \A k \in 1..Len(stream) : k \in 0..Len(stream)
  OBVIOUS
<1>5. Contents[0] = RowAfter(Contents[0 - 1], 0)
  BY <1>2, <1>4
<1>6. \A k \in 1..Len(stream) : Contents[k] = RowAfter(Contents[k - 1], k)
  BY <1>2, <1>4
<1> QED
  BY <1>3, <1>5, <1>6

(* What ends the walk is what changes the contents: a write or a discard.    *)
Ends(u) == u.how = "discard" \/ (u.how \in WriterHows /\ u.access \in {"write", "read+write"})

LEMMA EndsAre ==
    ASSUME LedgerInv, NEW u \in AllUses
    PROVE  Ends(u) <=> u.access # "read" /\ u.how # "barrier"
<1>1. UseFits(stream[u.eid], u)
  BY AllUsesRight DEF UseRight
<1> QED
  BY <1>1 DEF UseFits, Ends, WriterHows, BindingHows, AccessByKind

HowsOf(c) ==
    CASE c.op = "draw" -> {"uav", "rtv", "dsv"}
      [] c.op = "clear" -> {"clear"}
      [] c.op \in {"discard", "barrier"} -> {"discard"}
      [] c.op = "copy" -> {"copy-dst"}
      [] c.op = "resolve" -> {"resolve-dst"}

LEMMA EndsByChunk ==
    ASSUME LedgerInv, NEW u \in AllUses, Ends(u)
    PROVE  u.how \in HowsOf(stream[u.eid]) /\ stream[u.eid].op \in ListOps
<1>1. UseFits(stream[u.eid], u)
  BY AllUsesRight DEF UseRight
<1> QED
  BY <1>1 DEF UseFits, Ends, WriterHows, BindingHows, AccessByKind, HowsOf, ListOps, TouchOps

LEMMA HowsAre ==
    ASSUME LedgerInv, NEW r, NEW k
    PROVE  /\ HowsAt(r, k) = {u.how : u \in {u \in UsesOf(r) : u.eid = k /\ Ends(u)}}
           /\ HowsAt(r, k) # {} => HowsAt(r, k) \subseteq HowsOf(stream[k]) /\ stream[k].op \in ListOps
<1>1. \A u \in UsesOf(r) : Ends(u) <=> u.access # "read" /\ u.how # "barrier"
  BY EndsAre DEF UsesOf
<1>2. HowsAt(r, k) = {u.how : u \in {u \in UsesOf(r) : u.eid = k /\ Ends(u)}}
  BY <1>1 DEF HowsAt
<1> QED
  BY <1>2, EndsByChunk DEF UsesOf

Quiet(r, k) == ~(stream[k].op = "create" /\ stream[k].res = r) /\ HowsAt(r, k) = {}

LEMMA QuietRow ==
    ASSUME NEW row, NEW k \in Nat \ {0}, NEW r \in Resources, Quiet(r, k)
    PROVE  RowAfter(row, k)[r] = row[r]
<1> DEFINE hows == HowsAt(r, k)
<1>1. hows = {} /\ ~(stream[k].op = "create" /\ stream[k].res = r)
  BY DEF Quiet
<1>2. RowAfter(row, k)[r] =
        CASE stream[k].op = "create" /\ stream[k].res = r -> <<"created", r, k>>
          [] "discard" \in hows -> <<"discard", r, k>>
          [] "clear" \in hows -> <<"clear", r, k>>
          [] hows \cap {"copy-dst", "resolve-dst"} # {} ->
                (IF stream[k].from = None THEN <<"lost", r, k>> ELSE row[stream[k].from])
          [] hows # {} /\ hows \cap {"discard", "clear", "copy-dst", "resolve-dst"} = {} -> <<"call", r, k>>
          [] OTHER -> row[r]
  BY DEF RowAfter, HowsAt
<1> HIDE DEF hows
<1> QED
  BY <1>1, <1>2

LEMMA MadeRow ==
    ASSUME LedgerInv, NEW row, NEW k \in Nat \ {0}, NEW r \in Resources,
           stream[k].op = "create", stream[k].res = r
    PROVE  RowAfter(row, k)[r] = <<"created", r, k>>
<1> DEFINE hows == HowsAt(r, k)
<1>1. hows = {}
  BY HowsAre DEF ListOps, TouchOps
<1>2. RowAfter(row, k)[r] =
        CASE stream[k].op = "create" /\ stream[k].res = r -> <<"created", r, k>>
          [] "discard" \in hows -> <<"discard", r, k>>
          [] "clear" \in hows -> <<"clear", r, k>>
          [] hows \cap {"copy-dst", "resolve-dst"} # {} ->
                (IF stream[k].from = None THEN <<"lost", r, k>> ELSE row[stream[k].from])
          [] hows # {} /\ hows \cap {"discard", "clear", "copy-dst", "resolve-dst"} = {} -> <<"call", r, k>>
          [] OTHER -> row[r]
  BY DEF RowAfter, HowsAt
<1> HIDE DEF hows
<1> QED
  BY <1>1, <1>2

LEMMA WrittenRow ==
    ASSUME LedgerInv, NEW row, NEW r \in Resources, NEW w \in UsesOf(r), Ends(w)
    PROVE  RowAfter(row, w.eid)[r] =
             IF w.how \in {"discard", "clear"} THEN <<w.how, r, w.eid>>
             ELSE IF w.how \notin {"copy-dst", "resolve-dst"} THEN <<"call", r, w.eid>>
             ELSE IF stream[w.eid].from = None THEN <<"lost", r, w.eid>>
             ELSE row[stream[w.eid].from]
<1> DEFINE k == w.eid
           hows == HowsAt(r, k)
<1>0. w \in AllUses /\ k \in Nat \ {0}
  BY AllUsesRight DEF UsesOf, UseRight, LedgerInv, FrameInv, StreamOK
<1>1. w.how \in hows /\ hows \subseteq HowsOf(stream[k]) /\ stream[k].op \in ListOps
  BY HowsAre
<1>2. RowAfter(row, k)[r] =
        CASE stream[k].op = "create" /\ stream[k].res = r -> <<"created", r, k>>
          [] "discard" \in hows -> <<"discard", r, k>>
          [] "clear" \in hows -> <<"clear", r, k>>
          [] hows \cap {"copy-dst", "resolve-dst"} # {} ->
                (IF stream[k].from = None THEN <<"lost", r, k>> ELSE row[stream[k].from])
          [] hows # {} /\ hows \cap {"discard", "clear", "copy-dst", "resolve-dst"} = {} -> <<"call", r, k>>
          [] OTHER -> row[r]
  BY <1>0 DEF RowAfter, HowsAt
<1> HIDE DEF hows, k
<1>3. stream[k].op # "create"
  BY <1>1 DEF ListOps, TouchOps
<1>4. \/ hows \subseteq {"uav", "rtv", "dsv"} \/ hows \subseteq {"clear"} \/ hows \subseteq {"discard"}
      \/ hows \subseteq {"copy-dst"} \/ hows \subseteq {"resolve-dst"}
  BY <1>1 DEF HowsOf, ListOps, TouchOps
<1> SUFFICES RowAfter(row, k)[r] =
               IF w.how \in {"discard", "clear"} THEN <<w.how, r, k>>
               ELSE IF w.how \notin {"copy-dst", "resolve-dst"} THEN <<"call", r, k>>
               ELSE IF stream[k].from = None THEN <<"lost", r, k>>
               ELSE row[stream[k].from]
  BY DEF k
<1>5. CASE hows \subseteq {"uav", "rtv", "dsv"}
  <2>1. /\ "discard" \notin hows /\ "clear" \notin hows /\ hows \cap {"copy-dst", "resolve-dst"} = {}
        /\ hows \cap {"discard", "clear", "copy-dst", "resolve-dst"} = {} /\ hows # {}
        /\ w.how \in {"uav", "rtv", "dsv"}
    BY <1>1, <1>5
  <2> QED
    BY <1>2, <1>3, <2>1
<1>6. CASE hows \subseteq {"clear"}
  <2>1. hows = {"clear"} /\ w.how = "clear"
    BY <1>1, <1>6
  <2> QED
    BY <1>2, <1>3, <2>1
<1>7. CASE hows \subseteq {"discard"}
  <2>1. hows = {"discard"} /\ w.how = "discard"
    BY <1>1, <1>7
  <2> QED
    BY <1>2, <1>3, <2>1
<1>8. CASE hows \subseteq {"copy-dst"} \/ hows \subseteq {"resolve-dst"}
  <2>1. /\ "discard" \notin hows /\ "clear" \notin hows /\ hows \cap {"copy-dst", "resolve-dst"} # {}
        /\ hows \cap {"discard", "clear", "copy-dst", "resolve-dst"} # {}
        /\ w.how \in {"copy-dst", "resolve-dst"}
    BY <1>1, <1>8
  <2> QED
    BY <1>2, <1>3, <2>1
<1> QED
  BY <1>4, <1>5, <1>6, <1>7, <1>8

(* Contents stay through chunks that are quiet about the resource.           *)
LEMMA ContentsStay ==
    ASSUME Len(stream) \in Nat, NEW r \in Resources, NEW lo \in 0..Len(stream), NEW hi \in lo..Len(stream),
           \A k \in (lo + 1)..hi : Quiet(r, k)
    PROVE  Contents[hi][r] = Contents[lo][r]
<1> DEFINE bad == {k \in lo..hi : Contents[k][r] # Contents[lo][r]}
<1>1. SUFFICES ASSUME bad # {} PROVE FALSE
  OBVIOUS
<1>2. PICK m \in bad : \A y \in bad : m <= y
  <2>1. bad \in SUBSET Nat
    OBVIOUS
  <2> QED
    BY <1>1, <2>1, NatLeast
<1>3. m # lo
  BY <1>2
<1>4. m - 1 \in lo..hi /\ m - 1 \notin bad /\ m \in (lo + 1)..hi /\ m \in 1..Len(stream) /\ m \in Nat \ {0}
  BY <1>2, <1>3
<1>5. Contents[m][r] = RowAfter(Contents[m - 1], m)[r]
  BY <1>4, ContentsAt
<1>6. RowAfter(Contents[m - 1], m)[r] = Contents[m - 1][r]
  BY <1>4, QuietRow
<1> QED
  BY <1>2, <1>4, <1>5, <1>6

(***************************************************************************)
(* The walk back, one writer at a time.                                    *)
(***************************************************************************)
LastWriter(r, before) == CHOOSE u \in PreviousWriters(r, before) : \A v \in PreviousWriters(r, before) : v.eid <= u.eid

WalkStep(f, r, before) ==
    LET writers == PreviousWriters(r, before)
        write == CHOOSE u \in writers : \A v \in writers : v.eid <= u.eid
        source == stream[write.eid].from
    IN  IF writers = {}
        THEN IF r \in DOMAIN created THEN <<"created", r, created[r].eid>> ELSE <<"no-writer", r, 0>>
        ELSE IF write.how \in {"discard", "clear"} THEN <<write.how, r, write.eid>>
        ELSE IF write.how \notin {"copy-dst", "resolve-dst"} THEN <<"call", r, write.eid>>
        ELSE IF source = None THEN <<"lost", r, write.eid>>
        ELSE f[write.eid][source]
WalkRow(f, before) == [r \in Resources |-> WalkStep(f, r, before)]
WalkFrom(f, n) == [before \in 1..n |-> WalkRow(f, before)]

LEMMA WalkDef ==
    ASSUME NEW res, NEW n
    PROVE  WalkProvenance(res, n) = (CHOOSE f : f = WalkFrom(f, n))[n][res]
  BY DEF WalkProvenance, WalkFrom, WalkRow, WalkStep

LEMMA LastWriterIs ==
    ASSUME LedgerInv, NEW r, NEW before \in Nat, PreviousWriters(r, before) # {}
    PROVE  /\ LastWriter(r, before) \in PreviousWriters(r, before)
           /\ \A v \in PreviousWriters(r, before) : v.eid <= LastWriter(r, before).eid
           /\ LastWriter(r, before).eid \in 1..(before - 1)
<1> DEFINE T == Eids(PreviousWriters(r, before))
<1>1. \A u \in PreviousWriters(r, before) : u.eid \in 1..Len(stream) /\ u.eid \in 1..(before - 1)
  <2>1. Len(stream) \in Nat
    BY DEF LedgerInv, FrameInv, StreamOK
  <2>2. \A u \in PreviousWriters(r, before) : u.eid \in 1..Len(stream) /\ u.eid < before
    BY AllUsesRight DEF PreviousWriters, UsesOf, UseRight
  <2> QED
    BY <2>1, <2>2
<1>2. T \in SUBSET (0..before) /\ T # {}
  BY <1>1 DEF Eids
<1>3. PICK m \in T : \A y \in T : y <= m
  BY <1>2, NatLatest
<1>4. \E u \in PreviousWriters(r, before) : \A v \in PreviousWriters(r, before) : v.eid <= u.eid
  BY <1>3 DEF Eids
<1>5. /\ LastWriter(r, before) \in PreviousWriters(r, before)
      /\ \A v \in PreviousWriters(r, before) : v.eid <= LastWriter(r, before).eid
  BY <1>4 DEF LastWriter
<1> QED
  BY <1>1, <1>5

LEMMA WalkStepIs ==
    ASSUME NEW f, NEW r, NEW before
    PROVE  WalkStep(f, r, before) =
             IF PreviousWriters(r, before) = {}
             THEN IF r \in DOMAIN created THEN <<"created", r, created[r].eid>> ELSE <<"no-writer", r, 0>>
             ELSE LET w == LastWriter(r, before)
                  IN  IF w.how \in {"discard", "clear"} THEN <<w.how, r, w.eid>>
                      ELSE IF w.how \notin {"copy-dst", "resolve-dst"} THEN <<"call", r, w.eid>>
                      ELSE IF stream[w.eid].from = None THEN <<"lost", r, w.eid>>
                      ELSE f[w.eid][stream[w.eid].from]
  BY DEF WalkStep, LastWriter

(* The walk looks only further back.                                         *)
LEMMA WalkLooksBack ==
    ASSUME LedgerInv, NEW before \in Nat, NEW f, NEW g, \A e \in 1..(before - 1) : f[e] = g[e]
    PROVE  WalkRow(f, before) = WalkRow(g, before)
<1>1. ASSUME NEW r \in Resources PROVE WalkStep(f, r, before) = WalkStep(g, r, before)
  <2>1. CASE PreviousWriters(r, before) = {}
    BY <2>1, WalkStepIs
  <2>2. CASE PreviousWriters(r, before) # {}
    <3>1. LastWriter(r, before).eid \in 1..(before - 1)
      BY <2>2, LastWriterIs
    <3>2. f[LastWriter(r, before).eid] = g[LastWriter(r, before).eid]
      BY <3>1
    <3> QED
      BY <2>2, <3>2, WalkStepIs
  <2> QED
    BY <2>1, <2>2
<1> QED
  BY <1>1 DEF WalkRow

LEMMA WalkExists ==
    ASSUME LedgerInv, NEW n \in Nat
    PROVE  \E f : f = WalkFrom(f, n)
<1> DEFINE bad == {m \in 0..n : ~\E f : f = WalkFrom(f, m)}
<1>1. SUFFICES ASSUME bad # {} PROVE FALSE
  OBVIOUS
<1>2. PICK m \in bad : \A y \in bad : m <= y
  <2>1. bad \in SUBSET Nat
    OBVIOUS
  <2> QED
    BY <1>1, <2>1, NatLeast
<1>3. CASE m = 0
  <2> DEFINE f == [before \in 1..0 |-> 0]
  <2>1. f = WalkFrom(f, 0)
    BY DEF WalkFrom
  <2> QED
    BY <1>2, <1>3, <2>1
<1>4. CASE m # 0
  <2>1. m - 1 \in 0..n /\ m - 1 \notin bad
    BY <1>2, <1>4
  <2>2. PICK f : f = WalkFrom(f, m - 1)
    BY <2>1
  <2> DEFINE g == [k \in 1..m |-> IF k = m THEN WalkRow(f, m) ELSE f[k]]
  <2>3. \A k \in 1..(m - 1) : f[k] = WalkRow(f, k)
    BY <2>2 DEF WalkFrom
  <2>4. \A k \in 1..(m - 1) : g[k] = f[k]
    BY <2>1
  <2>5. ASSUME NEW k \in 1..m PROVE g[k] = WalkRow(g, k)
    <3>1. k \in Nat /\ \A e \in 1..(k - 1) : f[e] = g[e]
      BY <2>1, <2>4
    <3>2. WalkRow(f, k) = WalkRow(g, k)
      BY <3>1, WalkLooksBack
    <3>3. g[k] = WalkRow(f, k)
      BY <2>1, <2>3
    <3> QED
      BY <3>2, <3>3
  <2>6. g = WalkFrom(g, m)
    BY <2>5 DEF WalkFrom
  <2> QED
    BY <1>2, <2>6
<1> QED
  BY <1>3, <1>4

LEMMA WalkIs ==
    ASSUME LedgerInv, NEW n \in Nat
    PROVE  \E f : /\ \A res : WalkProvenance(res, n) = f[n][res]
                  /\ \A before \in 1..n, r \in Resources : f[before][r] = WalkStep(f, r, before)
<1> DEFINE f == CHOOSE f : f = WalkFrom(f, n)
<1>1. f = WalkFrom(f, n)
  BY WalkExists
<1>2. \A res : WalkProvenance(res, n) = f[n][res]
  BY WalkDef
<1> HIDE DEF f
<1>3. \A before \in 1..n, r \in Resources : f[before][r] = WalkStep(f, r, before)
  <2> SUFFICES ASSUME NEW before \in 1..n, NEW r \in Resources PROVE f[before][r] = WalkStep(f, r, before)
    OBVIOUS
  <2>1. WalkFrom(f, n)[before] = WalkRow(f, before)
    BY DEF WalkFrom
  <2>2. WalkRow(f, before)[r] = WalkStep(f, r, before)
    BY DEF WalkRow
  <2> QED
    BY <1>1, <2>1, <2>2
<1> QED
  BY <1>2, <1>3

LEMMA PreviousWriterIs ==
    ASSUME LedgerInv, NEW r, NEW before, NEW u
    PROVE  u \in PreviousWriters(r, before) <=> u \in UsesOf(r) /\ u.eid < before /\ Ends(u)
  BY DEF PreviousWriters, Ends

(* Nothing ended the contents between the last writer and where the walk is. *)
LEMMA QuietSince ==
    ASSUME OriginInv, BornBeforeUse, NEW r \in Resources, NEW before \in 1..Len(stream), NEW k \in 1..(before - 1),
           IF PreviousWriters(r, before) = {} THEN r \in DOMAIN created => created[r].eid < k
           ELSE LastWriter(r, before).eid < k
    PROVE  Quiet(r, k)
<1>0. LedgerInv /\ Len(stream) \in Nat /\ before \in Nat /\ k \in 1..Len(stream)
  BY DEF OriginInv, PlacementInv, LedgerInv, FrameInv, StreamOK
<1>1. HowsAt(r, k) = {}
  <2>1. SUFFICES ASSUME NEW u \in UsesOf(r), u.eid = k, Ends(u) PROVE FALSE
    BY <1>0, HowsAre
  <2>2. u \in PreviousWriters(r, before)
    BY <1>0, <2>1, PreviousWriterIs
  <2>3. u.eid <= LastWriter(r, before).eid /\ LastWriter(r, before).eid < k /\ LastWriter(r, before).eid \in Nat
    BY <1>0, <2>2, LastWriterIs
  <2> QED
    BY <1>0, <2>1, <2>3
<1>2. ~(stream[k].op = "create" /\ stream[k].res = r)
  <2>1. SUFFICES ASSUME stream[k].op = "create", stream[k].res = r PROVE FALSE
    OBVIOUS
  <2>2. r \in DOMAIN created /\ created[r].eid = k
    BY <1>0, <2>1 DEF OriginInv
  <2>3. PreviousWriters(r, before) # {}
    BY <1>0, <2>2
  <2> DEFINE w == LastWriter(r, before)
  <2>4. w \in PreviousWriters(r, before) /\ w.eid \in 1..(before - 1)
    BY <1>0, <2>3, LastWriterIs
  <2>5. w \in AllUses /\ w.res = r
    BY <2>4 DEF PreviousWriters, UsesOf
  <2> HIDE DEF w
  <2>6. k < w.eid
    BY <2>2, <2>5 DEF BornBeforeUse
  <2>7. w.eid < k
    BY <2>3 DEF w
  <2> QED
    BY <1>0, <2>4, <2>6, <2>7
<1> QED
  BY <1>1, <1>2 DEF Quiet

LEMMA WalkFindsContents ==
    ASSUME OriginInv, BornBeforeUse, NEW n \in 1..Len(stream), NEW f,
           \A before \in 1..n, r \in Resources : f[before][r] = WalkStep(f, r, before),
           NEW res \in Resources \ {None}, res \in DOMAIN created => created[res].eid < n
    PROVE  f[n][res] = Contents[n - 1][res]
<1> DEFINE Holds(b, r) == (r \in DOMAIN created => created[r].eid < b) => f[b][r] = Contents[b - 1][r]
           bad == {b \in 1..n : \E r \in Resources \ {None} : ~Holds(b, r)}
<1>0. /\ LedgerInv /\ Len(stream) \in Nat /\ n \in Nat
      /\ \A k \in 1..Len(stream) : k \in Nat \ {0}
  BY DEF OriginInv, PlacementInv, LedgerInv, FrameInv, StreamOK
<1>1. SUFFICES ASSUME bad # {} PROVE FALSE
  BY <1>0
<1>2. PICK b \in bad : \A y \in bad : b <= y
  <2>1. bad \in SUBSET Nat
    BY <1>0
  <2> QED
    BY <1>1, <2>1, NatLeast
<1>3. PICK r \in Resources \ {None} : ~Holds(b, r)
  BY <1>2
<1>4. b \in 1..n /\ b \in 1..Len(stream) /\ b \in Nat /\ b - 1 \in 0..Len(stream)
  BY <1>0, <1>2
<1>5. ASSUME NEW e \in 1..(b - 1), NEW x \in Resources \ {None} PROVE Holds(e, x)
  BY <1>0, <1>2, <1>4
<1>6. r \in DOMAIN created => created[r].eid < b
  BY <1>3
<1>7. f[b][r] # Contents[b - 1][r]
  BY <1>3
<1>8. f[b][r] = WalkStep(f, r, b)
  BY <1>4
<1> HIDE DEF bad
<1>9. CASE PreviousWriters(r, b) = {} /\ r \in DOMAIN created
  <2> DEFINE e == created[r].eid
  <2>1. e \in 1..(b - 1) /\ e \in 1..Len(stream) /\ stream[e].op = "create" /\ stream[e].res = r
    BY <1>0, <1>4, <1>6, <1>9 DEF OriginInv
  <2> HIDE DEF e
  <2>2. Contents[e][r] = <<"created", r, e>>
    <3>1. Contents[e][r] = RowAfter(Contents[e - 1], e)[r]
      BY <1>0, <2>1, ContentsAt
    <3>2. RowAfter(Contents[e - 1], e)[r] = <<"created", r, e>>
      BY <1>0, <2>1, MadeRow
    <3> QED
      BY <3>1, <3>2
  <2>3. \A k \in (e + 1)..(b - 1) : Quiet(r, k)
    <3> SUFFICES ASSUME NEW k \in (e + 1)..(b - 1) PROVE Quiet(r, k)
      OBVIOUS
    <3>1. k \in 1..(b - 1) /\ e < k
      BY <1>4, <2>1
    <3> QED
      BY <1>4, <1>9, <3>1, QuietSince DEF e
  <2>4. b - 1 \in e..Len(stream) /\ e \in 0..Len(stream)
    BY <1>0, <1>4, <2>1
  <2>5. Contents[b - 1][r] = Contents[e][r]
    BY <1>0, <2>3, <2>4, ContentsStay
  <2> QED
    BY <1>7, <1>8, <1>9, <2>2, <2>5, WalkStepIs DEF e
<1>10. CASE PreviousWriters(r, b) = {} /\ r \notin DOMAIN created
  <2>1. \A k \in (0 + 1)..(b - 1) : Quiet(r, k)
    BY <1>4, <1>10, QuietSince
  <2>2. b - 1 \in 0..Len(stream) /\ 0 \in 0..Len(stream)
    BY <1>0, <1>4
  <2>3. Contents[b - 1][r] = Contents[0][r]
    BY <1>0, <2>1, <2>2, ContentsStay
  <2>4. Contents[0][r] = <<"no-writer", r, 0>>
    BY <1>0, ContentsAt
  <2> QED
    BY <1>7, <1>8, <1>10, <2>3, <2>4, WalkStepIs
<1>11. CASE PreviousWriters(r, b) # {}
  <2> DEFINE w == LastWriter(r, b)
             e == w.eid
             source == stream[e].from
  <2>1. w \in PreviousWriters(r, b) /\ e \in 1..(b - 1)
    BY <1>0, <1>4, <1>11, LastWriterIs
  <2>2. w \in UsesOf(r) /\ Ends(w)
    BY <1>0, <2>1, PreviousWriterIs
  <2> HIDE DEF w
  <2>3. e \in 1..Len(stream) /\ e \in 0..Len(stream) /\ b - 1 \in e..Len(stream)
    BY <1>0, <1>4, <2>1
  <2>4. Contents[e][r] = RowAfter(Contents[e - 1], e)[r]
    BY <1>0, <2>3, ContentsAt
  <2>5. RowAfter(Contents[e - 1], e)[r] =
             IF w.how \in {"discard", "clear"} THEN <<w.how, r, e>>
             ELSE IF w.how \notin {"copy-dst", "resolve-dst"} THEN <<"call", r, e>>
             ELSE IF source = None THEN <<"lost", r, e>>
             ELSE Contents[e - 1][source]
    BY ZenonT(40), <1>0, <2>2, WrittenRow
  <2>6. \A k \in (e + 1)..(b - 1) : Quiet(r, k)
    <3> SUFFICES ASSUME NEW k \in (e + 1)..(b - 1) PROVE Quiet(r, k)
      OBVIOUS
    <3>1. k \in 1..(b - 1) /\ e < k
      BY <1>4, <2>1
    <3> QED
      BY <1>4, <1>11, <3>1, QuietSince DEF w
  <2>7. Contents[b - 1][r] = Contents[e][r]
    BY <1>0, <2>3, <2>6, ContentsStay
  <2>8. f[b][r] = IF w.how \in {"discard", "clear"} THEN <<w.how, r, e>>
                  ELSE IF w.how \notin {"copy-dst", "resolve-dst"} THEN <<"call", r, e>>
                  ELSE IF source = None THEN <<"lost", r, e>>
                  ELSE f[e][source]
    BY <1>8, <1>11, WalkStepIs DEF w
  <2>9. ASSUME w.how \in {"copy-dst", "resolve-dst"}, source # None
        PROVE  f[e][source] = Contents[e - 1][source]
    <3>1. w \in AllUses
      BY <2>2 DEF UsesOf
    <3>2. w.how \in HowsOf(stream[e]) /\ stream[e].op \in ListOps
      BY <1>0, <2>2, <3>1, EndsByChunk
    <3>3. stream[e].op \in {"copy", "resolve"}
      BY <2>9, <3>2 DEF HowsOf, ListOps, TouchOps
    <3>4. SourceUse(stream[e], e) \in AllUses
      BY <2>3, <2>9, <3>3 DEF OriginInv, CopiesFrom, AllUses
    <3>5. SourceUse(stream[e], e).eid = e /\ SourceUse(stream[e], e).res = source
      BY DEF SourceUse
    <3>6. source \in Resources \ {None}
      BY <1>0, <2>9, <3>4, <3>5, AllUsesRight DEF UseRight
    <3>7. source \in DOMAIN created => created[source].eid < e
      BY <3>4, <3>5 DEF BornBeforeUse
    <3> HIDE DEF w, e, source
    <3>8. Holds(e, source)
      BY <1>5, <2>1, <3>6
    <3> QED
      BY <3>7, <3>8
  <2> HIDE DEF w, e, source
  <2> QED
    BY <1>7, <2>4, <2>5, <2>7, <2>8, <2>9
<1> QED
  BY <1>9, <1>10, <1>11

LEMMA OriginsFromInv == OriginInv => ProvenanceFindsOrigin
<1> SUFFICES ASSUME OriginInv, BornBeforeUse, NEW u \in AllUses
             PROVE  WalkProvenance(u.res, u.eid) = Contents[u.eid - 1][u.res]
  BY DEF ProvenanceFindsOrigin
<1>1. LedgerInv
  BY DEF OriginInv, PlacementInv
<1>2. u.res \in Resources \ {None} /\ u.eid \in 1..Len(stream)
  BY <1>1, AllUsesRight DEF UseRight
<1>3. u.eid \in Nat
  BY <1>1, <1>2 DEF LedgerInv, FrameInv, StreamOK
<1>4. u.res \in DOMAIN created => created[u.res].eid < u.eid
  BY DEF BornBeforeUse
<1>5. PICK f : /\ \A res : WalkProvenance(res, u.eid) = f[u.eid][res]
               /\ \A before \in 1..u.eid, r \in Resources : f[before][r] = WalkStep(f, r, before)
  BY <1>1, <1>3, WalkIs
<1>6. f[u.eid][u.res] = Contents[u.eid - 1][u.res]
  BY <1>2, <1>4, <1>5, WalkFindsContents
<1> QED
  BY <1>5, <1>6

(* Whatever the stream, the origin `provenance` names by walking back from a *)
(* use is where the contents, carried forwards from the first chunk, came    *)
(* from.                                                                     *)
THEOREM OriginsAreTrue == FrameWalkSpec => []ProvenanceFindsOrigin
<1>1. FrameWalkInit => OriginInv
  BY OriginInvInit
<1>2. OriginInv /\ [FrameWalkNext]_walkVars => OriginInv'
  BY OriginInvStep
<1>3. OriginInv => ProvenanceFindsOrigin
  BY OriginsFromInv
<1> QED
  BY <1>1, <1>2, <1>3, PTL DEF FrameWalkSpec

-----------------------------------------------------------------------------
(***************************************************************************)
(* The flags of `deps`.                                                    *)
(***************************************************************************)
WalkKinds == {"no-writer", "created"}

(* A chain that enters a resource nobody reads after its last write enters   *)
(* it through a copy, so before that write.                                  *)
LEMMA WalkEndsBefore ==
    ASSUME OriginInv, NEW n \in 1..Len(stream), NEW f,
           \A before \in 1..n, x \in Resources : f[before][x] = WalkStep(f, x, before),
           NEW r, NEW last \in Nat, \A u \in Reads(r) : u.eid <= last,
           NEW res \in Resources \ {None}, res # r
    PROVE  f[n][res][2] = r => f[n][res][3] < last \/ f[n][res][1] \in WalkKinds
<1> DEFINE Early(v) == v[2] = r => v[3] < last \/ v[1] \in WalkKinds
           bad == {b \in 1..n : \E x \in Resources \ {None} : (x = r => b <= last) /\ ~Early(f[b][x])}
<1>0. LedgerInv /\ Len(stream) \in Nat /\ n \in Nat
  BY DEF OriginInv, PlacementInv, LedgerInv, FrameInv, StreamOK
<1>1. SUFFICES ASSUME bad # {} PROVE FALSE
  BY <1>0
<1>2. PICK b \in bad : \A y \in bad : b <= y
  <2>1. bad \in SUBSET Nat
    BY <1>0
  <2> QED
    BY <1>1, <2>1, NatLeast
<1>3. PICK x \in Resources \ {None} : (x = r => b <= last) /\ ~Early(f[b][x])
  BY <1>2
<1>4. b \in 1..n /\ b \in 1..Len(stream) /\ b \in Nat
  BY <1>0, <1>2
<1>5. ASSUME NEW e \in 1..(b - 1), NEW y \in Resources \ {None}, y = r => e <= last PROVE Early(f[e][y])
  BY <1>0, <1>2, <1>4, <1>5
<1>6. f[b][x] = WalkStep(f, x, b)
  BY <1>4
<1> HIDE DEF bad
<1>7. CASE PreviousWriters(x, b) = {}
  <2>1. f[b][x][1] \in WalkKinds
    BY <1>6, <1>7, WalkStepIs DEF WalkKinds
  <2> QED
    BY <1>3, <2>1
<1>8. CASE PreviousWriters(x, b) # {}
  <2> DEFINE w == LastWriter(x, b)
             e == w.eid
             source == stream[e].from
  <2>1. w \in PreviousWriters(x, b) /\ e \in 1..(b - 1)
    BY <1>0, <1>4, <1>8, LastWriterIs
  <2>2. w \in AllUses /\ Ends(w)
    BY <1>0, <2>1, PreviousWriterIs DEF UsesOf
  <2>3. f[b][x] = IF w.how \in {"discard", "clear"} THEN <<w.how, x, e>>
                  ELSE IF w.how \notin {"copy-dst", "resolve-dst"} THEN <<"call", x, e>>
                  ELSE IF source = None THEN <<"lost", x, e>>
                  ELSE f[e][source]
    BY <1>6, <1>8, WalkStepIs
  <2>4. x = r => e < last
    BY <1>3, <1>4, <2>1
  <2>5. ASSUME w.how \in {"copy-dst", "resolve-dst"}, source # None
        PROVE  source \in Resources \ {None} /\ (source = r => e <= last)
    <3>1. w.how \in HowsOf(stream[e]) /\ stream[e].op \in ListOps
      BY <1>0, <2>2, EndsByChunk
    <3>2. stream[e].op \in {"copy", "resolve"}
      BY <2>5, <3>1 DEF HowsOf, ListOps, TouchOps
    <3>3. e \in 1..Len(stream)
      BY <1>0, <1>4, <2>1
    <3>4. SourceUse(stream[e], e) \in AllUses
      BY <2>5, <3>2, <3>3 DEF OriginInv, CopiesFrom, AllUses
    <3>5. /\ SourceUse(stream[e], e).eid = e /\ SourceUse(stream[e], e).res = source
          /\ SourceUse(stream[e], e).access = "read"
      BY DEF SourceUse
    <3>6. source \in Resources \ {None}
      BY <1>0, <2>5, <3>4, <3>5, AllUsesRight DEF UseRight
    <3>7. source = r => SourceUse(stream[e], e) \in Reads(r)
      BY <3>4, <3>5 DEF Reads, UsesOf
    <3> QED
      BY <3>5, <3>6, <3>7
  <2> HIDE DEF w, e, source
  <2>6. ASSUME w.how \in {"copy-dst", "resolve-dst"}, source # None PROVE Early(f[e][source])
    BY <1>5, <2>1, <2>5, <2>6
  <2>7. CASE w.how \in {"copy-dst", "resolve-dst"} /\ source # None
    <3>1. f[b][x] = f[e][source]
      BY <2>3, <2>7
    <3> QED
      BY <1>3, <2>6, <2>7, <3>1
  <2>8. CASE ~(w.how \in {"copy-dst", "resolve-dst"} /\ source # None)
    <3>1. f[b][x][2] = x /\ f[b][x][3] = e
      BY <2>3, <2>8
    <3> QED
      BY <1>3, <2>4, <3>1
  <2> QED
    BY <2>7, <2>8
<1> QED
  BY <1>7, <1>8

LEMMA EarlyReadStartsOutside ==
    ASSUME OriginInv, NEW r \in Used, ReadBeforeWrite(r)
    PROVE  LET walk == WalkProvenance(r, Min(Eids(Reads(r))))
           IN  walk[1] \in {"no-writer", "created", "discard"} /\ walk[2] = r
<1> DEFINE m == Min(Eids(Reads(r)))
<1>0. LedgerInv /\ Len(stream) \in Nat /\ r \in Resources
  BY DEF OriginInv, PlacementInv, LedgerInv, FrameInv, StreamOK, Used
<1>1. m \in Eids(Reads(r)) /\ m \in 1..Len(stream) /\ m \in Nat
  <2>1. Eids(Reads(r)) \in SUBSET (1..Len(stream)) /\ Eids(Reads(r)) \in SUBSET Nat
    BY <1>0, AllUsesRight DEF Eids, Reads, UsesOf, UseRight
  <2>2. Eids(Reads(r)) # {}
    BY DEF ReadBeforeWrite, Eids
  <2> QED
    BY <1>0, <2>1, <2>2, NatMinIs
<1>2. \A w \in Eids(Writes(r)) : w > m
  BY DEF ReadBeforeWrite
<1> HIDE DEF m
<1>3. PICK f : /\ \A res : WalkProvenance(res, m) = f[m][res]
               /\ \A before \in 1..m, x \in Resources : f[before][x] = WalkStep(f, x, before)
  BY <1>0, <1>1, WalkIs
<1>4. WalkProvenance(r, m) = WalkStep(f, r, m)
  BY <1>0, <1>1, <1>3
<1>5. CASE PreviousWriters(r, m) = {}
  <2>1. WalkStep(f, r, m) = <<"created", r, created[r].eid>> \/ WalkStep(f, r, m) = <<"no-writer", r, 0>>
    BY <1>5, WalkStepIs
  <2> QED
    BY <1>4, <2>1 DEF m
<1>6. CASE PreviousWriters(r, m) # {}
  <2> DEFINE w == LastWriter(r, m)
  <2>1. w \in PreviousWriters(r, m) /\ w.eid \in 1..(m - 1)
    BY <1>0, <1>1, <1>6, LastWriterIs
  <2> HIDE DEF w
  <2>2. w \notin Writes(r)
    <3>1. w \in Writes(r) => w.eid \in Eids(Writes(r))
      BY DEF Eids
    <3> QED
      BY <1>1, <1>2, <2>1, <3>1
  <2>3. w.how = "discard"
    BY <2>1, <2>2 DEF PreviousWriters, Writes
  <2>4. WalkStep(f, r, m) = <<w.how, r, w.eid>>
    BY <1>6, <2>3, WalkStepIs DEF w
  <2> QED
    BY <1>4, <2>3, <2>4 DEF m
<1> QED
  BY <1>5, <1>6

LEMMA FlagsFromInv == OriginInv => FlagsAgreeWithProvenance
<1> SUFFICES ASSUME OriginInv, NEW r \in Used, WriteNeverRead(r), NEW u \in AllUses, u.res # r
             PROVE  LET walk == WalkProvenance(u.res, u.eid)
                    IN  walk[2] = r => walk[3] < Max(Eids(Writes(r))) \/ walk[1] \in {"no-writer", "created"}
  BY EarlyReadStartsOutside DEF FlagsAgreeWithProvenance
<1> DEFINE last == Max(Eids(Writes(r)))
<1>1. LedgerInv /\ Len(stream) \in Nat
  BY DEF OriginInv, PlacementInv, LedgerInv, FrameInv, StreamOK
<1>2. u.res \in Resources \ {None} /\ u.eid \in 1..Len(stream) /\ u.eid \in Nat
  BY <1>1, AllUsesRight DEF UseRight
<1>3. last \in Nat
  <2>1. Eids(Writes(r)) \in SUBSET (0..Len(stream))
    BY <1>1, AllUsesRight DEF Eids, Writes, UsesOf, UseRight
  <2>2. Eids(Writes(r)) # {}
    BY DEF WriteNeverRead, Eids
  <2>3. last \in Eids(Writes(r))
    BY <1>1, <2>1, <2>2, NatMaxIs
  <2> QED
    BY <1>1, <2>1, <2>3
<1>4. \A v \in Reads(r) : v.eid <= last
  BY DEF WriteNeverRead, Eids
<1>5. PICK f : /\ \A res : WalkProvenance(res, u.eid) = f[u.eid][res]
               /\ \A before \in 1..u.eid, x \in Resources : f[before][x] = WalkStep(f, x, before)
  BY <1>1, <1>2, WalkIs
<1> HIDE DEF last
<1>6. f[u.eid][u.res][2] = r => f[u.eid][u.res][3] < last \/ f[u.eid][u.res][1] \in WalkKinds
  BY <1>2, <1>3, <1>4, <1>5, WalkEndsBefore
<1> QED
  BY <1>5, <1>6 DEF last, WalkKinds

(* Whatever the stream, what `deps` flags read before written has an origin  *)
(* outside the frame, and what it flags never read is no later use's origin. *)
THEOREM FlagsAgreeWithOrigins == FrameWalkSpec => []FlagsAgreeWithProvenance
<1>1. FrameWalkInit => OriginInv
  BY OriginInvInit
<1>2. OriginInv /\ [FrameWalkNext]_walkVars => OriginInv'
  BY OriginInvStep
<1>3. OriginInv => FlagsAgreeWithProvenance
  BY FlagsFromInv
<1> QED
  BY <1>1, <1>2, <1>3, PTL DEF FrameWalkSpec

-----------------------------------------------------------------------------
(***************************************************************************)
(* Folds.  A fold over a finite set is a recursive function on its         *)
(* subsets; one exists whatever the order its members are taken in.        *)
(***************************************************************************)
Foldable(S, A, base, G, pick) ==
    /\ IsFiniteSet(S) /\ base \in A /\ G \in [S -> [A -> A]]
    /\ \A s \in SUBSET S : s # {} => pick[s] \in s
FoldOf(f, S, A, base, G, pick) ==
    /\ f \in [SUBSET S -> A]
    /\ \A s \in SUBSET S : f[s] = IF s = {} THEN base ELSE G[pick[s]][f[s \ {pick[s]}]]
FoldStep(f, s, base, G, pick) == IF s = {} THEN base ELSE G[pick[s]][f[s \ {pick[s]}]]

LEMMA FoldExists ==
    ASSUME NEW S, NEW A, NEW base, NEW G, NEW pick, Foldable(S, A, base, G, pick)
    PROVE  \E f : FoldOf(f, S, A, base, G, pick)
<1> DEFINE Sub(n) == {s \in SUBSET S : Cardinality(s) <= n}
           Good(n) == \E f \in [Sub(n) -> A] : \A s \in Sub(n) : f[s] = FoldStep(f, s, base, G, pick)
           bad == {n \in Nat : ~Good(n)}
<1>0. /\ IsFiniteSet(S) /\ base \in A /\ G \in [S -> [A -> A]]
      /\ \A s \in SUBSET S : s # {} => pick[s] \in s
  BY DEF Foldable
<1>1. \A s \in SUBSET S : IsFiniteSet(s) /\ Cardinality(s) \in Nat /\ Cardinality(s) <= Cardinality(S)
  BY <1>0, FS_Subset, FS_CardinalityType
<1>2. \A s \in SUBSET S : s # {} => /\ pick[s] \in S /\ s \ {pick[s]} \in SUBSET S
                                    /\ Cardinality(s \ {pick[s]}) = Cardinality(s) - 1
  BY <1>0, <1>1, FS_RemoveElement
<1>3. ASSUME bad # {} PROVE FALSE
  <2>1. PICK n \in bad : \A y \in bad : n <= y
    <3>1. bad \in SUBSET Nat
      OBVIOUS
    <3> QED
      BY <1>3, <3>1, NatLeast
  <2>2. CASE n = 0
    <3> DEFINE f == [s \in Sub(0) |-> base]
    <3>1. \A s \in Sub(0) : s = {}
      BY <1>1, FS_EmptySet
    <3>2. \A s \in Sub(0) : f[s] = FoldStep(f, s, base, G, pick)
      BY <1>0, <3>1 DEF FoldStep
    <3>3. f \in [Sub(0) -> A]
      BY <1>0
    <3> HIDE DEF f
    <3> QED
      BY <2>1, <2>2, <3>2, <3>3
  <2>3. CASE n # 0
    <3>1. n - 1 \in Nat /\ Good(n - 1)
      <4>1. n - 1 \in Nat /\ ~(n <= n - 1)
        BY <2>1, <2>3
      <4> HIDE DEF Good
      <4> QED
        BY <2>1, <4>1
    <3>2. PICK f \in [Sub(n - 1) -> A] : \A s \in Sub(n - 1) : f[s] = FoldStep(f, s, base, G, pick)
      BY <3>1
    <3> DEFINE g == [s \in Sub(n) |-> IF s \in Sub(n - 1) THEN f[s] ELSE FoldStep(f, s, base, G, pick)]
    <3>3. \A s \in Sub(n) : s # {} => pick[s] \in S /\ s \ {pick[s]} \in Sub(n - 1) /\ s \ {pick[s]} \in Sub(n)
      BY <1>1, <1>2, <2>1
    <3>4. \A s \in Sub(n) : FoldStep(f, s, base, G, pick) \in A
      <4> SUFFICES ASSUME NEW s \in Sub(n) PROVE FoldStep(f, s, base, G, pick) \in A
        OBVIOUS
      <4>1. CASE s = {}
        BY <1>0, <4>1 DEF FoldStep
      <4>2. CASE s # {}
        <5> DEFINE x == pick[s]
                   v == f[s \ {x}]
        <5>1. x \in S /\ v \in A
          BY <3>3, <4>2
        <5> HIDE DEF x, v
        <5>2. G[x][v] \in A
          BY <1>0, <5>1
        <5> QED
          BY <4>2, <5>2 DEF FoldStep, x, v
      <4> QED
        BY <4>1, <4>2
    <3>5. g \in [Sub(n) -> A]
      BY <3>4
    <3>6. ASSUME NEW s \in Sub(n) PROVE g[s] = FoldStep(g, s, base, G, pick)
      <4>1. g[s] = FoldStep(f, s, base, G, pick)
        BY <3>2
      <4>2. s # {} => g[s \ {pick[s]}] = f[s \ {pick[s]}]
        BY <3>3
      <4> HIDE DEF g
      <4> QED
        BY <4>1, <4>2 DEF FoldStep
    <3> HIDE DEF g
    <3>7. Good(n)
      BY <3>5, <3>6
    <3> QED
      BY <2>1, <3>7
  <2> QED
    BY <2>2, <2>3
<1>4. Cardinality(S) \in Nat
  BY <1>0, FS_CardinalityType
<1>5. Good(Cardinality(S))
  BY <1>3, <1>4
<1>6. Sub(Cardinality(S)) = SUBSET S
  BY <1>1
<1>7. PICK f \in [Sub(Cardinality(S)) -> A] :
          \A s \in Sub(Cardinality(S)) : f[s] = FoldStep(f, s, base, G, pick)
  BY <1>5
<1> HIDE DEF Sub
<1>8. FoldOf(f, S, A, base, G, pick)
  BY <1>6, <1>7 DEF FoldOf, FoldStep
<1> QED
  BY <1>8

(***************************************************************************)
(* The bytes of a set of resources are a sum.                              *)
(***************************************************************************)
Sizes == \A r \in DOMAIN created : created[r].size \in Nat
BytesFrom(f, S) ==
    [s \in SUBSET S |-> IF s = {} THEN 0
                        ELSE LET x == CHOOSE x \in s : TRUE IN f[s \ {x}] + created[x].size]

LEMMA BytesDef ==
    ASSUME NEW S
    PROVE  Bytes(S) = (CHOOSE f : f = BytesFrom(f, S))[S]
  BY DEF Bytes, FoldSet, MapThenFoldSet, BytesFrom

LEMMA BytesTablesAgree ==
    ASSUME NEW S, IsFiniteSet(S), NEW T, NEW f, f = BytesFrom(f, S), NEW h, h = BytesFrom(h, T)
    PROVE  \A s \in SUBSET (S \cap T) : f[s] = h[s]
<1> DEFINE bad == {s \in SUBSET (S \cap T) : h[s] # f[s]}
           sizes == {Cardinality(s) : s \in bad}
<1>1. SUFFICES ASSUME bad # {} PROVE FALSE
  OBVIOUS
<1>2. \A s \in SUBSET (S \cap T) : IsFiniteSet(s) /\ Cardinality(s) \in Nat
  BY FS_Subset, FS_CardinalityType
<1>3. PICK n \in sizes : \A y \in sizes : n <= y
  <2>1. sizes \in SUBSET Nat /\ sizes # {}
    BY <1>1, <1>2
  <2> QED
    BY <2>1, NatLeast
<1>4. PICK s \in bad : n = Cardinality(s)
  BY <1>3
<1>5. s # {}
  BY <1>4 DEF BytesFrom
<1> DEFINE x == CHOOSE x \in s : TRUE
<1>6. x \in s
  BY <1>5
<1>7. s \ {x} \in SUBSET (S \cap T) /\ Cardinality(s \ {x}) = Cardinality(s) - 1
  BY <1>2, <1>4, <1>6, FS_RemoveElement
<1>8. h[s] = h[s \ {x}] + created[x].size /\ f[s] = f[s \ {x}] + created[x].size
  BY <1>4, <1>5 DEF BytesFrom
<1> HIDE DEF x
<1>9. s \ {x} \notin bad
  <2>1. n \in Nat /\ Cardinality(s \ {x}) = n - 1 /\ ~(n <= n - 1)
    BY <1>2, <1>4, <1>7
  <2> HIDE DEF bad
  <2>2. s \ {x} \in bad => Cardinality(s \ {x}) \in sizes
    OBVIOUS
  <2> HIDE DEF sizes
  <2> QED
    BY <1>3, <2>1, <2>2
<1> QED
  BY <1>4, <1>7, <1>8, <1>9

BytesOf(f, S) == f \in [SUBSET S -> Nat] /\ f = BytesFrom(f, S) /\ \A s \in SUBSET S : Bytes(s) = f[s]

LEMMA BytesFold ==
    ASSUME NEW S, IsFiniteSet(S), \A r \in S : created[r].size \in Nat
    PROVE  \E f : BytesOf(f, S)
<1>1. ASSUME NEW s \in SUBSET S PROVE \E f : f \in [SUBSET s -> Nat] /\ f = BytesFrom(f, s)
  <2> DEFINE G == [x \in s |-> [v \in Nat |-> v + created[x].size]]
             pick == [t \in SUBSET s |-> CHOOSE x \in t : TRUE]
  <2>1. G \in [s -> [Nat -> Nat]]
    OBVIOUS
  <2>2. \A t \in SUBSET s : t # {} => pick[t] \in t
    OBVIOUS
  <2>3. IsFiniteSet(s)
    BY FS_Subset
  <2> HIDE DEF G, pick
  <2>4. Foldable(s, Nat, 0, G, pick)
    BY <2>1, <2>2, <2>3 DEF Foldable
  <2>5. PICK f : FoldOf(f, s, Nat, 0, G, pick)
    BY <2>4, FoldExists
  <2>6. ASSUME NEW t \in SUBSET s, t # {}
        PROVE  f[t] = LET x == CHOOSE x \in t : TRUE IN f[t \ {x}] + created[x].size
    <3> DEFINE x == CHOOSE x \in t : TRUE
    <3>1. x = pick[t] /\ x \in s /\ t \ {x} \in SUBSET s
      BY <2>2, <2>6 DEF pick
    <3> HIDE DEF x
    <3>2. f[t] = G[x][f[t \ {x}]] /\ f[t \ {x}] \in Nat
      BY <2>5, <2>6, <3>1 DEF FoldOf
    <3> QED
      BY <3>1, <3>2 DEF G, x
  <2>7. f \in [SUBSET s -> Nat] /\ \A t \in SUBSET s : t = {} => f[t] = 0
    BY <2>5 DEF FoldOf
  <2>8. f = BytesFrom(f, s)
    BY <2>6, <2>7 DEF BytesFrom
  <2> QED
    BY <2>7, <2>8
<1>2. PICK f : f \in [SUBSET S -> Nat] /\ f = BytesFrom(f, S)
  BY <1>1
<1>3. ASSUME NEW s \in SUBSET S PROVE Bytes(s) = f[s]
  <2> DEFINE h == CHOOSE h : h = BytesFrom(h, s)
  <2>1. h = BytesFrom(h, s)
    BY <1>1
  <2>2. Bytes(s) = h[s]
    BY BytesDef
  <2> HIDE DEF h
  <2>3. \A t \in SUBSET (S \cap s) : f[t] = h[t]
    BY <1>2, <2>1, BytesTablesAgree
  <2>4. s \in SUBSET (S \cap s)
    OBVIOUS
  <2> QED
    BY <2>2, <2>3, <2>4
<1> QED
  BY <1>2, <1>3 DEF BytesOf

(* Taking a member out takes its size out, whichever member it is.           *)
LEMMA BytesRemove ==
    ASSUME NEW S, IsFiniteSet(S), \A r \in S : created[r].size \in Nat, NEW x \in S
    PROVE  Bytes(S) = Bytes(S \ {x}) + created[x].size /\ Bytes(S \ {x}) \in Nat /\ Bytes({}) = 0
<1>1. PICK f : BytesOf(f, S)
  BY BytesFold
<1> DEFINE bad == {s \in SUBSET S : \E y \in s : f[s] # f[s \ {y}] + created[y].size}
           sizes == {Cardinality(s) : s \in bad}
<1>2. ASSUME bad # {} PROVE FALSE
  <2>2. \A s \in SUBSET S : IsFiniteSet(s) /\ Cardinality(s) \in Nat
    BY FS_Subset, FS_CardinalityType
  <2>3. PICK n \in sizes : \A y \in sizes : n <= y
    <3>1. sizes \in SUBSET Nat /\ sizes # {}
      BY <1>2, <2>2
    <3> QED
      BY <3>1, NatLeast
  <2>4. PICK s \in bad : n = Cardinality(s)
    BY <2>3
  <2>5. PICK y \in s : f[s] # f[s \ {y}] + created[y].size
    BY <2>4
  <2> DEFINE z == CHOOSE z \in s : TRUE
  <2>6. z \in s
    BY <2>5
  <2>7. \A t \in SUBSET S : t # {} => f[t] = LET v == CHOOSE v \in t : TRUE IN f[t \ {v}] + created[v].size
    BY <1>1 DEF BytesOf, BytesFrom
  <2>8. f[s] = f[s \ {z}] + created[z].size
    BY <2>4, <2>5, <2>7
  <2> HIDE DEF z
  <2>9. y # z
    BY <2>5, <2>8
  <2>10. /\ s \ {y} \in SUBSET S /\ Cardinality(s \ {y}) = Cardinality(s) - 1
         /\ s \ {z} \in SUBSET S /\ Cardinality(s \ {z}) = Cardinality(s) - 1
         /\ (s \ {y}) \ {z} = (s \ {z}) \ {y} /\ (s \ {z}) \ {y} \in SUBSET S
         /\ y \in s \ {z} /\ z \in s \ {y}
    BY <2>2, <2>4, <2>5, <2>6, <2>9, FS_RemoveElement
  <2>11. s \ {y} \notin bad /\ s \ {z} \notin bad
    <3>1. n \in Nat /\ Cardinality(s \ {y}) = n - 1 /\ Cardinality(s \ {z}) = n - 1 /\ ~(n <= n - 1)
      BY <2>2, <2>4, <2>10
    <3> HIDE DEF bad
    <3>2. \A t \in bad : Cardinality(t) \in sizes
      OBVIOUS
    <3> HIDE DEF sizes
    <3> QED
      BY <2>3, <3>1, <3>2
  <2>12. /\ f[s \ {z}] = f[(s \ {z}) \ {y}] + created[y].size
         /\ f[s \ {y}] = f[(s \ {y}) \ {z}] + created[z].size
    BY <2>10, <2>11
  <2>13. f[(s \ {z}) \ {y}] \in Nat /\ created[y].size \in Nat /\ created[z].size \in Nat
    BY <1>1, <2>4, <2>5, <2>6, <2>10 DEF BytesOf
  <2> HIDE DEF bad, sizes
  <2>14. f[(s \ {y}) \ {z}] = f[(s \ {z}) \ {y}]
    BY <2>10
  <2> QED
    BY <2>5, <2>8, <2>12, <2>13, <2>14
<1>3. f[S] = f[S \ {x}] + created[x].size
  BY <1>2
<1>4. f[S] = Bytes(S) /\ f[S \ {x}] = Bytes(S \ {x}) /\ f[S \ {x}] \in Nat
  BY <1>1 DEF BytesOf
<1>5. Bytes({}) = 0
  BY <1>1 DEF BytesOf, BytesFrom
<1> QED
  BY <1>3, <1>4, <1>5

LEMMA BytesUnion ==
    ASSUME NEW A, NEW B, IsFiniteSet(A), IsFiniteSet(B), A \cap B = {},
           \A r \in A \cup B : created[r].size \in Nat
    PROVE  Bytes(A \cup B) = Bytes(A) + Bytes(B) /\ Bytes(A) \in Nat /\ Bytes(B) \in Nat
<1> DEFINE bad == {t \in SUBSET B : Bytes(A \cup t) # Bytes(A) + Bytes(t)}
           sizes == {Cardinality(t) : t \in bad}
<1>1. ASSUME NEW t, IsFiniteSet(t), \A r \in t : created[r].size \in Nat PROVE Bytes(t) \in Nat
  <2>1. PICK f : BytesOf(f, t)
    BY <1>1, BytesFold
  <2> QED
    BY <2>1 DEF BytesOf
<1>2. \A t \in SUBSET B : IsFiniteSet(t) /\ Cardinality(t) \in Nat
  BY FS_Subset, FS_CardinalityType
<1>3. \A t \in SUBSET B : IsFiniteSet(A \cup t)
  BY <1>2, FS_Union
<1>4. ASSUME bad # {} PROVE FALSE
  <2>1. PICK n \in sizes : \A y \in sizes : n <= y
    <3>1. sizes \in SUBSET Nat /\ sizes # {}
      BY <1>2, <1>4
    <3> QED
      BY <3>1, NatLeast
  <2>2. PICK t \in bad : n = Cardinality(t)
    BY <2>1
  <2>3. CASE t = {}
    <3>1. Bytes(A \cup t) = Bytes(A) /\ Bytes(t) = 0 /\ Bytes(A) \in Nat
      <4>1. PICK f : BytesOf(f, {})
        BY BytesFold, FS_EmptySet
      <4>2. A \cup t = A
        BY <2>3
      <4>3. Bytes(A \cup t) = Bytes(A)
        BY <4>2, Zenon
      <4> QED
        BY <1>1, <2>3, <4>1, <4>3 DEF BytesOf, BytesFrom
    <3>2. Bytes(A \cup t) # Bytes(A) + Bytes(t)
      BY <2>2
    <3> HIDE DEF bad, sizes
    <3> QED
      BY <3>1, <3>2
  <2>4. CASE t # {}
    <3>1. PICK z \in t : TRUE
      BY <2>4
    <3>2. Cardinality(t \ {z}) = n - 1 /\ n \in Nat /\ ~(n <= n - 1) /\ t \in SUBSET B
      BY <1>2, <2>2, FS_RemoveElement
    <3>3. t \ {z} \notin bad
      <4> HIDE DEF bad
      <4>1. t \ {z} \in bad => Cardinality(t \ {z}) \in sizes
        OBVIOUS
      <4> HIDE DEF sizes
      <4> QED
        BY <2>1, <3>2, <4>1
    <3>4. Bytes(A \cup (t \ {z})) = Bytes(A) + Bytes(t \ {z})
      BY <3>2, <3>3
    <3>5. (A \cup t) \ {z} = A \cup (t \ {z}) /\ z \in A \cup t
      BY <3>2
    <3>6. Bytes(A \cup t) = Bytes(A \cup (t \ {z})) + created[z].size
      BY <1>3, <3>2, <3>5, BytesRemove
    <3>7. Bytes(t) = Bytes(t \ {z}) + created[z].size /\ Bytes(t \ {z}) \in Nat
      BY <1>2, <3>2, BytesRemove
    <3>8. Bytes(A) \in Nat /\ created[z].size \in Nat
      BY <1>1, <3>2
    <3>9. Bytes(A \cup t) # Bytes(A) + Bytes(t)
      BY <2>2
    <3> QED
      BY <3>4, <3>6, <3>7, <3>8, <3>9
  <2> QED
    BY <2>3, <2>4
<1>5. Bytes(A \cup B) = Bytes(A) + Bytes(B)
  BY <1>4
<1> QED
  BY <1>1, <1>5

(***************************************************************************)
(* The sweep.                                                              *)
(***************************************************************************)
PeakInv ==
    /\ PlacementInv /\ IsFiniteSet(DOMAIN created) /\ Sizes

LEMMA PeakInvInit == FrameWalkInit => PeakInv
<1> SUFFICES ASSUME FrameWalkInit PROVE PeakInv
  OBVIOUS
<1>1. DOMAIN created = {}
  BY DEF FrameWalkInit, FrameInit, Empty
<1> QED
  BY <1>1, PlacementInvInit, FS_EmptySet DEF PeakInv, Sizes

LEMMA PeakInvStep == PeakInv /\ [FrameWalkNext]_walkVars => PeakInv'
<1> SUFFICES ASSUME PeakInv, [FrameWalkNext]_walkVars PROVE PeakInv'
  OBVIOUS
<1>0. PlacementInv'
  BY PlacementInvStep DEF PeakInv
<1>1. CASE UNCHANGED created
  BY <1>0, <1>1 DEF PeakInv, Sizes
<1>2. ASSUME NEW c \in FrameChunks, Create(c) PROVE PeakInv'
  <2>1. IsChunk(c) /\ c.op = "create"
    BY <1>2, FrameChunksAssumption DEF Create
  <2>2. c.size \in Nat
    BY <2>1 DEF IsChunk
  <2>3. /\ DOMAIN created' = DOMAIN created \cup {c.res} /\ created'[c.res].size = c.size
        /\ \A r \in DOMAIN created : r # c.res => created'[r] = created[r]
    BY <1>2 DEF Create, Put
  <2>4. IsFiniteSet(DOMAIN created')
    BY <2>3, FS_AddElement DEF PeakInv
  <2>5. Sizes'
    BY <2>2, <2>3 DEF PeakInv, Sizes
  <2> QED
    BY <1>0, <2>4, <2>5 DEF PeakInv
<1>3. CASE UNCHANGED walkVars
  BY <1>1, <1>3 DEF walkVars, frameVars
<1> QED
  BY <1>1, <1>2, <1>3 DEF FrameWalkNext, ReadChunk, Note, Call, Scope

EndOfFrame == IF Len(stream) >= 1 THEN Len(stream) ELSE 1

LEMMA LastIs == ASSUME Len(stream) \in Nat PROVE Max({Len(stream), 1}) = EndOfFrame
<1>1. \A m \in {Len(stream), 1} : (\A y \in {Len(stream), 1} : y <= m) <=> m = EndOfFrame
  BY DEF EndOfFrame
<1> QED
  BY <1>1 DEF Max, EndOfFrame

LEMMA WindowInside ==
    ASSUME LedgerInv, NEW r \in Resources
    PROVE  Window(r)[1] \in Nat /\ Window(r)[2] \in Nat
           /\ 1 <= Window(r)[1] /\ Window(r)[1] <= Window(r)[2] /\ Window(r)[2] <= EndOfFrame
<1>0. Len(stream) \in Nat
  BY DEF LedgerInv, FrameInv, StreamOK
<1>1. CASE r \in Used
  <2>1. PICK u : u \in UsesOf(r)
    BY <1>1 DEF Used
  <2>2. Eids(UsesOf(r)) \in SUBSET (1..Len(stream)) /\ Eids(UsesOf(r)) # {}
    BY <1>0, <2>1, AllUsesRight DEF Eids, UsesOf, UseRight
  <2> DEFINE T == Eids(UsesOf(r))
  <2> HIDE DEF T
  <2>3. T \in SUBSET (0..Len(stream)) /\ T \in SUBSET Nat /\ T # {} /\ T \in SUBSET (1..Len(stream))
    BY <1>0, <2>2 DEF T
  <2>4. Min(T) \in T /\ Max(T) \in T /\ Min(T) <= Max(T)
    BY <1>0, <2>3, NatMinIs, NatMaxIs
  <2>5. Window(r) = <<Min(T), Max(T)>>
    BY <1>1 DEF Window, FirstUse, LastUse, T
  <2>6. Window(r)[1] = Min(T) /\ Window(r)[2] = Max(T)
    BY <2>5
  <2>7. Min(T) \in 1..Len(stream) /\ Max(T) \in 1..Len(stream)
    BY <2>3, <2>4
  <2> QED
    BY <1>0, <2>4, <2>6, <2>7 DEF EndOfFrame
<1>2. CASE r \notin Used
  BY <1>0, <1>2, LastIs DEF Window, EndOfFrame
<1> QED
  BY <1>1, <1>2

(* What is live at an event, by the windows.                                 *)
LiveAt(S, e) == {r \in S : Window(r)[1] <= e /\ e <= Window(r)[2]}
EndsAt(S, e) == {r \in S : Window(r)[2] + 1 = e}
StartsAt(S, e) == {r \in S : Window(r)[1] = e}

LEMMA LiveStep ==
    ASSUME PeakInv, NEW S \in SUBSET DOMAIN created, NEW e \in Nat \ {0}
    PROVE  /\ Bytes(LiveAt(S, e)) = Bytes(LiveAt(S, e - 1)) - Bytes(EndsAt(S, e)) + Bytes(StartsAt(S, e))
           /\ Bytes(LiveAt(S, e)) \in Nat
<1>1. \A t \in SUBSET S : IsFiniteSet(t) /\ \A r \in t : created[r].size \in Nat
  BY FS_Subset DEF PeakInv, Sizes
<1>2. \A r \in S : /\ Window(r)[1] \in Nat /\ Window(r)[2] \in Nat /\ 1 <= Window(r)[1]
                   /\ Window(r)[1] <= Window(r)[2]
  BY WindowInside DEF PeakInv, PlacementInv, CreatedOK
<1> DEFINE stay == LiveAt(S, e - 1) \ EndsAt(S, e)
<1>3. LiveAt(S, e - 1) = stay \cup EndsAt(S, e) /\ stay \cap EndsAt(S, e) = {}
  BY <1>2 DEF LiveAt, EndsAt
<1>4. LiveAt(S, e) = stay \cup StartsAt(S, e) /\ stay \cap StartsAt(S, e) = {}
  BY <1>2 DEF LiveAt, EndsAt, StartsAt
<1>5. stay \in SUBSET S /\ EndsAt(S, e) \in SUBSET S /\ StartsAt(S, e) \in SUBSET S
  BY DEF LiveAt, EndsAt, StartsAt
<1> HIDE DEF stay
<1>6. /\ Bytes(stay \cup EndsAt(S, e)) = Bytes(stay) + Bytes(EndsAt(S, e))
      /\ Bytes(stay) \in Nat /\ Bytes(EndsAt(S, e)) \in Nat
  BY <1>1, <1>3, <1>5, BytesUnion
<1>7. /\ Bytes(stay \cup StartsAt(S, e)) = Bytes(stay) + Bytes(StartsAt(S, e))
      /\ Bytes(StartsAt(S, e)) \in Nat
  BY <1>1, <1>4, <1>5, BytesUnion
<1>8. Bytes(LiveAt(S, e - 1)) = Bytes(stay \cup EndsAt(S, e)) /\ Bytes(LiveAt(S, e)) = Bytes(stay \cup StartsAt(S, e))
  BY <1>3, <1>4, Zenon
<1> QED
  BY <1>6, <1>7, <1>8

SweepStep(S, acc, e) ==
    LET live == acc.live - Bytes({r \in S : Window(r)[2] + 1 = e}) + Bytes({r \in S : Window(r)[1] = e})
    IN  [live |-> live, peak |-> Max({acc.peak, live})]
Indexes == [i \in DOMAIN Append(stream, None) |-> i]
SweepFrom(f, S) ==
    [s \in SUBSET DOMAIN Indexes |->
        IF s = {} THEN [live |-> 0, peak |-> 0]
        ELSE LET x == Max(s) IN SweepStep(S, f[s \ {x}], Indexes[x])]

LEMMA SweepDef ==
    ASSUME NEW S
    PROVE  PeakLive(S) = (CHOOSE f : f = SweepFrom(f, S))[DOMAIN Indexes].peak
  BY DEF PeakLive, FoldLeftDomain, FoldLeft, MapThenFoldSet, SweepFrom, SweepStep, Indexes

LEMMA MaxOfTwo ==
    ASSUME NEW a \in Int, NEW b \in Int
    PROVE  Max({a, b}) \in {a, b} /\ a <= Max({a, b}) /\ b <= Max({a, b})
<1>1. \E m \in {a, b} : \A y \in {a, b} : y <= m
  OBVIOUS
<1> QED
  BY <1>1 DEF Max

LEMMA SweepStepIs ==
    ASSUME PeakInv, NEW S \in SUBSET DOMAIN created, NEW acc \in [live : Int, peak : Int], NEW e
    PROVE  SweepStep(S, acc, e) \in [live : Int, peak : Int]
<1> DEFINE live == acc.live - Bytes(EndsAt(S, e)) + Bytes(StartsAt(S, e))
<1>1. \A t \in SUBSET S : IsFiniteSet(t) /\ \A r \in t : created[r].size \in Nat
  BY FS_Subset DEF PeakInv, Sizes
<1>2. ASSUME NEW t \in SUBSET S PROVE Bytes(t) \in Nat
  <2>1. PICK f : BytesOf(f, t)
    BY <1>1, BytesFold
  <2> QED
    BY <2>1 DEF BytesOf
<1>3. Bytes(EndsAt(S, e)) \in Nat /\ Bytes(StartsAt(S, e)) \in Nat
  BY <1>2 DEF EndsAt, StartsAt
<1>4. live \in Int
  BY <1>3
<1> HIDE DEF live
<1>5. Max({acc.peak, live}) \in Int
  BY <1>4, MaxOfTwo
<1>6. SweepStep(S, acc, e) = [live |-> live, peak |-> Max({acc.peak, live})]
  BY DEF SweepStep, live, EndsAt, StartsAt
<1> QED
  BY <1>4, <1>5, <1>6

LEMMA SweepIs ==
    ASSUME PeakInv, NEW S \in SUBSET DOMAIN created
    PROVE  \E f : f = SweepFrom(f, S) /\ PeakLive(S) = f[DOMAIN Indexes].peak
<1> DEFINE A == [live : Int, peak : Int]
           D == DOMAIN Indexes
           base == [live |-> 0, peak |-> 0]
           G == [e \in D |-> [acc \in A |-> SweepStep(S, acc, e)]]
           pick == [s \in SUBSET D |-> Max(s)]
<1>0. Len(stream) \in Nat /\ stream \in Seq(FrameChunks)
  BY DEF PeakInv, PlacementInv, LedgerInv, FrameInv, StreamOK
<1>1. D = 1..(Len(stream) + 1) /\ \A i \in D : Indexes[i] = i
  <2>1. DOMAIN Append(stream, None) = 1..(Len(stream) + 1)
    BY <1>0
  <2> QED
    BY <2>1 DEF Indexes
<1>2. IsFiniteSet(D)
  BY <1>0, <1>1, FS_Interval
<1>3. G \in [D -> [A -> A]]
  BY SweepStepIs
<1>4. \A s \in SUBSET D : s # {} => pick[s] \in s
  <2> SUFFICES ASSUME NEW s \in SUBSET D, s # {} PROVE Max(s) \in s
    OBVIOUS
  <2>1. s \in SUBSET (0..(Len(stream) + 1)) /\ Len(stream) + 1 \in Nat
    BY <1>0, <1>1
  <2> QED
    BY <2>1, NatMaxIs
<1>5. base \in A
  OBVIOUS
<1> HIDE DEF G, pick, A, D, base
<1>6. Foldable(D, A, base, G, pick)
  BY <1>2, <1>3, <1>4, <1>5 DEF Foldable
<1>7. PICK f : FoldOf(f, D, A, base, G, pick)
  BY <1>6, FoldExists
<1>8. ASSUME NEW s \in SUBSET D, s # {}
      PROVE  f[s] = LET x == Max(s) IN SweepStep(S, f[s \ {x}], Indexes[x])
  <2> DEFINE x == Max(s)
  <2>1. x = pick[s] /\ x \in D /\ s \ {x} \in SUBSET D /\ Indexes[x] = x
    BY <1>1, <1>4, <1>8 DEF pick
  <2> HIDE DEF x
  <2>2. f[s] = G[x][f[s \ {x}]] /\ f[s \ {x}] \in A
    BY <1>7, <1>8, <2>1 DEF FoldOf
  <2>3. G[x][f[s \ {x}]] = SweepStep(S, f[s \ {x}], x)
    BY <2>1, <2>2 DEF G
  <2> QED
    BY <2>1, <2>2, <2>3 DEF x
<1>9. f \in [SUBSET D -> A] /\ \A s \in SUBSET D : s = {} => f[s] = base
  BY <1>7 DEF FoldOf
<1>10. f = SweepFrom(f, S)
  BY <1>8, <1>9 DEF SweepFrom, D, base
<1> DEFINE h == CHOOSE h : h = SweepFrom(h, S)
<1>11. h = SweepFrom(h, S)
  BY <1>10
<1>12. PeakLive(S) = h[DOMAIN Indexes].peak
  BY SweepDef
<1> QED
  BY <1>11, <1>12

(* The sweep's two numbers after each event.                                 *)
PeaksUpTo(S, k) == {0} \cup {Bytes(LiveAt(S, e)) : e \in 1..k}
SweptTo(S, acc, k) ==
    /\ acc.live = Bytes(LiveAt(S, k)) /\ acc.peak \in PeaksUpTo(S, k)
    /\ \A y \in PeaksUpTo(S, k) : y <= acc.peak

LEMMA NothingLiveOutside ==
    ASSUME PeakInv, NEW S \in SUBSET DOMAIN created, NEW e \in Nat, e = 0 \/ e > EndOfFrame
    PROVE  Bytes(LiveAt(S, e)) = 0
<1>1. \A r \in S : Window(r)[1] \in Nat /\ Window(r)[2] \in Nat /\ 1 <= Window(r)[1] /\ Window(r)[2] <= EndOfFrame
  BY WindowInside DEF PeakInv, PlacementInv, CreatedOK
<1>2. EndOfFrame \in Nat
  BY DEF PeakInv, PlacementInv, LedgerInv, FrameInv, StreamOK, EndOfFrame
<1>3. LiveAt(S, e) = {}
  BY <1>1, <1>2 DEF LiveAt
<1>4. PICK f : BytesOf(f, {})
  BY BytesFold, FS_EmptySet
<1>5. Bytes({}) = 0
  BY <1>4 DEF BytesOf, BytesFrom
<1> QED
  BY <1>3, <1>5, Zenon

LEMMA SweptStep ==
    ASSUME PeakInv, NEW S \in SUBSET DOMAIN created, NEW k \in Nat \ {0}, NEW acc, SweptTo(S, acc, k - 1)
    PROVE  SweptTo(S, SweepStep(S, acc, k), k)
<1> DEFINE live == Bytes(LiveAt(S, k))
           next == SweepStep(S, acc, k)
<1>1. acc.live - Bytes(EndsAt(S, k)) + Bytes(StartsAt(S, k)) = live /\ live \in Nat
  BY LiveStep DEF SweptTo
<1>2. \A e \in 1..k : Bytes(LiveAt(S, e)) \in Nat
  BY LiveStep
<1>3. PeaksUpTo(S, k) = PeaksUpTo(S, k - 1) \cup {live} /\ PeaksUpTo(S, k - 1) \in SUBSET Nat
  <2>1. 1..k = (1..(k - 1)) \cup {k}
    OBVIOUS
  <2> QED
    BY <1>2, <2>1 DEF PeaksUpTo
<1>4. next = [live |-> live, peak |-> Max({acc.peak, live})]
  BY <1>1 DEF SweepStep, EndsAt, StartsAt
<1> HIDE DEF live
<1>5. next.live = live /\ next.peak = Max({acc.peak, live})
  BY <1>4
<1> HIDE DEF next
<1>6. acc.peak \in Nat /\ live \in Nat
  BY <1>1, <1>3 DEF SweptTo
<1>7. next.peak \in {acc.peak, live} /\ acc.peak <= next.peak /\ live <= next.peak
  <2> DEFINE p == acc.peak
             m == Max({p, live})
  <2>1. p \in Int /\ live \in Int
    BY <1>6
  <2> HIDE DEF p
  <2>2. m \in {p, live} /\ p <= m /\ live <= m
    BY <2>1, MaxOfTwo
  <2>3. next.peak = m
    BY <1>5 DEF p
  <2> HIDE DEF m
  <2> QED
    BY <2>2, <2>3 DEF p
<1>8. next.peak \in PeaksUpTo(S, k)
  BY <1>3, <1>7 DEF SweptTo
<1>9. \A y \in PeaksUpTo(S, k) : y <= next.peak
  BY <1>3, <1>6, <1>7 DEF SweptTo
<1> QED
  BY <1>5, <1>8, <1>9 DEF SweptTo, next, live

LEMMA SweptAt ==
    ASSUME PeakInv, NEW S \in SUBSET DOMAIN created, NEW f, f = SweepFrom(f, S), NEW k \in 0..(Len(stream) + 1)
    PROVE  SweptTo(S, f[1..k], k)
<1> DEFINE n == Len(stream) + 1
           bad == {j \in 0..n : ~SweptTo(S, f[1..j], j)}
<1>0. n \in Nat /\ stream \in Seq(FrameChunks)
  BY DEF PeakInv, PlacementInv, LedgerInv, FrameInv, StreamOK
<1>1. DOMAIN Indexes = 1..n /\ \A i \in 1..n : Indexes[i] = i
  <2>1. DOMAIN Append(stream, None) = 1..n
    BY <1>0
  <2> QED
    BY <2>1 DEF Indexes
<1>2. SUFFICES ASSUME bad # {} PROVE FALSE
  OBVIOUS
<1>3. PICK j \in bad : \A y \in bad : j <= y
  <2>1. bad \in SUBSET Nat
    BY <1>0
  <2> QED
    BY <1>2, <2>1, NatLeast
<1>4. CASE j = 0
  <2>1. 1..0 = {} /\ {} \in SUBSET (1..n)
    OBVIOUS
  <2>2. f[{}] = [live |-> 0, peak |-> 0]
    BY <1>1 DEF SweepFrom
  <2>3. f[1..0] = f[{}]
    BY <2>1, Zenon
  <2>4. Bytes(LiveAt(S, 0)) = 0
    BY NothingLiveOutside
  <2>5. PeaksUpTo(S, 0) = {0}
    BY DEF PeaksUpTo
  <2>6. SweptTo(S, [live |-> 0, peak |-> 0], 0)
    BY <2>4, <2>5 DEF SweptTo
  <2>7. SweptTo(S, f[1..j], j)
    BY <1>4, <2>2, <2>3, <2>6
  <2> QED
    BY <1>3, <2>7
<1>5. CASE j # 0
  <2>1. j \in Nat \ {0} /\ j - 1 \in 0..n /\ ~(j <= j - 1) /\ j \in 1..n
    BY <1>0, <1>3, <1>5
  <2>2. SweptTo(S, f[1..(j - 1)], j - 1)
    BY <1>3, <2>1
  <2>3. 1..j \in SUBSET (1..n) /\ 1..j # {}
    <3>1. n \in Nat /\ j \in 1..n
      BY <1>0, <2>1
    <3> HIDE DEF n, bad
    <3>2. 1 \in 1..j
      BY <3>1
    <3>3. \A i \in 1..j : i \in 1..n
      BY <3>1
    <3> QED
      BY <3>2, <3>3
  <2>4. Max(1..j) = j
    <3>1. \A m \in 1..j : (\A y \in 1..j : y <= m) <=> m = j
      BY <2>1
    <3> QED
      BY <2>1, <3>1 DEF Max
  <2>5. (1..j) \ {j} = 1..(j - 1)
    BY <2>1
  <2>6. f[1..j] = SweepStep(S, f[(1..j) \ {Max(1..j)}], Indexes[Max(1..j)])
    BY <1>1, <2>3 DEF SweepFrom
  <2>7. f[1..j] = SweepStep(S, f[1..(j - 1)], j)
    BY <1>1, <2>1, <2>4, <2>5, <2>6, Zenon
  <2>8. SweptTo(S, SweepStep(S, f[1..(j - 1)], j), j)
    BY <2>1, <2>2, SweptStep
  <2> QED
    BY <1>3, <2>7, <2>8
<1> QED
  BY <1>4, <1>5

LEMMA PeakFromInv == PeakInv => PeakIsTheMaximum
<1> SUFFICES ASSUME PeakInv, NEW h \in HeapsUsed
             PROVE  PeakLive(InHeap(h)) =
                      Max({0} \cup {Bytes({r \in InHeap(h) : Window(r)[1] <= e /\ e <= Window(r)[2]}) :
                                       e \in 1..Max({Len(stream), 1})})
  BY DEF PeakIsTheMaximum
<1> DEFINE S == InHeap(h)
           n == Len(stream) + 1
<1>0. Len(stream) \in Nat /\ n \in Nat /\ stream \in Seq(FrameChunks)
  BY DEF PeakInv, PlacementInv, LedgerInv, FrameInv, StreamOK
<1>1. S \in SUBSET DOMAIN created
  BY DEF InHeap, Placed
<1>2. PICK f : f = SweepFrom(f, S) /\ PeakLive(S) = f[DOMAIN Indexes].peak
  BY <1>1, SweepIs
<1>3. DOMAIN Indexes = 1..n
  BY <1>0 DEF Indexes
<1>4. n \in 0..(Len(stream) + 1)
  BY <1>0
<1> HIDE DEF S
<1>5. SweptTo(S, f[1..n], n)
  BY <1>1, <1>2, <1>4, SweptAt
<1>6. PeakLive(S) \in PeaksUpTo(S, n) /\ \A y \in PeaksUpTo(S, n) : y <= PeakLive(S)
  BY <1>2, <1>3, <1>5 DEF SweptTo
<1>7. PeaksUpTo(S, n) = PeaksUpTo(S, EndOfFrame) /\ PeaksUpTo(S, EndOfFrame) \in SUBSET Nat
  <2>1. \A e \in 1..n : Bytes(LiveAt(S, e)) \in Nat
    BY <1>0, <1>1, LiveStep
  <2>2. CASE EndOfFrame = n
    BY <2>1, <2>2 DEF PeaksUpTo
  <2>3. CASE EndOfFrame # n
    <3>1. EndOfFrame = n - 1 /\ EndOfFrame \in Nat /\ n > EndOfFrame /\ 1..n = (1..EndOfFrame) \cup {n}
      BY <1>0, <2>3 DEF EndOfFrame
    <3>2. Bytes(LiveAt(S, n)) = 0
      BY <1>0, <1>1, <3>1, NothingLiveOutside
    <3> HIDE DEF n
    <3> QED
      BY <2>1, <3>1, <3>2 DEF PeaksUpTo
  <2> QED
    BY <2>2, <2>3
<1> HIDE DEF n
<1>8. Max(PeaksUpTo(S, EndOfFrame)) = PeakLive(S)
  <2> DEFINE T == PeaksUpTo(S, EndOfFrame)
             p == PeakLive(S)
  <2>1. T \in SUBSET Nat /\ p \in T /\ \A y \in T : y <= p
    BY <1>6, <1>7
  <2> HIDE DEF T, p
  <2>2. \A m \in T : (\A y \in T : y <= m) => m = p
    BY <2>1
  <2>3. Max(T) = p
    BY <2>1, <2>2 DEF Max
  <2> QED
    BY <2>3 DEF T, p
<1>9. PeaksUpTo(S, EndOfFrame) = {0} \cup {Bytes({r \in S : Window(r)[1] <= e /\ e <= Window(r)[2]}) :
                                       e \in 1..Max({Len(stream), 1})}
  BY <1>0, LastIs DEF PeaksUpTo, LiveAt
<1> QED
  BY <1>8, <1>9, Zenon DEF S

(* Whatever the stream, the peak `memory` reports of a heap is the largest   *)
(* sum of bytes live at one event.                                           *)
THEOREM PeakIsOfOneEvent == FrameWalkSpec => []PeakIsTheMaximum
<1>1. FrameWalkInit => PeakInv
  BY PeakInvInit
<1>2. PeakInv /\ [FrameWalkNext]_walkVars => PeakInv'
  BY PeakInvStep
<1>3. PeakInv => PeakIsTheMaximum
  BY PeakFromInv
<1> QED
  BY <1>1, <1>2, <1>3, PTL DEF FrameWalkSpec
=============================================================================
