----------------------------- MODULE PairProofs -----------------------------
(***************************************************************************)
(* What is said of two bundles compared pass by pass: which events a row   *)
(* is of, and what every verdict of it rests on, whatever the captures     *)
(* hold and however many pictures may be decoded.                          *)
(***************************************************************************)
EXTENDS ComparisonProofs, PassPairs

(***************************************************************************)
(* The passes of a bundle: every event in one of them.                     *)
(***************************************************************************)
Begin(events) == {i \in DOMAIN events : i = 1 \/ StartsPass(events[i - 1], events[i])}
Starts_(events) == RestOf(Begin(events), events)
EndOf(events, p) == IF p = Len(Starts_(events)) THEN Len(events) ELSE Starts_(events)[p + 1] - 1
PassCount(events) == Len(Starts_(events))

LEMMA PassesDef ==
    ASSUME NEW bundle
    PROVE  ReconstructPasses(bundle) =
             [p \in DOMAIN Starts_(bundle.events) |->
                 PassOf(bundle.events, Starts_(bundle.events)[p], EndOf(bundle.events, p))]
BY DEF ReconstructPasses, Begin, Starts_, EndOf, RestOf

LEMMA PassIs ==
    ASSUME NEW events, NEW first, NEW last
    PROVE  PassOf(events, first, last).first = first /\ PassOf(events, first, last).last = last
BY DEF PassOf

\* A pass is of some events, each event of one pass.
Spans(ps, n, N) ==
    /\ N \in Nat /\ n \in Nat /\ DOMAIN ps = 1..N
    /\ \A p \in 1..N : /\ ps[p].first \in 1..n /\ ps[p].last \in 1..n
                       /\ ps[p].first <= ps[p].last
    /\ \A i \in 1..n : \E p \in 1..N : i \in ps[p].first..ps[p].last
    /\ \A p \in 1..N, q \in 1..N : p < q => ps[p].last < ps[q].first

LEMMA StartsAre ==
    ASSUME NEW events, NEW n \in Nat, DOMAIN events = 1..n
    PROVE  /\ PassCount(events) \in Nat /\ DOMAIN Starts_(events) = 1..PassCount(events)
           /\ \A p \in 1..PassCount(events) : Starts_(events)[p] \in 1..n
           /\ \A p \in 1..PassCount(events), q \in 1..PassCount(events) :
                 p < q => Starts_(events)[p] < Starts_(events)[q]
           /\ n # 0 => 1 \in 1..PassCount(events) /\ Starts_(events)[1] = 1
<1> DEFINE X == Begin(events)
           s == Starts_(events)
           N == PassCount(events)
<1>1. s \in Seq(1..n) /\ InTurn(s, X \cap (1..n))
  BY RestIs DEF Starts_
<1>2. N \in Nat /\ DOMAIN s = 1..N /\ \A p \in 1..N : s[p] \in 1..n
  BY <1>1 DEF PassCount
<1>3. \A p \in 1..N, q \in 1..N : p < q => s[p] < s[q]
  BY <1>1 DEF InTurn, EachOnce, PassCount
<1>4. ASSUME n # 0 PROVE 1 \in 1..N /\ s[1] = 1
  <2>1. 1 \in X \cap (1..n)
    BY <1>4 DEF Begin
  <2>2. 1 \in Range(s)
    BY <1>1, <2>1 DEF InTurn, EachOnce
  <2> HIDE DEF s, N, X
  <2>3. PICK p \in 1..N : s[p] = 1
    BY <1>2, <2>2 DEF Range
  <2>4. 1 \in 1..N
    BY <1>2, <2>3
  <2>5. ~(1 < p)
    <3> SUFFICES ASSUME 1 < p PROVE FALSE
      OBVIOUS
    <3>1. s[1] < s[p] /\ s[1] \in 1..n
      BY <1>2, <1>3, <2>4
    <3> QED
      BY <2>3, <3>1
  <2>6. p = 1
    BY <1>2, <2>3, <2>5
  <2> QED
    BY <2>3, <2>4, <2>6
<1> QED
  BY <1>2, <1>3, <1>4

LEMMA PassesSpan ==
    ASSUME NEW bundle, NEW n \in Nat, DOMAIN bundle.events = 1..n, Len(bundle.events) = n
    PROVE  Spans(ReconstructPasses(bundle), n, PassCount(bundle.events))
<1> DEFINE events == bundle.events
           s == Starts_(events)
           N == PassCount(events)
           P == ReconstructPasses(bundle)
<1>1. /\ N \in Nat /\ DOMAIN s = 1..N /\ \A p \in 1..N : s[p] \in 1..n
      /\ \A p \in 1..N, q \in 1..N : p < q => s[p] < s[q]
      /\ n # 0 => 1 \in 1..N /\ s[1] = 1
  BY StartsAre
<1>2. P = [p \in DOMAIN s |-> PassOf(events, s[p], EndOf(events, p))]
  BY PassesDef
<1>3. DOMAIN P = 1..N /\ \A p \in 1..N : P[p].first = s[p] /\ P[p].last = EndOf(events, p)
  BY <1>1, <1>2, PassIs
<1>4. \A p \in 1..N : EndOf(events, p) = IF p = N THEN n ELSE s[p + 1] - 1
  BY DEF EndOf, PassCount
<1> HIDE DEF s, P, N
<1>5. ASSUME NEW p \in 1..N PROVE EndOf(events, p) \in 1..n /\ s[p] <= EndOf(events, p)
  <2>1. CASE p = N
    BY <1>1, <1>4, <2>1
  <2>2. CASE p # N
    <3>1. p + 1 \in 1..N /\ p < p + 1
      BY <1>1, <2>2
    <3>2. s[p] < s[p + 1] /\ s[p] \in 1..n /\ s[p + 1] \in 1..n
      BY <1>1, <3>1
    <3> QED
      BY <1>4, <2>2, <3>2
  <2> QED
    BY <2>1, <2>2
<1>6. ASSUME NEW i \in 1..n PROVE \E p \in 1..N : i \in s[p]..EndOf(events, p)
  <2> DEFINE T == {p \in 1..N : s[p] <= i}
  <2>1. 1 \in T /\ T \in SUBSET (0..N)
    BY <1>1
  <2>2. PICK p \in T : \A q \in T : q <= p
    <3> HIDE DEF T
    <3> QED
      BY <1>1, <2>1, NatMaxIs
  <2>3. i <= EndOf(events, p)
    <3>1. CASE p = N
      BY <1>4, <3>1
    <3>2. CASE p # N
      <4>1. p + 1 \in 1..N /\ ~(p + 1 <= p)
        BY <1>1, <3>2
      <4>2. p + 1 \notin T
        BY <2>2, <4>1
      <4>3. i < s[p + 1] /\ s[p + 1] \in 1..n
        BY <1>1, <4>1, <4>2
      <4> QED
        BY <1>4, <3>2, <4>3
    <3> QED
      BY <3>1, <3>2
  <2>4. EndOf(events, p) \in 1..n /\ s[p] \in 1..n
    BY <1>1, <1>5
  <2> QED
    BY <2>3, <2>4
<1>7. ASSUME NEW p \in 1..N, NEW q \in 1..N, p < q PROVE EndOf(events, p) < s[q]
  <2>1. p + 1 \in 1..N /\ p # N
    BY <1>1, <1>7
  <2>2. s[p + 1] <= s[q] /\ s[p + 1] \in 1..n /\ s[q] \in 1..n
    <3>1. p + 1 = q \/ p + 1 < q
      BY <1>1, <1>7
    <3> QED
      BY <1>1, <2>1, <3>1
  <2> QED
    BY <1>4, <2>1, <2>2
<1> QED
  BY <1>1, <1>3, <1>5, <1>6, <1>7 DEF Spans, P, N

LEMMA OnePassEach ==
    ASSUME NEW ps, NEW n, NEW N, Spans(ps, n, N), NEW i \in 1..n
    PROVE  \E p \in 1..N : \A q \in 1..N : i \in ps[q].first..ps[q].last <=> q = p
<1>0. N \in Nat /\ n \in Nat
  BY DEF Spans
<1>1. PICK p \in 1..N : i \in ps[p].first..ps[p].last
  BY DEF Spans
<1>2. ASSUME NEW q \in 1..N, i \in ps[q].first..ps[q].last, q # p PROVE FALSE
  <2>1. /\ ps[p].first \in 1..n /\ ps[p].last \in 1..n
        /\ ps[q].first \in 1..n /\ ps[q].last \in 1..n
    BY DEF Spans
  <2>2. p < q \/ q < p
    BY <1>0, <1>2
  <2>3. ps[p].last < ps[q].first \/ ps[q].last < ps[p].first
    BY <2>2 DEF Spans
  <2> QED
    BY <1>1, <1>2, <2>1, <2>3
<1> QED
  BY <1>1, <1>2

(* The marker of a pass is its first event's that has one.                   *)
LEMMA MarkersAre ==
    ASSUME NEW side, NEW n, NEW N, Spans(side.passes, n, N)
    PROVE  /\ DOMAIN PassMarkers(side) = 1..N
           /\ \A p \in 1..N : PassMarkers(side)[p] = NoMarker_ <=> ~IsMarked(side, p)
<1>0. DOMAIN side.passes = 1..N
  BY DEF Spans
<1>1. ASSUME NEW p \in 1..N PROVE PassMarkers(side)[p] = NoMarker_ <=> ~IsMarked(side, p)
  <2> DEFINE marked == {i \in side.passes[p].first..side.passes[p].last :
                            side.bundle.events[i].marker # NoMarker_}
  <2>1. PassMarkers(side)[p] = IF marked = {} THEN NoMarker_ ELSE side.bundle.events[Min(marked)].marker
    BY <1>0 DEF PassMarkers
  <2>2. IsMarked(side, p) <=> marked # {}
    BY DEF IsMarked, EventsIn
  <2>3. ASSUME marked # {} PROVE side.bundle.events[Min(marked)].marker # NoMarker_
    <3>1. marked \in SUBSET Nat
      <4>1. side.passes[p].first \in Nat /\ side.passes[p].last \in Nat
        BY DEF Spans
      <4> QED
        BY <4>1
    <3> DEFINE x == Min(marked)
    <3>2. x \in marked
      <4> HIDE DEF marked
      <4> QED
        BY <2>3, <3>1, NatMinIs
    <3> HIDE DEF x
    <3> QED
      BY <3>2 DEF x
  <2> HIDE DEF marked
  <2> QED
    BY <2>1, <2>2, <2>3
<1> QED
  BY <1>0, <1>1 DEF PassMarkers

(***************************************************************************)
(* One rule of the pairing of passes.                                      *)
(***************************************************************************)
Rules == {"path", "leaf", "targets", "order"}
Couples(m, n) == [a : 1..m, b : 1..n, how : Rules]
InQueue(ka, kb, done, j) == {i \in DOMAIN ka : ka[i] = kb[j] /\ ka[i] # <<>> /\ \A p \in done : p.a # i}
Couple(i, j, rule) == [a |-> i, b |-> j, how |-> rule]
MatchStep(ka, kb, rule, done, j) ==
    IF InQueue(ka, kb, done, j) = {} \/ \E p \in done : p.b = j THEN done
    ELSE done \cup {Couple(Min(InQueue(ka, kb, done, j)), j, rule)}
MatchFrom(f, ka, kb, rule, pairs) ==
    [s \in SUBSET DOMAIN Ids(kb) |->
        IF s = {} THEN pairs ELSE LET x == Max(s) IN MatchStep(ka, kb, rule, f[s \ {x}], Ids(kb)[x])]

LEMMA MatchDef ==
    ASSUME NEW ka, NEW kb, NEW rule, NEW pairs
    PROVE  Match(ka, kb, rule, pairs) = (CHOOSE f : f = MatchFrom(f, ka, kb, rule, pairs))[DOMAIN Ids(kb)]
BY DEF Match, FoldLeftDomain, FoldLeft, MapThenFoldSet, MatchFrom, MatchStep, InQueue, Couple, Ids

LEMMA CoupleIs ==
    ASSUME NEW m, NEW n, NEW p \in Couples(m, n)
    PROVE  p.a \in 1..m /\ p.b \in 1..n /\ p = Couple(p.a, p.b, p.how)
BY DEF Couples, Couple

LEMMA CoupleHas ==
    ASSUME NEW i, NEW j, NEW rule
    PROVE  Couple(i, j, rule).a = i /\ Couple(i, j, rule).b = j /\ Couple(i, j, rule).how = rule
BY DEF Couple

LEMMA QueueHeads ==
    ASSUME NEW ka, NEW kb, NEW m, NEW n, Lengths(ka, kb, m, n), NEW done, NEW j, InQueue(ka, kb, done, j) # {}
    PROVE  /\ Min(InQueue(ka, kb, done, j)) \in InQueue(ka, kb, done, j)
           /\ \A i \in InQueue(ka, kb, done, j) : Min(InQueue(ka, kb, done, j)) <= i
           /\ InQueue(ka, kb, done, j) \subseteq 1..m
<1> DEFINE queue == InQueue(ka, kb, done, j)
<1>1. m \in Nat /\ queue \subseteq 1..m
  BY DEF Lengths, InQueue
<1> HIDE DEF queue
<1>2. queue \in SUBSET Nat
  BY <1>1
<1>3. queue # {}
  BY DEF queue
<1>4. Min(queue) \in queue /\ \A i \in queue : Min(queue) <= i
  BY <1>2, <1>3, NatMinIs
<1> QED
  BY <1>1, <1>4 DEF queue

LEMMA MatchStepIn ==
    ASSUME NEW ka, NEW kb, NEW m, NEW n, Lengths(ka, kb, m, n), NEW rule \in Rules, NEW done \in SUBSET Couples(m, n),
           NEW j \in 1..n
    PROVE  MatchStep(ka, kb, rule, done, j) \in SUBSET Couples(m, n)
<1> DEFINE queue == InQueue(ka, kb, done, j)
           x == Min(queue)
<1>1. ASSUME queue # {} PROVE Couple(x, j, rule) \in Couples(m, n)
  <2>1. x \in 1..m
    BY <1>1, QueueHeads
  <2> HIDE DEF x
  <2> QED
    BY <2>1 DEF Couple, Couples
<1> QED
  BY <1>1 DEF MatchStep

LEMMA MatchExists ==
    ASSUME NEW ka, NEW kb, NEW m, NEW n, Lengths(ka, kb, m, n), NEW rule \in Rules, NEW pairs \in SUBSET Couples(m, n)
    PROVE  \E f : f = MatchFrom(f, ka, kb, rule, pairs)
<1> DEFINE A == SUBSET Couples(m, n)
           Next_(done, j) == MatchStep(ka, kb, rule, done, j)
           G == [j \in 1..n |-> [done \in A |-> Next_(done, j)]]
<1>0. n \in Nat /\ DOMAIN Ids(kb) = 1..n /\ \A j \in 1..n : Ids(kb)[j] = j
  BY DEF Lengths, Ids
<1>1. \A done \in A, j \in 1..n : Next_(done, j) \in A
  BY MatchStepIn
<1> HIDE DEF A, Next_
<1>2. G \in [1..n -> [A -> A]]
  BY <1>1
<1>3. \A j \in 1..n, done \in A : G[j][done] = Next_(done, j)
  OBVIOUS
<1> HIDE DEF G
<1>4. Chainable(n, A, pairs, G)
  BY <1>0, <1>2 DEF Chainable, A
<1>5. PICK f : Rungs(f, n, A, pairs, G)
  BY <1>4, RungsExist
<1>6. f \in [SUBSET (1..n) -> A] /\ f[{}] = pairs
  BY <1>5 DEF Rungs
<1>7. ASSUME NEW s \in SUBSET (1..n), s # {}
      PROVE  f[s] = Next_(f[s \ {Max(s)}], Ids(kb)[Max(s)])
  <2>1. Max(s) \in s /\ f[s] = G[Max(s)][f[s \ {Max(s)}]]
    BY <1>5, <1>7 DEF Rungs
  <2>2. f[s \ {Max(s)}] \in A /\ Max(s) \in 1..n
    BY <1>6, <2>1
  <2> QED
    BY <1>0, <1>3, <2>1, <2>2
<1>8. f = MatchFrom(f, ka, kb, rule, pairs)
  BY <1>0, <1>6, <1>7 DEF MatchFrom, Next_
<1> QED
  BY <1>8

MatchChain(g, ka, kb, rule, n, pairs) ==
    g[0] = pairs /\ \A k \in 1..n : g[k] = MatchStep(ka, kb, rule, g[k - 1], k)

LEMMA MatchClimbs ==
    ASSUME NEW ka, NEW kb, NEW m, NEW n, Lengths(ka, kb, m, n), NEW rule \in Rules, NEW pairs \in SUBSET Couples(m, n)
    PROVE  \E g : MatchChain(g, ka, kb, rule, n, pairs) /\ Match(ka, kb, rule, pairs) = g[n]
<1> DEFINE f == CHOOSE f : f = MatchFrom(f, ka, kb, rule, pairs)
           g == [k \in 0..n |-> f[1..k]]
<1>0. n \in Nat /\ DOMAIN Ids(kb) = 1..n /\ \A j \in 1..n : Ids(kb)[j] = j
  BY DEF Lengths, Ids
<1>1. f = MatchFrom(f, ka, kb, rule, pairs)
  BY MatchExists
<1>2. Match(ka, kb, rule, pairs) = f[1..n]
  BY <1>0, MatchDef
<1> HIDE DEF f
<1>3. \A s \in SUBSET (1..n) : s = {} => f[s] = pairs
  BY <1>0, <1>1 DEF MatchFrom
<1>4. \A s \in SUBSET (1..n) : s # {} =>
         f[s] = MatchStep(ka, kb, rule, f[s \ {Max(s)}], Ids(kb)[Max(s)])
  BY <1>0, <1>1 DEF MatchFrom
<1>5. g[0] = pairs
  <2>1. 1..0 = {} /\ 0 \in 0..n
    BY <1>0
  <2> QED
    BY <1>3, <2>1
<1>6. ASSUME NEW k \in 1..n PROVE g[k] = MatchStep(ka, kb, rule, g[k - 1], k)
  <2>1. k \in 0..n /\ k - 1 \in 0..n
    BY <1>0
  <2>2. f[1..k] = MatchStep(ka, kb, rule, f[1..(k - 1)], k)
    <3> DEFINE s == 1..k
    <3>1. s \in SUBSET (1..n) /\ s # {} /\ Max(s) = k /\ s \ {k} = 1..(k - 1)
      BY <1>0, Rung
    <3> HIDE DEF s
    <3>2. f[s] = MatchStep(ka, kb, rule, f[s \ {Max(s)}], Ids(kb)[Max(s)])
      BY <1>4, <3>1
    <3> QED
      BY <1>0, <3>1, <3>2 DEF s
  <2> QED
    BY <2>1, <2>2
<1>7. g[n] = f[1..n]
  BY <1>0
<1> HIDE DEF g
<1>8. MatchChain(g, ka, kb, rule, n, pairs)
  BY <1>5, <1>6 DEF MatchChain
<1> QED
  BY <1>2, <1>7, <1>8

(* No pass is in two pairs; a new pair is the rule's, and joins two equal    *)
(* keys that say something.                                                  *)
Exclusive(P) == \A p, q \in P : p.a = q.a \/ p.b = q.b => p = q
Matching(done, pairs, ka, kb, rule) ==
    /\ pairs \subseteq done /\ Exclusive(done)
    /\ \A p \in done \ pairs : p.how = rule /\ ka[p.a] = kb[p.b] /\ ka[p.a] # <<>>

LEMMA MatchingStep ==
    ASSUME NEW ka, NEW kb, NEW m, NEW n, Lengths(ka, kb, m, n), NEW rule, NEW pairs, NEW done,
           NEW j \in 1..n, Matching(done, pairs, ka, kb, rule)
    PROVE  Matching(MatchStep(ka, kb, rule, done, j), pairs, ka, kb, rule)
<1> DEFINE queue == InQueue(ka, kb, done, j)
           x == Min(queue)
           new == Couple(x, j, rule)
<1>1. CASE queue = {} \/ \E p \in done : p.b = j
  <2>1. MatchStep(ka, kb, rule, done, j) = done
    BY <1>1 DEF MatchStep
  <2> QED
    BY <2>1
<1>2. CASE queue # {} /\ \A p \in done : p.b # j
  <2>1. MatchStep(ka, kb, rule, done, j) = done \cup {new}
    BY <1>2 DEF MatchStep
  <2>2. x \in queue
    BY <1>2, QueueHeads
  <2>3. ka[x] = kb[j] /\ ka[x] # <<>> /\ \A p \in done : p.a # x
    BY <2>2 DEF InQueue
  <2> HIDE DEF x, queue
  <2>4. new.a = x /\ new.b = j /\ new.how = rule
    BY CoupleHas
  <2> HIDE DEF new
  <2>5. Exclusive(done \cup {new})
    <3> SUFFICES ASSUME NEW p \in done \cup {new}, NEW q \in done \cup {new}, p.a = q.a \/ p.b = q.b PROVE p = q
      BY DEF Exclusive
    <3>1. CASE p \in done /\ q \in done
      BY <3>1 DEF Matching, Exclusive
    <3>2. CASE p = new /\ q \in done
      BY <1>2, <2>3, <2>4, <3>2
    <3>3. CASE p \in done /\ q = new
      BY <1>2, <2>3, <2>4, <3>3
    <3> QED
      BY <3>1, <3>2, <3>3
  <2>6. \A p \in (done \cup {new}) \ pairs : p.how = rule /\ ka[p.a] = kb[p.b] /\ ka[p.a] # <<>>
    BY <2>3, <2>4 DEF Matching
  <2>7. pairs \subseteq done \cup {new}
    BY DEF Matching
  <2> QED
    BY <2>1, <2>5, <2>6, <2>7 DEF Matching
<1> QED
  BY <1>1, <1>2

LEMMA MatchIs ==
    ASSUME NEW ka, NEW kb, NEW m, NEW n, Lengths(ka, kb, m, n), NEW rule \in Rules, NEW pairs \in SUBSET Couples(m, n),
           Exclusive(pairs)
    PROVE  /\ Match(ka, kb, rule, pairs) \in SUBSET Couples(m, n)
           /\ Matching(Match(ka, kb, rule, pairs), pairs, ka, kb, rule)
<1>1. PICK g : MatchChain(g, ka, kb, rule, n, pairs) /\ Match(ka, kb, rule, pairs) = g[n]
  BY MatchClimbs
<1> DEFINE good == {k \in 0..n : g[k] \in SUBSET Couples(m, n) /\ Matching(g[k], pairs, ka, kb, rule)}
<1>2. n \in Nat /\ g[0] = pairs /\ \A k \in 1..n : g[k] = MatchStep(ka, kb, rule, g[k - 1], k)
  BY <1>1 DEF MatchChain, Lengths
<1>3. 0 \in good
  <2>1. pairs \ pairs = {} /\ 0 \in 0..n
    BY <1>2
  <2>2. Matching(pairs, pairs, ka, kb, rule)
    BY <2>1 DEF Matching
  <2> QED
    BY <1>2, <2>1, <2>2
<1>4. ASSUME NEW k \in (0 + 1)..n, k - 1 \in good PROVE k \in good
  <2>1. k \in 1..n /\ k \in 0..n
    BY <1>2
  <2>2. g[k - 1] \in SUBSET Couples(m, n) /\ Matching(g[k - 1], pairs, ka, kb, rule)
    BY <1>4
  <2>3. g[k] = MatchStep(ka, kb, rule, g[k - 1], k)
    BY <1>2, <2>1
  <2>4. g[k] \in SUBSET Couples(m, n)
    BY <2>1, <2>2, <2>3, MatchStepIn
  <2>5. Matching(g[k], pairs, ka, kb, rule)
    BY <2>1, <2>2, <2>3, MatchingStep
  <2> QED
    BY <2>1, <2>4, <2>5
<1>5. n \in good
  <2> HIDE DEF good
  <2>1. 0 \in Nat /\ n \in 0..n
    BY <1>2
  <2>2. \A k \in 0..n : k \in good
    BY <1>2, <1>3, <1>4, <2>1, Climbs
  <2> QED
    BY <2>1, <2>2
<1> QED
  BY <1>1, <1>5

(* A bundle against itself: each pass with itself, as soon as it has a key.  *)
Same_(P) == \A p \in P : p.a = p.b
Covers(P, ka, k) == \A i \in 1..k : ka[i] # <<>> => \E p \in P : p.a = i

LEMMA SelfStep ==
    ASSUME NEW ka, NEW n, Lengths(ka, ka, n, n), NEW rule, NEW done, Same_(done),
           NEW k \in 1..n, Covers(done, ka, k - 1)
    PROVE  Same_(MatchStep(ka, ka, rule, done, k)) /\ Covers(MatchStep(ka, ka, rule, done, k), ka, k)
<1> DEFINE queue == InQueue(ka, ka, done, k)
           x == Min(queue)
           new == Couple(x, k, rule)
           to == MatchStep(ka, ka, rule, done, k)
<1>0. n \in Nat /\ DOMAIN ka = 1..n /\ \A i \in 1..k : i \in 1..(k - 1) \/ i = k
  BY DEF Lengths
<1>1. CASE \E p \in done : p.b = k
  <2>1. to = done
    BY <1>1 DEF MatchStep
  <2>2. \E p \in done : p.a = k
    BY <1>1 DEF Same_
  <2> QED
    BY <1>0, <2>1, <2>2 DEF Covers
<1>2. CASE (\A p \in done : p.b # k) /\ ka[k] = <<>>
  <2>1. queue = {}
    BY <1>2 DEF InQueue
  <2>2. to = done
    BY <2>1 DEF MatchStep
  <2> QED
    BY <1>0, <1>2, <2>2 DEF Covers
<1>3. CASE (\A p \in done : p.b # k) /\ ka[k] # <<>>
  <2>1. \A p \in done : p.a # k
    BY <1>3 DEF Same_
  <2>2. k \in queue
    BY <1>0, <1>3, <2>1 DEF InQueue
  <2>3. x \in queue /\ x <= k /\ x \in 1..n
    BY <2>2, QueueHeads
  <2>4. to = done \cup {new}
    BY <1>3, <2>2 DEF MatchStep
  <2>5. x \notin 1..(k - 1)
    <3>1. ka[x] # <<>> /\ \A p \in done : p.a # x
      BY <2>3 DEF InQueue
    <3> HIDE DEF x
    <3> QED
      BY <3>1 DEF Covers
  <2> HIDE DEF x, queue
  <2>6. x = k
    BY <1>0, <2>3, <2>5
  <2>7. new.a = k /\ new.b = k
    BY <2>6, CoupleHas
  <2> HIDE DEF new, to
  <2>8. Same_(to)
    BY <2>4, <2>7 DEF Same_
  <2>9. Covers(to, ka, k)
    BY <1>0, <2>4, <2>7 DEF Covers
  <2> QED
    BY <2>8, <2>9 DEF to
<1> QED
  BY <1>1, <1>2, <1>3

LEMMA MatchSelf ==
    ASSUME NEW ka, NEW n, Lengths(ka, ka, n, n), NEW rule \in Rules, NEW pairs \in SUBSET Couples(n, n), Same_(pairs)
    PROVE  Same_(Match(ka, ka, rule, pairs)) /\ Covers(Match(ka, ka, rule, pairs), ka, n)
<1>1. PICK g : MatchChain(g, ka, ka, rule, n, pairs) /\ Match(ka, ka, rule, pairs) = g[n]
  BY MatchClimbs
<1> DEFINE good == {k \in 0..n : Same_(g[k]) /\ Covers(g[k], ka, k)}
<1>2. n \in Nat /\ g[0] = pairs /\ \A k \in 1..n : g[k] = MatchStep(ka, ka, rule, g[k - 1], k)
  BY <1>1 DEF MatchChain, Lengths
<1>3. 0 \in good
  <2>1. 1..0 = {} /\ 0 \in 0..n
    BY <1>2
  <2> QED
    BY <1>2, <2>1 DEF Covers
<1>4. ASSUME NEW k \in (0 + 1)..n, k - 1 \in good PROVE k \in good
  <2>1. k \in 1..n /\ k \in 0..n
    BY <1>2
  <2>2. g[k] = MatchStep(ka, ka, rule, g[k - 1], k)
    BY <1>2, <2>1
  <2>3. Same_(g[k]) /\ Covers(g[k], ka, k)
    BY <1>4, <2>1, <2>2, SelfStep
  <2> QED
    BY <2>1, <2>3
<1>5. n \in good
  <2> HIDE DEF good
  <2>1. 0 \in Nat /\ n \in 0..n
    BY <1>2
  <2>2. \A k \in 0..n : k \in good
    BY <1>2, <1>3, <1>4, <2>1, Climbs
  <2> QED
    BY <2>1, <2>2
<1> QED
  BY <1>1, <1>5

(***************************************************************************)
(* The four rules, one after the other.                                    *)
(***************************************************************************)
LeafKeys(side) == [p \in DOMAIN side.passes |-> LeafKey(PassMarkers(side)[p])]
TargetKeys(side) == [p \in DOMAIN side.passes |-> TargetKey(side, side.passes[p])]
ByPath(a, b) == Match(PassMarkers(a), PassMarkers(b), "path", {})
ByLeaf(a, b) == Match(LeafKeys(a), LeafKeys(b), "leaf", ByPath(a, b))
ByTarget(a, b) == Match(TargetKeys(a), TargetKeys(b), "targets", ByLeaf(a, b))

LEMMA AlignedDef ==
    ASSUME NEW a, NEW b
    PROVE  Aligned(a, b) = Match(OrderKeys(a), OrderKeys(b), "order", ByTarget(a, b))
BY DEF Aligned, ByTarget, ByLeaf, ByPath, LeafKeys, TargetKeys

LEMMA KeysListed ==
    ASSUME NEW a, NEW b, NEW m, NEW M, NEW n, NEW N, Spans(a.passes, m, M), Spans(b.passes, n, N)
    PROVE  /\ Lengths(PassMarkers(a), PassMarkers(b), M, N) /\ Lengths(LeafKeys(a), LeafKeys(b), M, N)
           /\ Lengths(TargetKeys(a), TargetKeys(b), M, N) /\ Lengths(OrderKeys(a), OrderKeys(b), M, N)
<1>1. /\ M \in Nat /\ N \in Nat /\ DOMAIN a.passes = 1..M /\ DOMAIN b.passes = 1..N
  BY DEF Spans
<1> QED
  BY <1>1 DEF Lengths, PassMarkers, LeafKeys, TargetKeys, OrderKeys

LEMMA OrderKeyIs ==
    ASSUME NEW side, NEW n, NEW N, Spans(side.passes, n, N), NEW p \in 1..N
    PROVE  OrderKeys(side)[p] # <<>> <=> ~IsMarked(side, p)
<1>1. PassMarkers(side)[p] = NoMarker_ <=> ~IsMarked(side, p)
  BY MarkersAre
<1>2. OrderKeys(side)[p] = IF PassMarkers(side)[p] = NoMarker_ THEN <<side.passes[p].kind>> ELSE <<>>
  BY DEF Spans, OrderKeys
<1>3. <<side.passes[p].kind>> # <<>>
  OBVIOUS
<1> QED
  BY <1>1, <1>2, <1>3

LEMMA ByTargetIs ==
    ASSUME NEW a, NEW b, NEW m, NEW M, NEW n, NEW N, Spans(a.passes, m, M), Spans(b.passes, n, N)
    PROVE  /\ ByTarget(a, b) \in SUBSET Couples(M, N) /\ Exclusive(ByTarget(a, b))
           /\ \A p \in ByTarget(a, b) : p.how # "order"
<1> DEFINE P == ByPath(a, b)
           L == ByLeaf(a, b)
           T == ByTarget(a, b)
<1>0. {} \in SUBSET Couples(M, N) /\ Exclusive({}) /\ {"path", "leaf", "targets"} \subseteq Rules
  BY DEF Exclusive, Rules
<1>1. P \in SUBSET Couples(M, N) /\ Matching(P, {}, PassMarkers(a), PassMarkers(b), "path")
  BY <1>0, KeysListed, MatchIs DEF ByPath
<1> HIDE DEF P
<1>2. Exclusive(P) /\ \A p \in P : p.how = "path"
  BY <1>1 DEF Matching
<1>3. L \in SUBSET Couples(M, N) /\ Matching(L, P, LeafKeys(a), LeafKeys(b), "leaf")
  BY <1>0, <1>1, <1>2, KeysListed, MatchIs DEF ByLeaf, P
<1> HIDE DEF L
<1>4. Exclusive(L) /\ \A p \in L : p.how \in {"path", "leaf"}
  BY <1>2, <1>3 DEF Matching
<1>5. T \in SUBSET Couples(M, N) /\ Matching(T, L, TargetKeys(a), TargetKeys(b), "targets")
  BY <1>0, <1>3, <1>4, KeysListed, MatchIs DEF ByTarget, L
<1> HIDE DEF T
<1>6. Exclusive(T) /\ \A p \in T : p.how \in {"path", "leaf", "targets"}
  BY <1>4, <1>5 DEF Matching
<1> QED
  BY <1>5, <1>6 DEF T

LEMMA AlignedAre ==
    ASSUME NEW a, NEW b, NEW m, NEW M, NEW n, NEW N, Spans(a.passes, m, M), Spans(b.passes, n, N)
    PROVE  /\ Aligned(a, b) \in SUBSET Couples(M, N) /\ Exclusive(Aligned(a, b))
           /\ \A p \in Aligned(a, b) : p.how = "order" => ~IsMarked(a, p.a) /\ ~IsMarked(b, p.b)
<1> DEFINE T == ByTarget(a, b)
           P == Aligned(a, b)
<1>1. T \in SUBSET Couples(M, N) /\ Exclusive(T) /\ \A p \in T : p.how # "order"
  BY ByTargetIs
<1> HIDE DEF T
<1>2. P = Match(OrderKeys(a), OrderKeys(b), "order", T)
  BY AlignedDef DEF T
<1> HIDE DEF P
<1>3. P \in SUBSET Couples(M, N) /\ Matching(P, T, OrderKeys(a), OrderKeys(b), "order")
  <2>1. "order" \in Rules
    BY DEF Rules
  <2> QED
    BY <1>1, <1>2, <2>1, KeysListed, MatchIs
<1>4. ASSUME NEW p \in P, p.how = "order" PROVE ~IsMarked(a, p.a) /\ ~IsMarked(b, p.b)
  <2>1. p \in P \ T
    BY <1>1, <1>4
  <2>2. OrderKeys(a)[p.a] = OrderKeys(b)[p.b] /\ OrderKeys(a)[p.a] # <<>>
    BY <1>3, <2>1 DEF Matching
  <2>3. p.a \in 1..M /\ p.b \in 1..N
    BY <1>3, CoupleIs
  <2> QED
    BY <2>2, <2>3, OrderKeyIs
<1> QED
  BY <1>3, <1>4 DEF Matching, P

LEMMA AlignedSelf ==
    ASSUME NEW a, NEW m, NEW M, Spans(a.passes, m, M)
    PROVE  Same_(Aligned(a, a)) /\ \A i \in 1..M : \E p \in Aligned(a, a) : p.a = i
<1> DEFINE P == ByPath(a, a)
           L == ByLeaf(a, a)
           T == ByTarget(a, a)
           Q == Aligned(a, a)
<1>0. /\ {} \in SUBSET Couples(M, M) /\ Exclusive({}) /\ Same_({}) /\ Rules = {"path", "leaf", "targets", "order"}
  BY DEF Exclusive, Rules, Same_
<1>1. /\ P \in SUBSET Couples(M, M) /\ Matching(P, {}, PassMarkers(a), PassMarkers(a), "path")
      /\ Same_(P) /\ Covers(P, PassMarkers(a), M)
  BY <1>0, KeysListed, MatchIs, MatchSelf DEF ByPath
<1> HIDE DEF P
<1>2. /\ L \in SUBSET Couples(M, M) /\ Matching(L, P, LeafKeys(a), LeafKeys(a), "leaf") /\ Same_(L)
  <2>1. Exclusive(P)
    BY <1>1 DEF Matching
  <2> QED
    BY <1>0, <1>1, <2>1, KeysListed, MatchIs, MatchSelf DEF ByLeaf, P
<1> HIDE DEF L
<1>3. /\ T \in SUBSET Couples(M, M) /\ Matching(T, L, TargetKeys(a), TargetKeys(a), "targets") /\ Same_(T)
  <2>1. Exclusive(L)
    BY <1>2 DEF Matching
  <2> QED
    BY <1>0, <1>2, <2>1, KeysListed, MatchIs, MatchSelf DEF ByTarget, L
<1> HIDE DEF T
<1>4. /\ Matching(Q, T, OrderKeys(a), OrderKeys(a), "order") /\ Same_(Q) /\ Covers(Q, OrderKeys(a), M)
  <2>1. Exclusive(T)
    BY <1>3 DEF Matching
  <2> QED
    BY <1>0, <1>3, <2>1, KeysListed, MatchIs, MatchSelf, AlignedDef DEF T
<1> HIDE DEF Q
<1>5. P \subseteq Q
  BY <1>2, <1>3, <1>4 DEF Matching
<1>6. ASSUME NEW i \in 1..M PROVE \E p \in Q : p.a = i
  <2>1. CASE IsMarked(a, i)
    <3>1. PassMarkers(a)[i] # <<>>
      BY <2>1, MarkersAre DEF NoMarker_
    <3> QED
      BY <1>1, <1>5, <3>1 DEF Covers
  <2>2. CASE ~IsMarked(a, i)
    <3>1. OrderKeys(a)[i] # <<>>
      BY <2>2, OrderKeyIs
    <3> QED
      BY <1>4, <3>1 DEF Covers
  <2> QED
    BY <2>1, <2>2
<1> QED
  BY <1>4, <1>6 DEF Q

(***************************************************************************)
(* The rows: one for each pass of the left side, then the new ones.        *)
(***************************************************************************)
RowAt(pairs, i) == IF \E p \in pairs : p.a = i THEN CHOOSE p \in pairs : p.a = i ELSE Couple(i, 0, "removed")
NewIn(a, b) == {j \in DOMAIN b.passes : \A p \in Aligned(a, b) : p.b # j}
NewOf(a, b) == RestOf(NewIn(a, b), b.passes)

LEMMA PairRowsDef ==
    ASSUME NEW a, NEW b
    PROVE  Align_(a, b) = [i \in DOMAIN a.passes |-> RowAt(Aligned(a, b), i)]
                            \o [k \in DOMAIN NewOf(a, b) |-> Couple(0, NewOf(a, b)[k], "added")]
BY DEF Align_, RowAt, Couple, NewIn, NewOf, RestOf

LEMMA RowAtIs ==
    ASSUME NEW pairs, NEW i
    PROVE  /\ RowAt(pairs, i).a = i
           /\ \/ RowAt(pairs, i) \in pairs
              \/ RowAt(pairs, i).b = 0 /\ \A p \in pairs : p.a # i
<1>1. CASE \E p \in pairs : p.a = i
  BY <1>1 DEF RowAt
<1>2. CASE ~\E p \in pairs : p.a = i
  <2>1. RowAt(pairs, i) = Couple(i, 0, "removed")
    BY <1>2 DEF RowAt
  <2> QED
    BY <1>2, <2>1, CoupleHas
<1> QED
  BY <1>1, <1>2

PairsLaid(rows, P, M, only) ==
    /\ DOMAIN rows = 1..(M + Len(only)) /\ Len(rows) = M + Len(only)
    /\ \A i \in 1..M : rows[i] = RowAt(P, i)
    /\ \A k \in 1..Len(only) : rows[M + k] = Couple(0, only[k], "added")

NewAre(only, P, N) ==
    /\ only \in Seq(1..N)
    /\ EachOnce(only, {j \in 1..N : \A p \in P : p.b # j})

LEMMA PairsAreLaid ==
    ASSUME NEW a, NEW b, NEW m, NEW M, NEW n, NEW N, Spans(a.passes, m, M), Spans(b.passes, n, N)
    PROVE  /\ PairsLaid(Align_(a, b), Aligned(a, b), M, NewOf(a, b))
           /\ NewAre(NewOf(a, b), Aligned(a, b), N)
<1> DEFINE P == Aligned(a, b)
           only == NewOf(a, b)
           d == Len(only)
           F == [i \in 1..M |-> RowAt(P, i)]
           H == [k \in 1..d |-> Couple(0, only[k], "added")]
           S == {F[i] : i \in 1..M} \cup {H[k] : k \in 1..d}
<1>0. M \in Nat /\ N \in Nat /\ DOMAIN a.passes = 1..M /\ DOMAIN b.passes = 1..N
  BY DEF Spans
<1>1. NewAre(only, P, N)
  <2>1. NewIn(a, b) \cap (1..N) = {j \in 1..N : \A p \in P : p.b # j}
    BY <1>0 DEF NewIn
  <2>2. only \in Seq(1..N) /\ EachOnce(only, NewIn(a, b) \cap (1..N))
    BY <1>0, RestIs DEF InTurn, NewOf
  <2> QED
    BY <2>1, <2>2 DEF NewAre
<1>2. d \in Nat /\ DOMAIN only = 1..d
  BY <1>1 DEF NewAre
<1>3. Align_(a, b) = F \o H
  BY <1>0, <1>2, PairRowsDef
<1>4. F \in [1..M -> S] /\ H \in [1..d -> S]
  OBVIOUS
<1>5. (\A i \in 1..M : F[i] = RowAt(P, i)) /\ \A k \in 1..d : H[k] = Couple(0, only[k], "added")
  OBVIOUS
<1>6. Len(F \o H) = M + d
  <2>1. F \in Seq(S) /\ H \in Seq(S) /\ Len(F) = M /\ Len(H) = d
    BY <1>0, <1>2, <1>4
  <2> HIDE DEF F, H, S
  <2> QED
    BY <2>1
<1> HIDE DEF F, H, S, d, only, P
<1>7. Joined(F \o H, F, H, M, d)
  BY <1>0, <1>2, <1>4, ConcatIs
<1>8. PairsLaid(F \o H, P, M, only)
  BY <1>5, <1>6, <1>7 DEF PairsLaid, Joined, d
<1> QED
  BY <1>1, <1>3, <1>8 DEF P, only

\* One row for a pass, of either side; a row of both sides is a pair.
RowsPair(rows, P, M, N) ==
    /\ Len(rows) \in Nat /\ DOMAIN rows = 1..Len(rows)
    /\ \A k \in DOMAIN rows : /\ rows[k].a \in 0..M /\ rows[k].b \in 0..N
                              /\ rows[k].a # 0 /\ rows[k].b # 0 => rows[k] \in P
    /\ \A i \in 1..M : \E k \in DOMAIN rows : \A l \in DOMAIN rows : rows[l].a = i <=> l = k
    /\ \A j \in 1..N : \E k \in DOMAIN rows : \A l \in DOMAIN rows : rows[l].b = j <=> l = k

RowIsOne(rows, k, P, M, N, only) ==
    \/ k \in 1..M /\ rows[k].a = k /\ rows[k] \in P
    \/ k \in 1..M /\ rows[k].a = k /\ rows[k].b = 0 /\ \A p \in P : p.a # k
    \/ /\ k > M /\ k - M \in 1..Len(only) /\ rows[k].a = 0 /\ rows[k].b = only[k - M]
       /\ rows[k].b \in 1..N /\ \A p \in P : p.b # rows[k].b

LEMMA RowIsEither ==
    ASSUME NEW P, NEW M \in Nat, NEW N, NEW only, NewAre(only, P, N), NEW rows, PairsLaid(rows, P, M, only),
           NEW k \in DOMAIN rows
    PROVE  RowIsOne(rows, k, P, M, N, only)
<1>1. CASE k \in 1..M
  <2>1. rows[k] = RowAt(P, k)
    BY <1>1 DEF PairsLaid
  <2> QED
    BY <1>1, <2>1, RowAtIs DEF RowIsOne
<1>2. CASE k \notin 1..M
  <2>0. Len(only) \in Nat /\ DOMAIN only = 1..Len(only) /\ k \in 1..(M + Len(only))
    BY DEF PairsLaid, NewAre
  <2>1. k > M /\ k - M \in 1..Len(only) /\ k = M + (k - M)
    BY <1>2, <2>0
  <2>2. rows[k] = Couple(0, only[k - M], "added")
    BY <2>1 DEF PairsLaid
  <2>3. rows[k].a = 0 /\ rows[k].b = only[k - M]
    BY <2>2, CoupleHas
  <2>4. only[k - M] \in Range(only)
    BY <2>0, <2>1 DEF Range
  <2>5. only[k - M] \in {j \in 1..N : \A p \in P : p.b # j}
    BY <2>4 DEF NewAre, EachOnce
  <2> QED
    BY <2>1, <2>3, <2>5 DEF RowIsOne
<1> QED
  BY <1>1, <1>2

LEMMA LaidPairs ==
    ASSUME NEW P, NEW M \in Nat, NEW N \in Nat, P \in SUBSET Couples(M, N), Exclusive(P),
           NEW only, NewAre(only, P, N), NEW rows, PairsLaid(rows, P, M, only)
    PROVE  RowsPair(rows, P, M, N)
<1> DEFINE d == Len(only)
           C(k) == k \in 1..M /\ rows[k].a = k /\ rows[k] \in P
           R(k) == k \in 1..M /\ rows[k].a = k /\ rows[k].b = 0 /\ \A p \in P : p.a # k
           W(k) == /\ k > M /\ k - M \in 1..d /\ rows[k].a = 0 /\ rows[k].b = only[k - M]
                   /\ rows[k].b \in 1..N /\ \A p \in P : p.b # rows[k].b
<1>0. d \in Nat /\ DOMAIN rows = 1..(M + d) /\ Len(rows) = M + d /\ DOMAIN only = 1..d
  BY DEF PairsLaid, NewAre
<1>1. ASSUME NEW k \in DOMAIN rows PROVE C(k) \/ R(k) \/ W(k)
  <2>1. RowIsOne(rows, k, P, M, N, only)
    BY RowIsEither
  <2> QED
    BY <2>1 DEF RowIsOne
<1>2. \A p \in P : p.a \in 1..M /\ p.b \in 1..N
  BY CoupleIs
<1>3. ASSUME NEW k \in DOMAIN rows
      PROVE  rows[k].a \in 0..M /\ rows[k].b \in 0..N /\ (rows[k].a # 0 /\ rows[k].b # 0 => rows[k] \in P)
  BY <1>1, <1>2
<1>4. ASSUME NEW i \in 1..M PROVE \E k \in DOMAIN rows : \A l \in DOMAIN rows : rows[l].a = i <=> l = k
  <2>1. i \in DOMAIN rows
    BY <1>0
  <2>2. ASSUME NEW l \in DOMAIN rows PROVE rows[l].a = i <=> l = i
    <3>1. (l \in 1..M /\ rows[l].a = l) \/ (l > M /\ rows[l].a = 0)
      BY <1>1
    <3> QED
      BY <3>1
  <2> QED
    BY <2>1, <2>2
<1>5. ASSUME NEW j \in 1..N PROVE \E k \in DOMAIN rows : \A l \in DOMAIN rows : rows[l].b = j <=> l = k
  <2>1. CASE \E p \in P : p.b = j
    <3>1. PICK p \in P : p.b = j
      BY <2>1
    <3> DEFINE i == p.a
    <3>2. i \in 1..M /\ i \in DOMAIN rows
      BY <1>0, <1>2
    <3> HIDE DEF i
    <3>3. ASSUME NEW l \in DOMAIN rows PROVE rows[l].b = j <=> l = i
      <4>1. CASE C(l)
        <5>1. rows[l].b = j => rows[l] = p
          BY <3>1, <4>1 DEF Exclusive
        <5>2. l = i => rows[l] = p
          BY <4>1 DEF Exclusive, i
        <5> QED
          BY <3>1, <4>1, <5>1, <5>2 DEF i
      <4>2. CASE R(l)
        <5>1. rows[l].b # j
          BY <4>2
        <5>2. l # i
          BY <4>2 DEF i
        <5> QED
          BY <5>1, <5>2
      <4>3. CASE W(l)
        <5>1. rows[l].b # j
          BY <3>1, <4>3
        <5>2. l # i
          BY <3>2, <4>3
        <5> QED
          BY <5>1, <5>2
      <4> QED
        BY <1>1, <4>1, <4>2, <4>3
    <3> QED
      BY <3>2, <3>3
  <2>2. CASE \A p \in P : p.b # j
    <3>1. j \in Range(only)
      BY <2>2 DEF NewAre, EachOnce
    <3>2. PICK x \in 1..d : only[x] = j
      BY <1>0, <3>1 DEF Range
    <3>3. M + x \in DOMAIN rows
      BY <1>0
    <3>4. \A y \in 1..d : only[y] = j => y = x
      BY <3>2 DEF NewAre, EachOnce
    <3>5. W(M + x)
      <4>1. ~C(M + x) /\ ~R(M + x)
        OBVIOUS
      <4> QED
        BY <1>1, <3>3, <4>1
    <3>6. ASSUME NEW l \in DOMAIN rows PROVE rows[l].b = j <=> l = M + x
      <4>1. CASE C(l)
        BY <2>2, <4>1
      <4>2. CASE R(l)
        BY <4>2
      <4>3. CASE W(l)
        <5>1. rows[l].b = j => l - M = x
          BY <3>4, <4>3
        <5>2. l - M = x <=> l = M + x
          BY <1>0
        <5>3. l = M + x => rows[l].b = j
          BY <3>2, <4>3, <5>2
        <5> QED
          BY <5>1, <5>2, <5>3
      <4> QED
        BY <1>1, <4>1, <4>2, <4>3
    <3> QED
      BY <3>3, <3>6
  <2> QED
    BY <2>1, <2>2
<1> QED
  BY <1>0, <1>3, <1>4, <1>5 DEF RowsPair

LEMMA SelfRows ==
    ASSUME NEW P, NEW M \in Nat, P \in SUBSET Couples(M, M), Same_(P), \A i \in 1..M : \E p \in P : p.a = i,
           NEW only, NewAre(only, P, M), NEW rows, PairsLaid(rows, P, M, only), NEW k \in DOMAIN rows
    PROVE  rows[k].a = rows[k].b /\ rows[k].a \in 1..M
<1>1. \/ k \in 1..M /\ rows[k].a = k /\ rows[k] \in P
      \/ k \in 1..M /\ rows[k].a = k /\ rows[k].b = 0 /\ \A p \in P : p.a # k
      \/ rows[k].b \in 1..M /\ \A p \in P : p.b # rows[k].b
  <2>1. RowIsOne(rows, k, P, M, M, only)
    BY RowIsEither
  <2> QED
    BY <2>1 DEF RowIsOne
<1>2. \A j \in 1..M : \E p \in P : p.b = j
  BY DEF Same_
<1> QED
  BY <1>1, <1>2 DEF Same_

(***************************************************************************)
(* Finite sets of numbers, taken largest last.                             *)
(***************************************************************************)
LEMMA FiniteIsBounded ==
    ASSUME NEW S \in SUBSET Nat, IsFiniteSet(S)
    PROVE  \E k \in Nat : S \in SUBSET (0..k)
<1> DEFINE Bounded(T) == \E k \in Nat : T \in SUBSET (0..k)
           bad == {n \in Nat : \E T \in SUBSET S : Cardinality(T) = n /\ ~Bounded(T)}
<1>1. \A T \in SUBSET S : IsFiniteSet(T) /\ Cardinality(T) \in Nat
  BY FS_Subset, FS_CardinalityType
<1>2. ASSUME bad # {} PROVE FALSE
  <2>1. PICK n \in bad : \A y \in bad : n <= y
    <3>1. bad \in SUBSET Nat
      OBVIOUS
    <3> HIDE DEF bad
    <3> QED
      BY <1>2, <3>1, NatLeast
  <2>2. PICK T \in SUBSET S : Cardinality(T) = n /\ ~Bounded(T)
    BY <2>1
  <2>3. T # {}
    <3>1. {} \in SUBSET (0..0) /\ 0 \in Nat
      OBVIOUS
    <3> QED
      BY <2>2, <3>1
  <2>4. PICK x \in T : TRUE
    BY <2>3
  <2> DEFINE U == T \ {x}
  <2>5. U \in SUBSET S /\ Cardinality(U) = n - 1 /\ Cardinality(U) \in Nat
    BY <1>1, <2>2, <2>4, FS_RemoveElement
  <2>6. Bounded(U)
    <3> HIDE DEF U, Bounded
    <3>1. n - 1 \notin bad
      BY <2>1, <2>5
    <3> QED
      BY <2>5, <3>1
  <2>7. PICK k \in Nat : U \in SUBSET (0..k)
    BY <2>6
  <2>8. x \in Nat /\ k + x \in Nat
    BY <2>4
  <2>9. T \in SUBSET (0..(k + x))
    BY <2>7, <2>8
  <2> QED
    BY <2>2, <2>8, <2>9
<1>3. Cardinality(S) \notin bad /\ S \in SUBSET S /\ Cardinality(S) \in Nat
  BY <1>1, <1>2
<1> HIDE DEF Bounded
<1>4. Bounded(S)
  BY <1>3
<1> QED
  BY <1>4 DEF Bounded

LEMMA FiniteMax ==
    ASSUME NEW S \in SUBSET Nat, IsFiniteSet(S), NEW s \in SUBSET S, s # {}
    PROVE  Max(s) \in s /\ \A y \in s : y <= Max(s)
<1>1. PICK k \in Nat : S \in SUBSET (0..k)
  BY FiniteIsBounded
<1>2. s \in SUBSET (0..k)
  BY <1>1
<1> QED
  BY <1>2, NatMaxIs

\* What each set inherits from the set without its largest holds of every set.
LEMMA SubsetsClimb ==
    ASSUME NEW S \in SUBSET Nat, IsFiniteSet(S), NEW good, {} \in good,
           \A s \in SUBSET S : s # {} /\ s \ {Max(s)} \in good => s \in good
    PROVE  S \in good
<1> DEFINE bad == {n \in Nat : \E s \in SUBSET S : Cardinality(s) = n /\ s \notin good}
<1>1. \A s \in SUBSET S : IsFiniteSet(s) /\ Cardinality(s) \in Nat
  BY FS_Subset, FS_CardinalityType
<1>2. ASSUME bad # {} PROVE FALSE
  <2>1. PICK n \in bad : \A y \in bad : n <= y
    <3>1. bad \in SUBSET Nat
      OBVIOUS
    <3> HIDE DEF bad
    <3> QED
      BY <1>2, <3>1, NatLeast
  <2>2. PICK s \in SUBSET S : Cardinality(s) = n /\ s \notin good
    BY <2>1
  <2>3. s # {}
    BY <2>2
  <2> DEFINE x == Max(s)
             u == s \ {x}
  <2>4. x \in s
    BY <2>3, FiniteMax
  <2>5. u \in SUBSET S /\ Cardinality(u) = n - 1 /\ Cardinality(u) \in Nat
    <3> HIDE DEF x
    <3> QED
      BY <1>1, <2>2, <2>4, FS_RemoveElement
  <2>6. u \in good
    <3> HIDE DEF u
    <3>1. n - 1 \notin bad
      BY <2>1, <2>5
    <3> QED
      BY <2>5, <3>1
  <2> QED
    BY <2>2, <2>3, <2>6
<1> QED
  BY <1>1, <1>2

(***************************************************************************)
(* The pictures of a pair.                                                 *)
(***************************************************************************)
NoneSeen(budget) == [rows |-> {}, left |-> budget]
ImagesFrom(f, left_, right_, S, budget) ==
    [s \in SUBSET S |->
        IF s = {} THEN NoneSeen(budget) ELSE LET x == Max(s) IN ImageStep(left_, right_, f[s \ {x}], x)]
SlotsOf(left_, right_) == DOMAIN left_ \cup DOMAIN right_

LEMMA ImagesDef ==
    ASSUME NEW a, NEW b, NEW one, NEW two, NEW budget
    PROVE  CompareImages(a, b, one, two, budget) =
             (CHOOSE f : f = ImagesFrom(f, LastReadbacks(a, one), LastReadbacks(b, two),
                                        SlotsOf(LastReadbacks(a, one), LastReadbacks(b, two)), budget))
               [SlotsOf(LastReadbacks(a, one), LastReadbacks(b, two))]
BY DEF CompareImages, MapThenFoldSet, ImagesFrom, NoneSeen, SlotsOf

\* An image is decoded only while there is budget, and left undecoded only without.
RowOfSlot(row, left_, right_, slot, open) ==
    /\ row.slot = slot /\ row.decoded \in BOOLEAN /\ (row.decoded => open)
    /\ row.verdict = "different" /\ ~row.decoded => ~open
    /\ row.verdict = "identical" <=>
          slot \in DOMAIN left_ /\ slot \in DOMAIN right_ /\ left_[slot].image = right_[slot].image

ImageLine(slot, verdict, decoded) == [slot |-> slot, verdict |-> verdict, decoded |-> decoded]

LEMMA LineHas ==
    ASSUME NEW slot, NEW verdict, NEW decoded
    PROVE  /\ ImageLine(slot, verdict, decoded).slot = slot /\ ImageLine(slot, verdict, decoded).verdict = verdict
           /\ ImageLine(slot, verdict, decoded).decoded = decoded
BY DEF ImageLine

LEMMA ImageRowIs ==
    ASSUME NEW left_, NEW right_, NEW slot \in SlotsOf(left_, right_), NEW open \in BOOLEAN
    PROVE  RowOfSlot(ImageRow(left_, right_, slot, open), left_, right_, slot, open)
<1> DEFINE r == ImageRow(left_, right_, slot, open)
           seen == ComparePixels(left_[slot].image, right_[slot].image)
<1>1. seen \in {"unreadable", "sizes differ", "different"}
  BY DEF ComparePixels
<1>2. r = IF slot \notin DOMAIN right_ THEN ImageLine(slot, "only in A", FALSE)
          ELSE IF slot \notin DOMAIN left_ THEN ImageLine(slot, "only in B", FALSE)
          ELSE IF left_[slot].image = right_[slot].image THEN ImageLine(slot, "identical", FALSE)
          ELSE IF open THEN ImageLine(slot, seen, TRUE)
          ELSE ImageLine(slot, "different", FALSE)
  BY DEF ImageRow, ImageLine
<1> HIDE DEF seen, r
<1>3. CASE slot \notin DOMAIN right_
  <2>1. r = ImageLine(slot, "only in A", FALSE)
    BY <1>2, <1>3
  <2>2. r.slot = slot /\ r.verdict = "only in A" /\ r.decoded = FALSE
    BY <2>1 DEF ImageLine
  <2> QED
    BY <1>3, <2>2 DEF RowOfSlot, r
<1>4. CASE slot \in DOMAIN right_ /\ slot \notin DOMAIN left_
  <2>1. r = ImageLine(slot, "only in B", FALSE)
    BY <1>2, <1>4
  <2>2. r.slot = slot /\ r.verdict = "only in B" /\ r.decoded = FALSE
    BY <2>1 DEF ImageLine
  <2> QED
    BY <1>4, <2>2 DEF RowOfSlot, r
<1>5. CASE slot \in DOMAIN right_ /\ slot \in DOMAIN left_ /\ left_[slot].image = right_[slot].image
  <2>1. r = ImageLine(slot, "identical", FALSE)
    BY <1>2, <1>5
  <2>2. r.slot = slot /\ r.verdict = "identical" /\ r.decoded = FALSE
    BY <2>1 DEF ImageLine
  <2> QED
    BY <1>5, <2>2 DEF RowOfSlot, r
<1>6. CASE slot \in DOMAIN right_ /\ slot \in DOMAIN left_ /\ left_[slot].image # right_[slot].image
  <2>1. CASE open
    <3>1. r = ImageLine(slot, seen, TRUE)
      BY <1>2, <1>6, <2>1
    <3>2. r.slot = slot /\ r.decoded = TRUE /\ r.verdict = seen
      BY <3>1 DEF ImageLine
    <3> QED
      BY <1>1, <1>6, <2>1, <3>2 DEF RowOfSlot, r
  <2>2. CASE ~open
    <3>1. r = ImageLine(slot, "different", FALSE)
      BY <1>2, <1>6, <2>2
    <3>2. r.slot = slot /\ r.decoded = FALSE /\ r.verdict = "different"
      BY <3>1 DEF ImageLine
    <3> QED
      BY <1>6, <2>2, <3>2 DEF RowOfSlot, r
  <2> QED
    BY <2>1, <2>2
<1> QED
  BY <1>3, <1>4, <1>5, <1>6 DEF SlotsOf

\* What the rows of some slots are, and what they cost.
SlotsDecoded(images) == {image.slot : image \in {image \in images : image.decoded}}
ImagesHold(acc, left_, right_, s, budget) ==
    /\ acc.left \in Nat /\ acc.left <= budget
    /\ \A row \in acc.rows : row.slot \in s /\ \E open \in BOOLEAN : row = ImageRow(left_, right_, row.slot, open)
    /\ \A row \in acc.rows : row.verdict = "different" /\ ~row.decoded => acc.left = 0
    /\ SlotsDecoded(acc.rows) \in SUBSET s /\ Cardinality(SlotsDecoded(acc.rows)) = budget - acc.left

ImageMade(left_, right_, acc, x) == ImageRow(left_, right_, x, acc.left > 0)

LEMMA ImageStepIs ==
    ASSUME NEW left_, NEW right_, NEW acc, NEW x
    PROVE  /\ ImageStep(left_, right_, acc, x).rows = acc.rows \cup {ImageMade(left_, right_, acc, x)}
           /\ ImageStep(left_, right_, acc, x).left =
                IF ImageMade(left_, right_, acc, x).decoded THEN acc.left - 1 ELSE acc.left
BY DEF ImageStep, ImageMade

LEMMA DecodedGrows ==
    ASSUME NEW images, NEW row
    PROVE  SlotsDecoded(images \cup {row}) = IF row.decoded THEN SlotsDecoded(images) \cup {row.slot} ELSE SlotsDecoded(images)
<1>1. CASE row.decoded
  <2>1. {image \in images \cup {row} : image.decoded} = {image \in images : image.decoded} \cup {row}
    BY <1>1
  <2> DEFINE D == {image \in images : image.decoded}
  <2> HIDE DEF D
  <2>2. {image.slot : image \in D \cup {row}} = {image.slot : image \in D} \cup {row.slot}
    OBVIOUS
  <2> QED
    BY <1>1, <2>1, <2>2 DEF SlotsDecoded, D
<1>2. CASE ~row.decoded
  <2>1. {image \in images \cup {row} : image.decoded} = {image \in images : image.decoded}
    BY <1>2
  <2> QED
    BY <1>2, <2>1 DEF SlotsDecoded
<1> QED
  BY <1>1, <1>2

LEMMA ImagesGrow ==
    ASSUME NEW left_, NEW right_, NEW S, S = SlotsOf(left_, right_), IsFiniteSet(S), NEW s \in SUBSET S, NEW x \in S,
           x \notin s, NEW budget \in Nat, NEW acc, ImagesHold(acc, left_, right_, s, budget)
    PROVE  ImagesHold(ImageStep(left_, right_, acc, x), left_, right_, s \cup {x}, budget)
<1> DEFINE to == ImageStep(left_, right_, acc, x)
           r == ImageMade(left_, right_, acc, x)
           open == acc.left > 0
           was == SlotsDecoded(acc.rows)
<1>0. /\ acc.left \in Nat /\ acc.left <= budget
      /\ \A row \in acc.rows : row.slot \in s /\ \E o \in BOOLEAN : row = ImageRow(left_, right_, row.slot, o)
      /\ \A row \in acc.rows : row.verdict = "different" /\ ~row.decoded => acc.left = 0
      /\ was \in SUBSET s /\ Cardinality(was) = budget - acc.left
  BY DEF ImagesHold
<1>1. /\ to.rows = acc.rows \cup {r}
      /\ to.left = IF r.decoded THEN acc.left - 1 ELSE acc.left
  BY ImageStepIs
<1>2. /\ r = ImageRow(left_, right_, x, open) /\ open \in BOOLEAN
      /\ r.slot = x /\ r.decoded \in BOOLEAN /\ (r.decoded => open)
      /\ r.verdict = "different" /\ ~r.decoded => ~open
  <2>1. r = ImageRow(left_, right_, x, open) /\ open \in BOOLEAN
    BY DEF ImageMade
  <2> HIDE DEF r, open
  <2>2. RowOfSlot(r, left_, right_, x, open)
    BY <2>1, ImageRowIs
  <2> QED
    BY <2>1, <2>2 DEF RowOfSlot
<1>3. open <=> acc.left # 0
  BY <1>0
<1> HIDE DEF to, r, open
<1>4. SlotsDecoded(to.rows) = IF r.decoded THEN was \cup {x} ELSE was
  <2> DEFINE old == acc.rows
  <2> HIDE DEF old
  <2>1. SlotsDecoded(old \cup {r}) = IF r.decoded THEN SlotsDecoded(old) \cup {r.slot} ELSE SlotsDecoded(old)
    BY DecodedGrows
  <2> QED
    BY <1>1, <1>2, <2>1 DEF old
<1> HIDE DEF was
<1>5. to.left \in Nat /\ to.left <= budget /\ (acc.left = 0 => to.left = 0)
  BY <1>0, <1>1, <1>2, <1>3
<1>6. \A row \in to.rows : row.slot \in s \cup {x} /\ \E o \in BOOLEAN : row = ImageRow(left_, right_, row.slot, o)
  BY <1>0, <1>1, <1>2
<1>7. ASSUME NEW row \in to.rows, row.verdict = "different", ~row.decoded PROVE to.left = 0
  <2>1. CASE row \in acc.rows
    BY <1>0, <1>5, <1>7, <2>1
  <2>2. CASE row = r
    BY <1>1, <1>2, <1>3, <1>7, <2>2
  <2> QED
    BY <1>1, <2>1, <2>2
<1>8. SlotsDecoded(to.rows) \in SUBSET (s \cup {x}) /\ Cardinality(SlotsDecoded(to.rows)) = budget - to.left
  <2>1. IsFiniteSet(was)
    <3>1. was \in SUBSET S
      BY <1>0
    <3> QED
      BY <3>1, FS_Subset
  <2>2. x \notin was
    BY <1>0
  <2>3. Cardinality(was \cup {x}) = Cardinality(was) + 1
    BY <2>1, <2>2, FS_AddElement
  <2> QED
    BY <1>0, <1>1, <1>4, <2>3
<1> QED
  BY <1>5, <1>6, <1>7, <1>8 DEF ImagesHold, to

LEMMA ImagesExist ==
    ASSUME NEW left_, NEW right_, NEW S \in SUBSET Nat, IsFiniteSet(S), NEW budget \in Nat
    PROVE  \E f : f = ImagesFrom(f, left_, right_, S, budget)
<1> DEFINE R == {ImageRow(left_, right_, x, o) : x \in S, o \in BOOLEAN}
           A == [rows : SUBSET R, left : Int]
           pick == [s \in SUBSET S |-> Max(s)]
           Next_(acc, x) == ImageStep(left_, right_, acc, x)
           G == [x \in S |-> [acc \in A |-> Next_(acc, x)]]
<1>1. \A s \in SUBSET S : s # {} => pick[s] \in s
  BY FiniteMax
<1>2. \A s \in SUBSET S : pick[s] = Max(s)
  OBVIOUS
<1>3. NoneSeen(budget) \in A
  BY DEF NoneSeen
<1>4. ASSUME NEW acc \in A, NEW x \in S PROVE Next_(acc, x) \in A
  <2>1. acc.rows \in SUBSET R /\ acc.left \in Int
    <3> HIDE DEF R
    <3> QED
      OBVIOUS
  <2> DEFINE o == acc.left > 0
             r == ImageRow(left_, right_, x, o)
  <2>2. r \in R
    <3>1. o \in BOOLEAN
      OBVIOUS
    <3> HIDE DEF o
    <3> QED
      BY <3>1
  <2>3. Next_(acc, x) = [rows |-> acc.rows \cup {r}, left |-> IF r.decoded THEN acc.left - 1 ELSE acc.left]
    BY DEF ImageStep
  <2> HIDE DEF r, R
  <2> QED
    BY <2>1, <2>2, <2>3
<1> HIDE DEF A, R, Next_, pick
<1>5. G \in [S -> [A -> A]]
  BY <1>4
<1>6. \A x \in S, acc \in A : G[x][acc] = Next_(acc, x)
  OBVIOUS
<1> HIDE DEF G
<1>7. Foldable(S, A, NoneSeen(budget), G, pick)
  BY <1>1, <1>3, <1>5 DEF Foldable
<1>8. PICK f : FoldOf(f, S, A, NoneSeen(budget), G, pick)
  BY <1>7, FoldExists
<1>9. /\ f \in [SUBSET S -> A]
      /\ \A s \in SUBSET S : f[s] = IF s = {} THEN NoneSeen(budget) ELSE G[pick[s]][f[s \ {pick[s]}]]
  BY <1>8 DEF FoldOf
<1>10. ASSUME NEW s \in SUBSET S
       PROVE  f[s] = IF s = {} THEN NoneSeen(budget) ELSE Next_(f[s \ {Max(s)}], Max(s))
  <2>1. CASE s = {}
    BY <1>9, <2>1
  <2>2. CASE s # {}
    <3> DEFINE x == Max(s)
               u == s \ {x}
    <3>1. x \in S /\ u \in SUBSET S /\ pick[s] = x
      BY <1>1, <1>2, <2>2
    <3> HIDE DEF x
    <3>2. f[s] = G[x][f[u]] /\ f[u] \in A
      BY <1>9, <2>2, <3>1
    <3> QED
      BY <1>6, <2>2, <3>1, <3>2 DEF x
  <2> QED
    BY <2>1, <2>2
<1>11. f = ImagesFrom(f, left_, right_, S, budget)
  BY <1>9, <1>10 DEF ImagesFrom, Next_
<1> QED
  BY <1>11

LEMMA ImagesAre ==
    ASSUME NEW a, NEW b, NEW one, NEW two, NEW budget \in Nat,
           SlotsOf(LastReadbacks(a, one), LastReadbacks(b, two)) \in SUBSET Nat,
           IsFiniteSet(SlotsOf(LastReadbacks(a, one), LastReadbacks(b, two)))
    PROVE  ImagesHold(CompareImages(a, b, one, two, budget), LastReadbacks(a, one), LastReadbacks(b, two),
                      SlotsOf(LastReadbacks(a, one), LastReadbacks(b, two)), budget)
<1> DEFINE l == LastReadbacks(a, one)
           r == LastReadbacks(b, two)
           S == SlotsOf(l, r)
           f == CHOOSE f : f = ImagesFrom(f, l, r, S, budget)
           good == {s \in SUBSET S : ImagesHold(f[s], l, r, s, budget)}
<1>1. CompareImages(a, b, one, two, budget) = f[S]
  BY ImagesDef
<1>2. S \in SUBSET Nat /\ IsFiniteSet(S)
  OBVIOUS
<1> HIDE DEF l, r
<1>3. f = ImagesFrom(f, l, r, S, budget)
  <2> HIDE DEF S
  <2> QED
    BY <1>2, ImagesExist
<1> HIDE DEF f
<1>4. \A s \in SUBSET S : f[s] = IF s = {} THEN NoneSeen(budget) ELSE ImageStep(l, r, f[s \ {Max(s)}], Max(s))
  BY <1>3 DEF ImagesFrom
<1>5. {} \in good
  <2>1. f[{}] = NoneSeen(budget)
    BY <1>4
  <2>2. NoneSeen(budget).rows = {} /\ NoneSeen(budget).left = budget
    BY DEF NoneSeen
  <2>3. SlotsDecoded({}) = {}
    BY DEF SlotsDecoded
  <2>4. ImagesHold(f[{}], l, r, {}, budget)
    BY <2>1, <2>2, <2>3, FS_EmptySet DEF ImagesHold
  <2> QED
    BY <2>4
<1>6. ASSUME NEW s \in SUBSET S, s # {}, s \ {Max(s)} \in good PROVE s \in good
  <2> DEFINE x == Max(s)
             u == s \ {x}
  <2>1. x \in s
    BY <1>2, <1>6, FiniteMax
  <2>2. f[s] = ImageStep(l, r, f[u], x) /\ ImagesHold(f[u], l, r, u, budget)
    BY <1>4, <1>6
  <2> HIDE DEF x
  <2>3. u \in SUBSET S /\ x \in S /\ x \notin u /\ u \cup {x} = s
    BY <2>1
  <2> HIDE DEF u
  <2>4. ImagesHold(ImageStep(l, r, f[u], x), l, r, u \cup {x}, budget)
    <3> DEFINE acc == f[u]
               T == S
    <3>1. T = SlotsOf(l, r) /\ IsFiniteSet(T) /\ u \in SUBSET T /\ x \in T /\ ImagesHold(acc, l, r, u, budget)
      BY <1>2, <2>2, <2>3
    <3> HIDE DEF acc, T
    <3> QED
      BY <2>3, <3>1, ImagesGrow DEF acc
  <2> QED
    BY <2>2, <2>3, <2>4
<1>7. S \in good
  <2> HIDE DEF good, S
  <2> QED
    BY <1>2, <1>5, <1>6, SubsetsClimb
<1> QED
  BY <1>1, <1>7 DEF l, r

LEMMA UnionIsFinite ==
    ASSUME NEW F, NEW l \in Int, NEW h \in Int, \A i \in l..h : IsFiniteSet(F[i])
    PROVE  IsFiniteSet(UNION {F[i] : i \in l..h})
<1> DEFINE I == l..h
           T == {F[i] : i \in I}
           f == [i \in I |-> F[i]]
<1>1. f \in Surjection(I, T)
  BY DEF Surjection
<1>2. IsFiniteSet(I)
  BY FS_Interval
<1> HIDE DEF f
<1>3. IsFiniteSet(T)
  <2> HIDE DEF T, I
  <2> QED
    BY <1>1, <1>2, FS_Surjection
<1>4. \A t \in T : IsFiniteSet(t)
  OBVIOUS
<1> HIDE DEF T
<1>5. IsFiniteSet(UNION T)
  BY <1>3, <1>4, FS_UNION
<1> QED
  BY <1>5 DEF T

\* The last readback of a slot is what the pass shows in it.
Imaged(events, n) == \A i \in 1..n : DOMAIN events[i].images \in SUBSET Nat /\ IsFiniteSet(DOMAIN events[i].images)

\* An event has finitely many counters.
Timed(events, n) == \A i \in 1..n : IsFiniteSet(DOMAIN events[i].counters)

LEMMA ReadbacksAre ==
    ASSUME NEW side, NEW n, NEW N, Spans(side.passes, n, N), Imaged(side.bundle.events, n), NEW p \in 1..N
    PROVE  LET L == LastReadbacks(side, side.passes[p])
           IN  /\ DOMAIN L \in SUBSET Nat /\ IsFiniteSet(DOMAIN L)
               /\ \A slot \in DOMAIN L : Pictured(side, p, slot) = {L[slot].image}
               /\ \A slot : slot \notin DOMAIN L => Pictured(side, p, slot) = {}
<1> DEFINE L == LastReadbacks(side, side.passes[p])
           lo == side.passes[p].first
           hi == side.passes[p].last
           ev == side.bundle.events
           ids(slot) == {i \in lo..hi : slot \in DOMAIN ev[i].images}
           slots == UNION {DOMAIN ev[i].images : i \in lo..hi}
<1>0. n \in Nat /\ lo \in 1..n /\ hi \in 1..n
  BY DEF Spans
<1>1. L = [slot \in slots |-> [eid |-> Max(ids(slot)), image |-> ev[Max(ids(slot))].images[slot]]]
  BY DEF LastReadbacks
<1>2. EventsIn(side, p) = lo..hi
  BY DEF EventsIn
<1>3. \A slot : Pictured(side, p, slot) =
                  {ev[i].images[slot] : i \in {i \in ids(slot) : \A j \in ids(slot) : j <= i}}
  BY <1>2 DEF Pictured
<1> HIDE DEF L, lo, hi, ev
<1>4. \A i \in lo..hi : DOMAIN ev[i].images \in SUBSET Nat /\ IsFiniteSet(DOMAIN ev[i].images)
  <2>1. \A i \in lo..hi : i \in 1..n
    BY <1>0
  <2> QED
    BY <2>1 DEF Imaged, ev
<1>5. slots \in SUBSET Nat /\ IsFiniteSet(slots)
  <2> DEFINE F == [i \in lo..hi |-> DOMAIN ev[i].images]
  <2>1. \A i \in lo..hi : F[i] \in SUBSET Nat /\ IsFiniteSet(F[i])
    BY <1>4
  <2>2. {F[i] : i \in lo..hi} = {DOMAIN ev[i].images : i \in lo..hi}
    OBVIOUS
  <2> HIDE DEF F
  <2>3. IsFiniteSet(UNION {F[i] : i \in lo..hi})
    BY <1>0, <2>1, UnionIsFinite
  <2>4. IsFiniteSet(slots)
    BY <2>2, <2>3, Zenon
  <2>5. slots \in SUBSET Nat
    BY <1>4
  <2> QED
    BY <2>4, <2>5
<1>6. \A slot : slot \in slots <=> ids(slot) # {}
  OBVIOUS
<1>7. ASSUME NEW slot \in slots PROVE Pictured(side, p, slot) = {L[slot].image}
  <2> DEFINE W == ids(slot)
             x == Max(W)
  <2>1. W \in SUBSET (0..n) /\ W # {}
    BY <1>0, <1>6, <1>7
  <2>2. x \in W /\ \A y \in W : y <= x
    <3> HIDE DEF W
    <3> QED
      BY <1>0, <2>1, NatMaxIs
  <2>3. L[slot].image = ev[x].images[slot]
    BY <1>1
  <2>4. Pictured(side, p, slot) = {ev[i].images[slot] : i \in {i \in W : \A j \in W : j <= i}}
    BY <1>3
  <2> HIDE DEF W, x
  <2>5. {i \in W : \A j \in W : j <= i} = {x}
    <3>1. \A i \in W : (\A j \in W : j <= i) <=> i = x
      <4>1. \A i \in W : i <= x /\ x <= i => i = x
        BY <1>0, <2>1, <2>2
      <4> QED
        BY <2>2, <4>1
    <3> QED
      BY <2>2, <3>1
  <2>6. {ev[i].images[slot] : i \in {x}} = {ev[x].images[slot]}
    OBVIOUS
  <2> QED
    BY <2>3, <2>4, <2>5, <2>6
<1>8. ASSUME NEW slot, slot \notin slots PROVE Pictured(side, p, slot) = {}
  <2>1. ids(slot) = {}
    BY <1>6, <1>8
  <2> QED
    BY <1>3, <2>1
<1>9. DOMAIN L = slots
  BY <1>1
<1> HIDE DEF slots, ids
<1> QED
  BY <1>5, <1>7, <1>8, <1>9 DEF L

(* A row of pictures says identical exactly when both passes end the same.   *)
SaysIdentical(image, a, p, b, q) ==
    Pictured(a, p, image.slot) # Pictured(b, q, image.slot) <=> image.verdict # "identical"
ImagesOf(a, p, b, q, budget) == CompareImages(a, b, a.passes[p], b.passes[q], budget)
PicturesHold(acc, a, p, b, q, budget) ==
    /\ acc.left \in Nat /\ acc.left <= budget
    /\ \A image \in acc.rows : /\ SaysIdentical(image, a, p, b, q)
                               /\ image.verdict = "different" /\ ~image.decoded => acc.left = 0
    /\ IsFiniteSet(SlotsDecoded(acc.rows)) /\ Cardinality(SlotsDecoded(acc.rows)) = budget - acc.left

LEMMA PicturesAre ==
    ASSUME NEW a, NEW m, NEW M, Spans(a.passes, m, M), Imaged(a.bundle.events, m), NEW p \in 1..M,
           NEW b, NEW n, NEW N, Spans(b.passes, n, N), Imaged(b.bundle.events, n), NEW q \in 1..N,
           NEW budget \in Nat
    PROVE  PicturesHold(ImagesOf(a, p, b, q, budget), a, p, b, q, budget)
<1> DEFINE l == LastReadbacks(a, a.passes[p])
           r == LastReadbacks(b, b.passes[q])
           S == SlotsOf(l, r)
           acc == ImagesOf(a, p, b, q, budget)
<1>1. /\ DOMAIN l \in SUBSET Nat /\ IsFiniteSet(DOMAIN l)
      /\ \A slot \in DOMAIN l : Pictured(a, p, slot) = {l[slot].image}
      /\ \A slot : slot \notin DOMAIN l => Pictured(a, p, slot) = {}
  BY ReadbacksAre
<1>2. /\ DOMAIN r \in SUBSET Nat /\ IsFiniteSet(DOMAIN r)
      /\ \A slot \in DOMAIN r : Pictured(b, q, slot) = {r[slot].image}
      /\ \A slot : slot \notin DOMAIN r => Pictured(b, q, slot) = {}
  BY ReadbacksAre
<1>3. S \in SUBSET Nat /\ IsFiniteSet(S)
  <2>1. S = DOMAIN l \cup DOMAIN r
    BY DEF SlotsOf
  <2> HIDE DEF l, r, S
  <2> QED
    BY <1>1, <1>2, <2>1, FS_Union
<1>4. ImagesHold(acc, l, r, S, budget)
  BY <1>3, ImagesAre DEF ImagesOf
<1> HIDE DEF l, r, acc
<1>5. ASSUME NEW image \in acc.rows PROVE SaysIdentical(image, a, p, b, q)
  <2> DEFINE x == image.slot
  <2>1. PICK open \in BOOLEAN : image = ImageRow(l, r, x, open)
    BY <1>4 DEF ImagesHold
  <2>2. x \in S
    BY <1>4 DEF ImagesHold
  <2> HIDE DEF x
  <2>3. RowOfSlot(image, l, r, x, open)
    BY <2>1, <2>2, ImageRowIs
  <2>4. image.verdict = "identical" <=> x \in DOMAIN l /\ x \in DOMAIN r /\ l[x].image = r[x].image
    BY <2>3 DEF RowOfSlot
  <2>5. x \in DOMAIN l \/ x \in DOMAIN r
    BY <2>2 DEF SlotsOf
  <2>6. Pictured(a, p, x) = Pictured(b, q, x) <=> x \in DOMAIN l /\ x \in DOMAIN r /\ l[x].image = r[x].image
    <3>1. CASE x \in DOMAIN l /\ x \in DOMAIN r
      <4>1. Pictured(a, p, x) = {l[x].image} /\ Pictured(b, q, x) = {r[x].image}
        BY <1>1, <1>2, <3>1
      <4> QED
        BY <3>1, <4>1
    <3>2. CASE x \in DOMAIN l /\ x \notin DOMAIN r
      <4>1. Pictured(a, p, x) = {l[x].image} /\ Pictured(b, q, x) = {}
        BY <1>1, <1>2, <3>2
      <4> QED
        BY <3>2, <4>1
    <3>3. CASE x \notin DOMAIN l /\ x \in DOMAIN r
      <4>1. Pictured(a, p, x) = {} /\ Pictured(b, q, x) = {r[x].image}
        BY <1>1, <1>2, <3>3
      <4> QED
        BY <3>3, <4>1
    <3> QED
      BY <2>5, <3>1, <3>2, <3>3
  <2> QED
    BY <2>4, <2>6 DEF SaysIdentical, x
<1>6. IsFiniteSet(SlotsDecoded(acc.rows))
  <2>1. SlotsDecoded(acc.rows) \in SUBSET S
    BY <1>4 DEF ImagesHold
  <2> QED
    BY <1>3, <2>1, FS_Subset
<1>7. PicturesHold(acc, a, p, b, q, budget)
  BY <1>4, <1>5, <1>6 DEF ImagesHold, PicturesHold
<1> QED
  BY <1>7 DEF acc

(* A pass is compared by cost exactly when both sides measured it.           *)
Costed(side, p) == PassCost(side.bundle, side.passes[p].first, side.passes[p].last)

LEMMA MeasuredIs ==
    ASSUME NEW side, NEW n, NEW N, Spans(side.passes, n, N), DOMAIN side.bundle.events = 1..n,
           Timed(side.bundle.events, n), NEW p \in 1..N
    PROVE  Costed(side, p).rows = 0 <=> ~IsMeasured(side, p)
<1> DEFINE lo == side.passes[p].first
           hi == side.passes[p].last
           events == side.bundle.events
           inside == {row \in CostRows(side.bundle) : row[1] \in lo..hi}
           F == [i \in lo..hi |-> {i} \X DOMAIN events[i].counters]
<1>0. n \in Nat /\ lo \in 1..n /\ hi \in 1..n
  BY DEF Spans
<1>1. Costed(side, p).rows = Cardinality(inside)
  BY DEF Costed, PassCost
<1>2. \A row : row \in inside <=> \E i \in lo..hi : row \in F[i] /\ CostedBy(side.bundle, row)
  <2>1. \A i \in lo..hi : i \in DOMAIN events
    BY <1>0
  <2>2. \A row : row \in CostRows(side.bundle)
          <=> \E i \in DOMAIN events : row \in {i} \X DOMAIN events[i].counters /\ CostedBy(side.bundle, row)
    BY DEF CostRows
  <2>3. \A i, row : row \in {i} \X DOMAIN events[i].counters => row[1] = i
    OBVIOUS
  <2>4. \A i \in lo..hi : F[i] = {i} \X DOMAIN events[i].counters
    OBVIOUS
  <2> HIDE DEF lo, hi, events, F
  <2> QED
    BY <2>1, <2>2, <2>3, <2>4
<1>3. IsFiniteSet(inside)
  <2>1. \A i \in lo..hi : IsFiniteSet(F[i])
    <3> TAKE i \in lo..hi
    <3>1. IsFiniteSet({i})
      BY FS_Singleton
    <3>2. i \in 1..n
      BY <1>0
    <3>3. IsFiniteSet(DOMAIN events[i].counters)
      BY <3>2 DEF Timed
    <3>4. F[i] = {i} \X DOMAIN events[i].counters
      OBVIOUS
    <3> HIDE DEF events, F, lo, hi
    <3> QED
      BY <3>1, <3>3, <3>4, FS_Product
  <2>2. inside \in SUBSET (UNION {F[i] : i \in lo..hi})
    BY <1>2
  <2>3. lo \in Int /\ hi \in Int
    BY <1>0
  <2> HIDE DEF lo, hi, inside, F
  <2>4. IsFiniteSet(UNION {F[i] : i \in lo..hi})
    BY <2>1, <2>3, UnionIsFinite
  <2> QED
    BY <2>2, <2>4, FS_Subset
<1>4. inside = {} <=> ~IsMeasured(side, p)
  <2>1. EventsIn(side, p) = lo..hi
    BY DEF EventsIn
  <2>2. IsMeasured(side, p) <=> \E i \in lo..hi : \E c \in DOMAIN events[i].counters : CostedBy(side.bundle, <<i, c>>)
    BY <2>1 DEF IsMeasured, CostedBy
  <2> HIDE DEF inside
  <2>3. ASSUME NEW i \in lo..hi, NEW c \in DOMAIN events[i].counters, CostedBy(side.bundle, <<i, c>>) PROVE inside # {}
    <3>1. <<i, c>> \in F[i]
      OBVIOUS
    <3> HIDE DEF F, lo, hi, events
    <3> QED
      BY <1>2, <2>3, <3>1
  <2>4. ASSUME NEW row \in inside
        PROVE  \E i \in lo..hi : \E c \in DOMAIN events[i].counters : CostedBy(side.bundle, <<i, c>>)
    <3>1. PICK i \in lo..hi : row \in F[i] /\ CostedBy(side.bundle, row)
      BY <1>2
    <3>2. PICK c \in DOMAIN events[i].counters : row = <<i, c>>
      BY <3>1
    <3> QED
      BY <3>1, <3>2
  <2> QED
    BY <2>2, <2>3, <2>4
<1> HIDE DEF inside
<1> QED
  BY <1>1, <1>3, <1>4, FS_EmptySet

LEMMA CountersAre ==
    ASSUME NEW a, NEW m, NEW M, Spans(a.passes, m, M), DOMAIN a.bundle.events = 1..m,
           Timed(a.bundle.events, m), NEW p \in 1..M,
           NEW b, NEW n, NEW N, Spans(b.passes, n, N), DOMAIN b.bundle.events = 1..n,
           Timed(b.bundle.events, n), NEW q \in 1..N
    PROVE  CompareCounters(a, b, a.passes[p], b.passes[q]) # "not compared" <=> IsMeasured(a, p) /\ IsMeasured(b, q)
<1>1. CompareCounters(a, b, a.passes[p], b.passes[q]) = "not compared"
        <=> Costed(a, p).rows = 0 \/ Costed(b, q).rows = 0
  BY DEF CompareCounters, Costed
<1>2. (Costed(a, p).rows = 0 <=> ~IsMeasured(a, p)) /\ (Costed(b, q).rows = 0 <=> ~IsMeasured(b, q))
  BY MeasuredIs
<1> QED
  BY <1>1, <1>2

(***************************************************************************)
(* The document: row by row, the budget going down.                        *)
(***************************************************************************)
NoRows(detail) == [rows |-> <<>>, left |-> detail]
DocsFrom(f, a, b, list, n, detail) ==
    [s \in SUBSET (1..n) |->
        IF s = {} THEN NoRows(detail) ELSE LET x == Max(s) IN NextRow(a, b, TRUE, f[s \ {x}], list[x])]

Docs(a, b, n, detail) == CHOOSE f : f = DocsFrom(f, a, b, Align_(a, b), n, detail)

DocumentOf(a, b, detail) == BuildDocument(a, b, TRUE, detail)

LEMMA DocsDef ==
    ASSUME NEW a, NEW b, NEW n, DOMAIN Align_(a, b) = 1..n, NEW detail
    PROVE  DocumentOf(a, b, detail) = Docs(a, b, n, detail)[1..n]
BY DEF DocumentOf, BuildDocument, FoldLeft, MapThenFoldSet, Docs, DocsFrom, NoRows

LEMMA DocsExist ==
    ASSUME NEW a, NEW b, NEW list, NEW n \in Nat, NEW detail
    PROVE  \E f : f = DocsFrom(f, a, b, list, n, detail)
<1> DEFINE good == {k \in 0..n : \E f : f = DocsFrom(f, a, b, list, k, detail)}
<1>1. 0 \in good
  <2> DEFINE f == [s \in SUBSET (1..0) |-> NoRows(detail)]
  <2>1. \A s \in SUBSET (1..0) : s = {}
    OBVIOUS
  <2>2. f = DocsFrom(f, a, b, list, 0, detail)
    BY <2>1 DEF DocsFrom
  <2> QED
    BY <2>2
<1>2. ASSUME NEW k \in (0 + 1)..n, k - 1 \in good PROVE k \in good
  <2>0. k \in Nat /\ k # 0 /\ k \in 0..n
    OBVIOUS
  <2>1. PICK f : f = DocsFrom(f, a, b, list, k - 1, detail)
    BY <1>2
  <2>2. \A s \in SUBSET (1..(k - 1)) :
           f[s] = IF s = {} THEN NoRows(detail) ELSE NextRow(a, b, TRUE, f[s \ {Max(s)}], list[Max(s)])
    BY <2>1 DEF DocsFrom
  <2> DEFINE g == [s \in SUBSET (1..k) |-> IF k \in s THEN NextRow(a, b, TRUE, f[s \ {k}], list[k]) ELSE f[s]]
  <2>3. \A s \in SUBSET (1..k) : g[s] = IF k \in s THEN NextRow(a, b, TRUE, f[s \ {k}], list[k]) ELSE f[s]
    OBVIOUS
  <2>4. g = [s \in SUBSET (1..k) |-> g[s]]
    OBVIOUS
  <2> HIDE DEF g
  <2>5. \A s \in SUBSET (1..(k - 1)) : g[s] = f[s]
    <3> SUFFICES ASSUME NEW s \in SUBSET (1..(k - 1)) PROVE g[s] = f[s]
      OBVIOUS
    <3>1. s \in SUBSET (1..k) /\ k \notin s
      BY <2>0
    <3> QED
      BY <2>3, <3>1
  <2>6. ASSUME NEW s \in SUBSET (1..k)
        PROVE  g[s] = IF s = {} THEN NoRows(detail) ELSE NextRow(a, b, TRUE, g[s \ {Max(s)}], list[Max(s)])
    <3>1. CASE k \in s
      <4>1. Max(s) = k /\ s \ {k} \in SUBSET (1..(k - 1))
        BY <2>0, <3>1, LastOrNot
      <4>2. g[s] = NextRow(a, b, TRUE, f[s \ {k}], list[k])
        BY <2>3, <3>1
      <4>3. g[s \ {k}] = f[s \ {k}]
        BY <2>5, <4>1
      <4> QED
        BY <3>1, <4>1, <4>2, <4>3
    <3>2. CASE k \notin s
      <4>1. s \in SUBSET (1..(k - 1))
        BY <2>0, <3>2, LastOrNot
      <4>2. s \ {Max(s)} \in SUBSET (1..(k - 1))
        BY <4>1
      <4>3. g[s] = f[s] /\ g[s \ {Max(s)}] = f[s \ {Max(s)}]
        BY <2>5, <4>1, <4>2
      <4> QED
        BY <2>2, <4>1, <4>3
    <3> QED
      BY <3>1, <3>2
  <2>7. g = DocsFrom(g, a, b, list, k, detail)
    BY <2>4, <2>6 DEF DocsFrom
  <2> QED
    BY <2>0, <2>7
<1>3. n \in good
  <2> HIDE DEF good
  <2>1. \A k \in 0..n : k \in good
    BY <1>1, <1>2, Climbs
  <2> QED
    BY <2>1
<1> QED
  BY <1>3

DocsChain(g, a, b, list, n, detail) ==
    /\ g[0] = NoRows(detail)
    /\ \A k \in 1..n : g[k] = NextRow(a, b, TRUE, g[k - 1], list[k])

LEMMA DocsClimb ==
    ASSUME NEW a, NEW b, NEW n \in Nat, DOMAIN Align_(a, b) = 1..n, NEW detail
    PROVE  \E g : DocsChain(g, a, b, Align_(a, b), n, detail) /\ DocumentOf(a, b, detail) = g[n]
<1> DEFINE list == Align_(a, b)
           f == Docs(a, b, n, detail)
           g == [k \in 0..n |-> f[1..k]]
<1>1. DocumentOf(a, b, detail) = f[1..n]
  BY DocsDef
<1>2. f = DocsFrom(f, a, b, list, n, detail)
  <2> HIDE DEF list
  <2> QED
    BY DocsExist DEF Docs, list
<1> HIDE DEF list, f
<1>3. \A s \in SUBSET (1..n) :
         f[s] = IF s = {} THEN NoRows(detail) ELSE NextRow(a, b, TRUE, f[s \ {Max(s)}], list[Max(s)])
  BY <1>2 DEF DocsFrom
<1>4. g[0] = NoRows(detail)
  <2>1. 1..0 = {} /\ 0 \in 0..n
    OBVIOUS
  <2> QED
    BY <1>3, <2>1
<1>5. ASSUME NEW k \in 1..n PROVE g[k] = NextRow(a, b, TRUE, g[k - 1], list[k])
  <2>1. k \in 0..n /\ k - 1 \in 0..n
    OBVIOUS
  <2>2. f[1..k] = NextRow(a, b, TRUE, f[1..(k - 1)], list[k])
    <3> DEFINE s == 1..k
    <3>1. s \in SUBSET (1..n) /\ s # {} /\ Max(s) = k /\ s \ {k} = 1..(k - 1)
      BY Rung
    <3> HIDE DEF s
    <3>2. f[s] = NextRow(a, b, TRUE, f[s \ {Max(s)}], list[Max(s)])
      BY <1>3, <3>1
    <3> QED
      BY <3>1, <3>2 DEF s
  <2> QED
    BY <2>1, <2>2
<1>6. g[n] = f[1..n]
  OBVIOUS
<1> HIDE DEF g
<1>7. DocsChain(g, a, b, list, n, detail)
  BY <1>4, <1>5 DEF DocsChain
<1> QED
  BY <1>1, <1>6, <1>7 DEF list

RowMadeOf(made, a, b, row, budget) ==
    /\ made.row.a = row.a /\ made.row.b = row.b /\ made.row.how = row.how
    /\ row.a = 0 \/ row.b = 0 => made.left = budget
    /\ row.a # 0 /\ row.b # 0 => /\ made.row.images = ImagesOf(a, row.a, b, row.b, budget).rows
                                 /\ made.left = ImagesOf(a, row.a, b, row.b, budget).left
                                 /\ made.row.counters = CompareCounters(a, b, a.passes[row.a], b.passes[row.b])

LEMMA ComparedIs ==
    ASSUME NEW a, NEW b, NEW row, NEW budget
    PROVE  RowMadeOf(Compared(a, b, row, TRUE, budget), a, b, row, budget)
<1> DEFINE made == Compared(a, b, row, TRUE, budget)
<1>1. CASE row.a = 0 \/ row.b = 0
  <2>1. 0 \in {row.a, row.b}
    BY <1>1
  <2>2. made = [row |-> [a |-> row.a, b |-> row.b, how |-> row.how, images |-> {}, counters |-> "not compared"],
                left |-> budget]
    BY <2>1 DEF Compared
  <2> HIDE DEF made
  <2>3. made.row.a = row.a /\ made.row.b = row.b /\ made.row.how = row.how /\ made.left = budget
    BY <2>2
  <2> QED
    BY <1>1, <2>3 DEF RowMadeOf, made
<1>2. CASE row.a # 0 /\ row.b # 0
  <2> DEFINE one == a.passes[row.a]
             two == b.passes[row.b]
             images == ImagesOf(a, row.a, b, row.b, budget)
             changes == StructureChanges(a, b, one, two)
             state == StateChanges(a, b, one, two)
             shaders == CompareShaders(a, b, one, two)
             blocks == CompareCbuffers(a, b, one, two)
             costs == CompareCounters(a, b, one, two)
  <2>1. 0 \notin {row.a, row.b}
    BY <1>2
  <2>2. made = [row |-> [a |-> row.a, b |-> row.b, how |-> row.how, changes |-> changes, state |-> state,
                         shaders |-> shaders, blocks |-> blocks, counters |-> costs, images |-> images.rows],
                left |-> images.left]
    BY <2>1 DEF Compared, ImagesOf
  <2> HIDE DEF made, images, changes, state, shaders, blocks, costs
  <2>3. /\ made.row.a = row.a /\ made.row.b = row.b /\ made.row.how = row.how
        /\ made.row.images = images.rows /\ made.left = images.left /\ made.row.counters = costs
    BY <2>2
  <2> QED
    BY <1>2, <2>3 DEF RowMadeOf, made, images, costs
<1> QED
  BY <1>1, <1>2

\* What a row of both sides rests on.
RowHolds(row, a, b, left_) ==
    /\ \A image \in row.images : /\ SaysIdentical(image, a, row.a, b, row.b)
                                 /\ image.verdict = "different" /\ ~image.decoded => left_ = 0
    /\ row.counters # "not compared" <=> IsMeasured(a, row.a) /\ IsMeasured(b, row.b)
DocHolds(acc, a, b, list, k, detail) ==
    /\ IsList(acc.rows) /\ Len(acc.rows) = k /\ acc.left \in Nat /\ acc.left <= detail
    /\ \A i \in 1..k : acc.rows[i].a = list[i].a /\ acc.rows[i].b = list[i].b /\ acc.rows[i].how = list[i].how
    /\ \A i \in InBoth(acc.rows) : RowHolds(acc.rows[i], a, b, acc.left)
    /\ IsFiniteSet(Decoded(acc.rows)) /\ Cardinality(Decoded(acc.rows)) = detail - acc.left
    /\ \A x \in Decoded(acc.rows) : x[1] \in 1..k

\* A side as the comparison reads it.
SideHolds(side, n, N) ==
    /\ Spans(side.passes, n, N) /\ Imaged(side.bundle.events, n) /\ Timed(side.bundle.events, n)
    /\ DOMAIN side.bundle.events = 1..n

RowSpends(made, a, b, budget) ==
    /\ made.left \in Nat /\ made.left <= budget /\ RowHolds(made.row, a, b, made.left)
    /\ IsFiniteSet(DecodedIn(made.row)) /\ Cardinality(DecodedIn(made.row)) = budget - made.left

LEMMA RowMade ==
    ASSUME NEW a, NEW m, NEW M, SideHolds(a, m, M), NEW b, NEW n, NEW N, SideHolds(b, n, N),
           NEW row, row.a \in 1..M, row.b \in 1..N, NEW budget \in Nat
    PROVE  RowSpends(Compared(a, b, row, TRUE, budget), a, b, budget)
<1> DEFINE made == Compared(a, b, row, TRUE, budget)
           p == row.a
           q == row.b
           seen == ImagesOf(a, p, b, q, budget)
           r == made.row
<1>0. p \in 1..M /\ q \in 1..N /\ p # 0 /\ q # 0
  OBVIOUS
<1>1. /\ r.a = p /\ r.b = q /\ r.images = seen.rows /\ made.left = seen.left
      /\ r.counters = CompareCounters(a, b, a.passes[p], b.passes[q])
  <2>1. RowMadeOf(made, a, b, row, budget)
    BY ComparedIs
  <2> HIDE DEF made
  <2> QED
    BY <1>0, <2>1 DEF RowMadeOf
<1> HIDE DEF made, p, q, seen, r
<1>2. PicturesHold(seen, a, p, b, q, budget)
  BY <1>0, PicturesAre DEF SideHolds, seen
<1>3. r.counters # "not compared" <=> IsMeasured(a, p) /\ IsMeasured(b, q)
  <2>1. CompareCounters(a, b, a.passes[p], b.passes[q]) # "not compared" <=> IsMeasured(a, p) /\ IsMeasured(b, q)
    BY <1>0, CountersAre DEF SideHolds
  <2> QED
    BY <1>1, <2>1
<1>4. RowHolds(r, a, b, made.left)
  BY <1>1, <1>2, <1>3 DEF PicturesHold, RowHolds
<1>5. DecodedIn(r) = SlotsDecoded(seen.rows)
  BY <1>1 DEF DecodedIn, SlotsDecoded
<1>6. made.left \in Nat /\ made.left <= budget
  BY <1>1, <1>2 DEF PicturesHold
<1>7. IsFiniteSet(DecodedIn(r)) /\ Cardinality(DecodedIn(r)) = budget - made.left
  BY <1>1, <1>2, <1>5 DEF PicturesHold
<1> QED
  BY <1>4, <1>6, <1>7 DEF RowSpends, made, r

LEMMA ColumnIs ==
    ASSUME NEW k, NEW T, IsFiniteSet(T)
    PROVE  /\ IsFiniteSet({k} \X T) /\ Cardinality({k} \X T) = Cardinality(T)
           /\ \A x \in {k} \X T : x[1] = k
<1>1. IsFiniteSet({k}) /\ Cardinality({k}) = 1
  BY FS_Singleton
<1>2. Cardinality(T) \in Nat
  BY FS_CardinalityType
<1>3. IsFiniteSet({k} \X T) /\ Cardinality({k} \X T) = Cardinality({k}) * Cardinality(T)
  BY <1>1, FS_Product
<1> QED
  BY <1>1, <1>2, <1>3

ColumnOf(k, row) == IF row.a # 0 /\ row.b # 0 THEN {k} \X DecodedIn(row) ELSE {}

LEMMA DecodedJoins ==
    ASSUME NEW rows, IsList(rows), NEW k \in Nat, Len(rows) = k - 1, NEW row
    PROVE  Decoded(Append(rows, row)) = Decoded(rows) \cup ColumnOf(k, row)
<1> DEFINE to == Append(rows, row)
           C(t, i) == {i} \X DecodedIn(t[i])
<1>1. /\ IsList(to) /\ Len(to) = k /\ to[k] = row /\ \A i \in 1..(k - 1) : to[i] = rows[i]
  <2>1. Len(rows) + 1 = k
    OBVIOUS
  <2> QED
    BY <2>1, ListGrows
<1>2. DOMAIN rows = 1..(k - 1) /\ DOMAIN to = 1..k
  BY <1>1, ListHas
<1> HIDE DEF to
<1>3. \A i \in 1..(k - 1) : i \in InBoth(to) <=> i \in InBoth(rows)
  BY <1>1, <1>2 DEF InBoth
<1>4. k \in InBoth(to) <=> row.a # 0 /\ row.b # 0
  BY <1>1, <1>2 DEF InBoth
<1>5. \A i \in InBoth(to) : i \in 1..(k - 1) \/ i = k
  BY <1>2 DEF InBoth
<1>6. \A i \in InBoth(rows) : i \in 1..(k - 1)
  BY <1>2 DEF InBoth
<1>7. \A i \in 1..(k - 1) : C(to, i) = C(rows, i)
  BY <1>1
<1>8. C(to, k) = {k} \X DecodedIn(row)
  BY <1>1
<1>9. Decoded(to) = UNION {C(to, i) : i \in InBoth(to)} /\ Decoded(rows) = UNION {C(rows, i) : i \in InBoth(rows)}
  BY DEF Decoded
<1> HIDE DEF C
<1>10. \A x : x \in Decoded(to) <=> \E i \in InBoth(to) : x \in C(to, i)
  BY <1>9
<1>11. \A x : x \in Decoded(rows) <=> \E i \in InBoth(rows) : x \in C(rows, i)
  BY <1>9
<1>12. \A x : x \in ColumnOf(k, row) <=> k \in InBoth(to) /\ x \in C(to, k)
  BY <1>4, <1>8 DEF ColumnOf
<1>13. \A x : x \in Decoded(to) <=> x \in Decoded(rows) \/ x \in ColumnOf(k, row)
  BY <1>3, <1>5, <1>6, <1>7, <1>10, <1>11, <1>12
<1> QED
  BY <1>13 DEF to

LEMMA DocGrows ==
    ASSUME NEW a, NEW m, NEW M, SideHolds(a, m, M), NEW b, NEW n, NEW N, SideHolds(b, n, N),
           NEW list, NEW P, RowsPair(list, P, M, N), NEW detail \in Nat, NEW k \in 1..Len(list),
           NEW acc, DocHolds(acc, a, b, list, k - 1, detail)
    PROVE  DocHolds(NextRow(a, b, TRUE, acc, list[k]), a, b, list, k, detail)
<1> DEFINE line == list[k]
           made == Compared(a, b, line, TRUE, acc.left)
           to == NextRow(a, b, TRUE, acc, line)
           row == made.row
           old == acc.rows
           column == ColumnOf(k, row)
<1>0. /\ k \in Nat /\ k - 1 \in Nat /\ line.a \in 0..M /\ line.b \in 0..N
      /\ M \in Nat /\ N \in Nat
  BY DEF RowsPair, SideHolds, Spans
<1>1. /\ IsList(old) /\ Len(old) = k - 1 /\ acc.left \in Nat /\ acc.left <= detail
      /\ \A i \in 1..(k - 1) : old[i].a = list[i].a /\ old[i].b = list[i].b /\ old[i].how = list[i].how
      /\ \A i \in InBoth(old) : RowHolds(old[i], a, b, acc.left)
      /\ IsFiniteSet(Decoded(old)) /\ Cardinality(Decoded(old)) = detail - acc.left
      /\ \A x \in Decoded(old) : x[1] \in 1..(k - 1)
  BY DEF DocHolds
<1>2. RowMadeOf(made, a, b, line, acc.left)
  BY ComparedIs
<1>3. row.a = line.a /\ row.b = line.b /\ row.how = line.how
  BY <1>2 DEF RowMadeOf
<1>4. to.rows = Append(old, row) /\ to.left = made.left
  <2> HIDE DEF line
  <2> QED
    BY DEF NextRow
<1> DEFINE both == line.a # 0 /\ line.b # 0
<1>5. ASSUME both
      PROVE  /\ made.left \in Nat /\ made.left <= acc.left /\ RowHolds(row, a, b, made.left)
             /\ IsFiniteSet(DecodedIn(row)) /\ Cardinality(DecodedIn(row)) = acc.left - made.left
  <2>1. line.a \in 1..M /\ line.b \in 1..N
    BY <1>0, <1>5
  <2> DEFINE budget == acc.left
  <2>2. budget \in Nat
    BY <1>1
  <2> HIDE DEF line, budget
  <2>3. RowSpends(made, a, b, budget)
    BY <2>1, <2>2, RowMade DEF budget
  <2> HIDE DEF made
  <2> QED
    BY <2>3 DEF RowSpends, budget
<1>6. ASSUME ~both PROVE made.left = acc.left
  BY <1>2, <1>6 DEF RowMadeOf
<1>7. made.left \in Nat /\ made.left <= acc.left /\ made.left <= detail /\ (acc.left = 0 => made.left = 0)
  <2> HIDE DEF both, made
  <2> QED
    BY <1>1, <1>5, <1>6
<1>8. column = IF both THEN {k} \X DecodedIn(row) ELSE {}
  BY <1>3 DEF ColumnOf
<1> HIDE DEF made, to, row, old, line, column, both
<1>9. IsFiniteSet(column) /\ Cardinality(column) = acc.left - made.left /\ \A x \in column : x[1] = k
  <2>1. CASE both
    BY <1>5, <1>8, <2>1, ColumnIs
  <2>2. CASE ~both
    BY <1>1, <1>6, <1>8, <2>2, FS_EmptySet
  <2> QED
    BY <2>1, <2>2
<1>10. Decoded(to.rows) = Decoded(old) \cup column
  BY <1>0, <1>1, <1>4, DecodedJoins DEF column
<1>11. Decoded(old) \cap column = {}
  BY <1>0, <1>1, <1>9
<1>12. IsFiniteSet(Decoded(to.rows)) /\ Cardinality(Decoded(to.rows)) = detail - to.left
  <2>1. /\ IsFiniteSet(Decoded(old) \cup column)
        /\ Cardinality(Decoded(old) \cup column) =
             Cardinality(Decoded(old)) + Cardinality(column) - Cardinality(Decoded(old) \cap column)
    BY <1>1, <1>9, FS_Union
  <2>2. Cardinality(Decoded(old) \cap column) = 0
    BY <1>11, FS_EmptySet
  <2> QED
    BY <1>1, <1>4, <1>7, <1>9, <1>10, <2>1, <2>2
<1>13. \A x \in Decoded(to.rows) : x[1] \in 1..k
  BY <1>0, <1>1, <1>9, <1>10
<1>14. /\ IsList(to.rows) /\ Len(to.rows) = k /\ to.rows[k] = row /\ \A i \in 1..(k - 1) : to.rows[i] = old[i]
  <2>1. Len(old) + 1 = k
    BY <1>0, <1>1
  <2> QED
    BY <1>1, <1>4, <2>1, ListGrows
<1>15. \A i \in 1..k : i \in 1..(k - 1) \/ i = k
  BY <1>0
<1>16. \A i \in 1..k : to.rows[i].a = list[i].a /\ to.rows[i].b = list[i].b /\ to.rows[i].how = list[i].how
  <2>1. \A i \in 1..(k - 1) : to.rows[i].a = list[i].a /\ to.rows[i].b = list[i].b /\ to.rows[i].how = list[i].how
    BY <1>1, <1>14
  <2>2. to.rows[k].a = list[k].a /\ to.rows[k].b = list[k].b /\ to.rows[k].how = list[k].how
    BY <1>3, <1>14 DEF line
  <2> HIDE DEF to
  <2> QED
    BY <1>15, <2>1, <2>2
<1>17. ASSUME NEW i \in InBoth(to.rows) PROVE RowHolds(to.rows[i], a, b, to.left)
  <2>1. i \in 1..k /\ to.rows[i].a # 0 /\ to.rows[i].b # 0
    BY <1>14, ListHas DEF InBoth
  <2>2. CASE i = k
    BY <1>3, <1>4, <1>5, <1>14, <2>1, <2>2 DEF both
  <2>3. CASE i \in 1..(k - 1)
    <3>1. i \in InBoth(old) /\ to.rows[i] = old[i]
      BY <1>1, <1>14, <2>1, <2>3, ListHas DEF InBoth
    <3>2. RowHolds(old[i], a, b, acc.left)
      BY <1>1, <3>1
    <3> QED
      BY <1>4, <1>7, <3>1, <3>2 DEF RowHolds
  <2> QED
    BY <1>15, <2>1, <2>2, <2>3
<1>18. DocHolds(to, a, b, list, k, detail)
  BY <1>4, <1>7, <1>12, <1>13, <1>14, <1>16, <1>17 DEF DocHolds
<1> QED
  BY <1>18 DEF to, line

LEMMA DocumentIs ==
    ASSUME NEW a, NEW m, NEW M, SideHolds(a, m, M), NEW b, NEW n, NEW N, SideHolds(b, n, N),
           NEW P, RowsPair(Align_(a, b), P, M, N), NEW detail \in Nat
    PROVE  DocHolds(DocumentOf(a, b, detail), a, b, Align_(a, b), Len(Align_(a, b)), detail)
<1> DEFINE list == Align_(a, b)
           K == Len(list)
<1>0. K \in Nat /\ DOMAIN list = 1..K
  BY DEF RowsPair
<1>1. PICK g : DocsChain(g, a, b, list, K, detail) /\ DocumentOf(a, b, detail) = g[K]
  <2>1. K \in Nat /\ DOMAIN Align_(a, b) = 1..K
    BY <1>0
  <2> HIDE DEF K
  <2> QED
    BY <2>1, DocsClimb
<1> DEFINE good == {k \in 0..K : DocHolds(g[k], a, b, list, k, detail)}
<1> HIDE DEF list, K
<1>2. g[0] = NoRows(detail) /\ \A k \in 1..K : g[k] = NextRow(a, b, TRUE, g[k - 1], list[k])
  BY <1>1 DEF DocsChain
<1>3. 0 \in good
  <2> DEFINE none == NoRows(detail)
  <2>1. none.rows = <<>> /\ none.left = detail
    BY DEF NoRows
  <2>2. IsList(<<>>) /\ Len(<<>>) = 0 /\ 1..0 = {}
    <3>1. <<>> \in Seq({})
      OBVIOUS
    <3>2. IsList(<<>>)
      BY <3>1, ListIs
    <3> QED
      BY <3>2
  <2>3. DOMAIN <<>> = {}
    OBVIOUS
  <2>4. InBoth(<<>>) = {}
    BY <2>3 DEF InBoth
  <2>5. Decoded(<<>>) = {}
    BY <2>4 DEF Decoded
  <2>6. IsFiniteSet({}) /\ Cardinality({}) = 0
    BY FS_EmptySet
  <2> HIDE DEF none
  <2>7. InBoth(none.rows) = {} /\ Decoded(none.rows) = {} /\ IsList(none.rows) /\ Len(none.rows) = 0
    BY <2>1, <2>2, <2>4, <2>5
  <2>8. none.left \in Nat /\ none.left <= detail /\ detail - none.left = 0
    BY <2>1
  <2>9. DocHolds(none, a, b, list, 0, detail)
    BY <2>2, <2>6, <2>7, <2>8 DEF DocHolds
  <2> QED
    BY <1>0, <1>2, <2>9 DEF none
<1>4. ASSUME NEW k \in (0 + 1)..K, k - 1 \in good PROVE k \in good
  <2>1. k \in 1..K /\ k \in 0..K
    BY <1>0
  <2> DEFINE acc == g[k - 1]
  <2>2. DocHolds(acc, a, b, list, k - 1, detail) /\ RowsPair(list, P, M, N) /\ k \in 1..Len(list)
    BY <1>4, <2>1 DEF list, K
  <2> HIDE DEF acc
  <2>3. DocHolds(NextRow(a, b, TRUE, acc, list[k]), a, b, list, k, detail)
    BY <2>2, DocGrows
  <2> QED
    BY <1>2, <2>1, <2>3 DEF acc
<1>5. K \in good
  <2> HIDE DEF good
  <2>1. \A k \in 0..K : k \in good
    BY <1>0, <1>3, <1>4, Climbs
  <2> QED
    BY <1>0, <2>1
<1> QED
  BY <1>1, <1>5 DEF list, K

(***************************************************************************)
(* `PairVerdictsHaveEvidence`, part by part.                               *)
(***************************************************************************)
RowsOnLeft(rows, side, i) == {k \in DOMAIN rows : rows[k].a # 0 /\ i \in EventsIn(side, rows[k].a)}
RowsOnRight(rows, side, j) == {k \in DOMAIN rows : rows[k].b # 0 /\ j \in EventsIn(side, rows[k].b)}

\* The document's rows name the passes the list does.
Mirrors(rows, list) ==
    DOMAIN rows = DOMAIN list /\ \A k \in DOMAIN rows : rows[k].a = list[k].a /\ rows[k].b = list[k].b

LEMMA OnlyRow ==
    ASSUME NEW rows, NEW k \in DOMAIN rows, NEW Q, Q \in SUBSET DOMAIN rows, \A l \in DOMAIN rows : l \in Q <=> l = k
    PROVE  Cardinality(Q) = 1
<1>1. Q = {k}
  OBVIOUS
<1> QED
  BY <1>1, FS_Singleton

LEMMA LeftEvents ==
    ASSUME NEW side, NEW m, NEW M, SideHolds(side, m, M), NEW list, NEW P, NEW N, RowsPair(list, P, M, N),
           NEW rows, Mirrors(rows, list), NEW i \in 1..m
    PROVE  Cardinality(RowsOnLeft(rows, side, i)) = 1
<1>1. PICK p \in 1..M : \A q \in 1..M : i \in side.passes[q].first..side.passes[q].last <=> q = p
  BY OnePassEach DEF SideHolds
<1>2. PICK k \in DOMAIN list : \A l \in DOMAIN list : list[l].a = p <=> l = k
  BY DEF RowsPair
<1>3. M \in Nat /\ \A l \in DOMAIN list : list[l].a \in 0..M
  BY DEF RowsPair, SideHolds, Spans
<1>4. ASSUME NEW l \in DOMAIN rows PROVE l \in RowsOnLeft(rows, side, i) <=> l = k
  <2>1. l \in DOMAIN list /\ rows[l].a = list[l].a
    BY DEF Mirrors
  <2>2. l \in RowsOnLeft(rows, side, i) <=> list[l].a # 0 /\ i \in EventsIn(side, list[l].a)
    BY <2>1 DEF RowsOnLeft
  <2>3. list[l].a # 0 => list[l].a \in 1..M
    BY <1>3, <2>1
  <2>4. list[l].a # 0 => (i \in EventsIn(side, list[l].a) <=> list[l].a = p)
    BY <1>1, <2>3 DEF EventsIn
  <2>5. p # 0
    BY <1>3
  <2> QED
    BY <1>2, <2>1, <2>2, <2>4, <2>5
<1>5. k \in DOMAIN rows /\ RowsOnLeft(rows, side, i) \in SUBSET DOMAIN rows
  BY DEF Mirrors, RowsOnLeft
<1> QED
  BY <1>4, <1>5, OnlyRow

LEMMA RightEvents ==
    ASSUME NEW side, NEW n, NEW N, SideHolds(side, n, N), NEW list, NEW P, NEW M, RowsPair(list, P, M, N),
           NEW rows, Mirrors(rows, list), NEW j \in 1..n
    PROVE  Cardinality(RowsOnRight(rows, side, j)) = 1
<1>1. PICK p \in 1..N : \A q \in 1..N : j \in side.passes[q].first..side.passes[q].last <=> q = p
  BY OnePassEach DEF SideHolds
<1>2. PICK k \in DOMAIN list : \A l \in DOMAIN list : list[l].b = p <=> l = k
  BY DEF RowsPair
<1>3. N \in Nat /\ \A l \in DOMAIN list : list[l].b \in 0..N
  BY DEF RowsPair, SideHolds, Spans
<1>4. ASSUME NEW l \in DOMAIN rows PROVE l \in RowsOnRight(rows, side, j) <=> l = k
  <2>1. l \in DOMAIN list /\ rows[l].b = list[l].b
    BY DEF Mirrors
  <2>2. l \in RowsOnRight(rows, side, j) <=> list[l].b # 0 /\ j \in EventsIn(side, list[l].b)
    BY <2>1 DEF RowsOnRight
  <2>3. list[l].b # 0 => list[l].b \in 1..N
    BY <1>3, <2>1
  <2>4. list[l].b # 0 => (j \in EventsIn(side, list[l].b) <=> list[l].b = p)
    BY <1>1, <2>3 DEF EventsIn
  <2>5. p # 0
    BY <1>3
  <2> QED
    BY <1>2, <2>1, <2>2, <2>4, <2>5
<1>5. k \in DOMAIN rows /\ RowsOnRight(rows, side, j) \in SUBSET DOMAIN rows
  BY DEF Mirrors, RowsOnRight
<1> QED
  BY <1>4, <1>5, OnlyRow

LEMMA PairsOf ==
    ASSUME NEW a, NEW m, NEW M, SideHolds(a, m, M), NEW b, NEW n, NEW N, SideHolds(b, n, N)
    PROVE  RowsPair(Align_(a, b), Aligned(a, b), M, N)
<1> DEFINE P == Aligned(a, b)
           only == NewOf(a, b)
           rows == Align_(a, b)
<1>1. P \in SUBSET Couples(M, N) /\ Exclusive(P)
  BY AlignedAre DEF SideHolds
<1>2. PairsLaid(rows, P, M, only) /\ NewAre(only, P, N)
  BY PairsAreLaid DEF SideHolds
<1>3. M \in Nat /\ N \in Nat
  BY DEF SideHolds, Spans
<1> HIDE DEF P, only, rows
<1>4. RowsPair(rows, P, M, N)
  BY <1>1, <1>2, <1>3, LaidPairs
<1> QED
  BY <1>4 DEF P, rows

LEMMA EvidenceIs ==
    ASSUME NEW a, NEW m, NEW M, SideHolds(a, m, M), NEW b, NEW n, NEW N, SideHolds(b, n, N), ImageDetail \in Nat
    PROVE  Evidenced(a, b, DocumentOf(a, b, ImageDetail))
<1> DEFINE document == DocumentOf(a, b, ImageDetail)
           rows == document.rows
           list == Align_(a, b)
           P == Aligned(a, b)
<1>1. RowsPair(list, P, M, N)
  BY PairsOf
<1>2. DocHolds(document, a, b, list, Len(list), ImageDetail)
  BY <1>1, DocumentIs
<1>3. \A p \in P : p.how = "order" => ~IsMarked(a, p.a) /\ ~IsMarked(b, p.b)
  BY AlignedAre DEF SideHolds
<1> HIDE DEF document, list, P
<1>4. /\ IsList(rows) /\ Len(rows) = Len(list) /\ document.left \in Nat /\ document.left <= ImageDetail
      /\ \A i \in 1..Len(list) : rows[i].a = list[i].a /\ rows[i].b = list[i].b /\ rows[i].how = list[i].how
      /\ \A i \in InBoth(rows) : RowHolds(rows[i], a, b, document.left)
      /\ Cardinality(Decoded(rows)) = ImageDetail - document.left
  BY <1>2 DEF DocHolds
<1>5. DOMAIN rows = 1..Len(list) /\ DOMAIN list = 1..Len(list)
  BY <1>1, <1>4, ListHas DEF RowsPair
<1> HIDE DEF rows
<1>6. Mirrors(rows, list)
  BY <1>4, <1>5 DEF Mirrors
<1>7. DOMAIN a.bundle.events = 1..m /\ DOMAIN b.bundle.events = 1..n
  BY DEF SideHolds
<1>8. \A i \in DOMAIN a.bundle.events : Cardinality(RowsOnLeft(rows, a, i)) = 1
  BY <1>1, <1>6, <1>7, LeftEvents
<1>9. \A j \in DOMAIN b.bundle.events : Cardinality(RowsOnRight(rows, b, j)) = 1
  BY <1>1, <1>6, <1>7, RightEvents
<1>10. ASSUME NEW k \in InBoth(rows), rows[k].how = "order"
       PROVE  ~IsMarked(a, rows[k].a) /\ ~IsMarked(b, rows[k].b)
  <2>1. k \in 1..Len(list) /\ rows[k].a # 0 /\ rows[k].b # 0
    BY <1>5 DEF InBoth
  <2>2. list[k] \in P
    BY <1>1, <1>4, <1>5, <2>1 DEF RowsPair
  <2> QED
    BY <1>3, <1>4, <1>10, <2>1, <2>2
<1>11. ASSUME NEW k \in InBoth(rows), NEW image \in rows[k].images
       PROVE  /\ Pictured(a, rows[k].a, image.slot) # Pictured(b, rows[k].b, image.slot) <=> image.verdict # "identical"
              /\ image.verdict = "different" /\ ~image.decoded => Cardinality(Decoded(rows)) = ImageDetail
  <2>1. RowHolds(rows[k], a, b, document.left)
    BY <1>4
  <2>2. SaysIdentical(image, a, rows[k].a, b, rows[k].b)
    BY <2>1 DEF RowHolds
  <2>3. image.verdict = "different" /\ ~image.decoded => document.left = 0
    BY <2>1 DEF RowHolds
  <2>4. document.left = 0 => Cardinality(Decoded(rows)) = ImageDetail
    BY <1>4
  <2> QED
    BY <2>2, <2>3, <2>4 DEF SaysIdentical
<1>12. \A k \in InBoth(rows) : rows[k].counters # "not compared" <=> IsMeasured(a, rows[k].a) /\ IsMeasured(b, rows[k].b)
  BY <1>4 DEF RowHolds
<1>13. Evidenced(a, b, document)
  BY <1>4, <1>8, <1>9, <1>10, <1>11, <1>12 DEF Evidenced, RowsOnLeft, RowsOnRight, rows
<1> QED
  BY <1>13 DEF document

(* A bundle against itself: every row a pass with itself, nothing differing. *)
AllSame(row) ==
    /\ row.a = row.b /\ row.changes = {}
    /\ row.state = [removed |-> {}, added |-> {}, depth |-> FALSE]
    /\ \A image \in row.images : image.verdict = "identical"
    /\ \A s \in DOMAIN row.shaders : row.shaders[s] \in {"same", "no hash"}
    /\ \A block \in Range(row.blocks) : block.values = {} /\ block.only = ""
    /\ row.counters \in {"same", "not compared"}

NoState == [removed |-> {}, added |-> {}, depth |-> FALSE]

LEMMA NothingChanged ==
    ASSUME NEW a, NEW one
    PROVE  /\ StructureChanges(a, a, one, one) = {}
           /\ StateChanges(a, a, one, one) = NoState
           /\ CompareCounters(a, a, one, one) \in {"same", "not compared"}
<1>1. StructureChanges(a, a, one, one) = {}
  BY DEF StructureChanges
<1>2. DepthChange(a, a, one, one) = FALSE
  BY DEF DepthChange
<1>3. StateRows(a, one) \ StateRows(a, one) = {}
  OBVIOUS
<1>4. StateChanges(a, a, one, one) = NoState
  BY <1>2, <1>3 DEF StateChanges, NoState
<1>5. CompareCounters(a, a, one, one) \in {"same", "not compared"}
  BY DEF CompareCounters
<1> QED
  BY <1>1, <1>4, <1>5

LEMMA SameShaders ==
    ASSUME NEW a, NEW one, NEW s \in DOMAIN CompareShaders(a, a, one, one)
    PROVE  CompareShaders(a, a, one, one)[s] \in {"same", "no hash"}
<1> DEFINE D == Stages(a, one)
<1>1. s \in DOMAIN D
  BY DEF CompareShaders
<1>2. CompareShaders(a, a, one, one)[s] = IF "" \in {D[s].hash, D[s].hash} THEN "no hash" ELSE "same"
  BY <1>1 DEF CompareShaders
<1> QED
  BY <1>2

LEMMA SameBlocks ==
    ASSUME NEW a, NEW one, NEW block \in Range(CompareCbuffers(a, a, one, one))
    PROVE  block.values = {} /\ block.only = ""
<1> DEFINE B == ConstantBlocks(a, one)
           members(key) == IF key \in DOMAIN B THEN B[key] ELSE <<>>
           value(rows, m) == IF m \in DOMAIN rows THEN rows[m] ELSE ""
           made(key) == [only |-> IF key \notin DOMAIN B THEN "A" ELSE IF key \notin DOMAIN B THEN "B" ELSE "",
                         values |-> {m \in DOMAIN members(key) \cup DOMAIN members(key) :
                                       value(members(key), m) # value(members(key), m)}]
<1>1. CompareCbuffers(a, a, one, one) = [key \in DOMAIN B \cup DOMAIN B |-> made(key)]
  BY DEF CompareCbuffers
<1>2. PICK key \in DOMAIN B : block = made(key)
  <2> HIDE DEF made, B
  <2> QED
    BY <1>1 DEF Range
<1>3. made(key).values = {} /\ made(key).only = ""
  OBVIOUS
<1> QED
  BY <1>2, <1>3

LEMMA SelfMade ==
    ASSUME NEW a, NEW m, NEW M, SideHolds(a, m, M), NEW row, row.a = row.b, row.a \in 1..M, NEW budget \in Nat
    PROVE  AllSame(Compared(a, a, row, TRUE, budget).row)
<1> DEFINE one == a.passes[row.a]
           images == ImagesOf(a, row.a, a, row.a, budget)
           changes == StructureChanges(a, a, one, one)
           state == StateChanges(a, a, one, one)
           shaders == CompareShaders(a, a, one, one)
           blocks == CompareCbuffers(a, a, one, one)
           costs == CompareCounters(a, a, one, one)
           made == Compared(a, a, row, TRUE, budget)
           r == made.row
<1>1. 0 \notin {row.a, row.b}
  OBVIOUS
<1>2. made = [row |-> [a |-> row.a, b |-> row.b, how |-> row.how, changes |-> changes, state |-> state,
                       shaders |-> shaders, blocks |-> blocks, counters |-> costs, images |-> images.rows],
              left |-> images.left]
  BY <1>1 DEF Compared, ImagesOf
<1>3. changes = {} /\ state = NoState /\ costs \in {"same", "not compared"}
  BY NothingChanged
<1>4. /\ \A s \in DOMAIN shaders : shaders[s] \in {"same", "no hash"}
      /\ \A block \in Range(blocks) : block.values = {} /\ block.only = ""
  <2> HIDE DEF one
  <2>1. \A s \in DOMAIN shaders : shaders[s] \in {"same", "no hash"}
    BY SameShaders
  <2>2. \A block \in Range(blocks) : block.values = {} /\ block.only = ""
    <3> SUFFICES ASSUME NEW block \in Range(blocks) PROVE block.values = {} /\ block.only = ""
      OBVIOUS
    <3> QED
      BY SameBlocks
  <2> QED
    BY <2>1, <2>2
<1>5. \A image \in images.rows : image.verdict = "identical"
  <2>1. PicturesHold(images, a, row.a, a, row.a, budget)
    BY PicturesAre DEF SideHolds
  <2> HIDE DEF images
  <2> QED
    BY <2>1 DEF PicturesHold, SaysIdentical
<1> HIDE DEF made, images, changes, state, shaders, blocks, costs
<1>6. /\ r.a = row.a /\ r.b = row.b /\ r.changes = changes /\ r.state = state /\ r.shaders = shaders
      /\ r.blocks = blocks /\ r.counters = costs /\ r.images = images.rows
  BY <1>2
<1> HIDE DEF r
<1>7. AllSame(r)
  BY <1>3, <1>4, <1>5, <1>6 DEF AllSame, NoState
<1> QED
  BY <1>7 DEF r, made

AllSameTo(acc, k) ==
    IsList(acc.rows) /\ Len(acc.rows) = k /\ acc.left \in Nat /\ \A i \in 1..k : AllSame(acc.rows[i])

LEMMA SelfGrows ==
    ASSUME NEW a, NEW m, NEW M, SideHolds(a, m, M), NEW row, row.a = row.b, row.a \in 1..M,
           NEW k \in Nat \ {0}, NEW acc, AllSameTo(acc, k - 1)
    PROVE  AllSameTo(NextRow(a, a, TRUE, acc, row), k)
<1> DEFINE budget == acc.left
           made == Compared(a, a, row, TRUE, budget)
           to == NextRow(a, a, TRUE, acc, row)
           line == made.row
           old == acc.rows
<1>1. budget \in Nat /\ IsList(old) /\ Len(old) = k - 1 /\ \A i \in 1..(k - 1) : AllSame(old[i])
  BY DEF AllSameTo
<1>2. row.a \in 1..M /\ row.b \in 1..M
  OBVIOUS
<1>3. AllSame(line)
  <2> HIDE DEF budget
  <2> QED
    BY <1>1, SelfMade
<1>4. made.left \in Nat
  <2> HIDE DEF budget
  <2>1. RowSpends(made, a, a, budget)
    BY <1>1, <1>2, RowMade
  <2> HIDE DEF made
  <2> QED
    BY <2>1 DEF RowSpends
<1>5. to.rows = Append(old, line) /\ to.left = made.left
  BY DEF NextRow
<1> HIDE DEF budget, made, to, line, old
<1>6. Len(old) + 1 = k
  BY <1>1
<1>7. IsList(to.rows) /\ Len(to.rows) = k /\ to.rows[k] = line /\ \A i \in 1..(k - 1) : to.rows[i] = old[i]
  BY <1>1, <1>5, <1>6, ListGrows
<1>8. ASSUME NEW i \in 1..k PROVE AllSame(to.rows[i])
  <2>1. CASE i = k
    BY <1>3, <1>7, <2>1
  <2>2. CASE i # k
    <3>1. i \in 1..(k - 1)
      BY <2>2
    <3> QED
      BY <1>1, <1>7, <3>1
  <2> QED
    BY <2>1, <2>2
<1>9. AllSameTo(to, k)
  BY <1>4, <1>5, <1>7, <1>8 DEF AllSameTo
<1> QED
  BY <1>9 DEF to

LEMMA SelfList ==
    ASSUME NEW a, NEW m, NEW M, SideHolds(a, m, M)
    PROVE  \A k \in DOMAIN Align_(a, a) : Align_(a, a)[k].a = Align_(a, a)[k].b /\ Align_(a, a)[k].a \in 1..M
<1> DEFINE P == Aligned(a, a)
           only == NewOf(a, a)
           rows == Align_(a, a)
<1>1. P \in SUBSET Couples(M, M)
  BY AlignedAre DEF SideHolds
<1>2. PairsLaid(rows, P, M, only) /\ NewAre(only, P, M)
  BY PairsAreLaid DEF SideHolds
<1>3. M \in Nat
  BY DEF SideHolds, Spans
<1>4. Same_(P) /\ \A i \in 1..M : \E p \in P : p.a = i
  BY AlignedSelf DEF SideHolds
<1> HIDE DEF P, only, rows
<1>5. \A k \in DOMAIN rows : rows[k].a = rows[k].b /\ rows[k].a \in 1..M
  BY <1>1, <1>2, <1>3, <1>4, SelfRows
<1> QED
  BY <1>5 DEF rows

LEMMA SelfDocument ==
    ASSUME NEW a, NEW m, NEW M, SideHolds(a, m, M), NEW detail \in Nat
    PROVE  SameThroughout(DocumentOf(a, a, detail).rows)
<1> DEFINE list == Align_(a, a)
           K == Len(list)
           rows == DocumentOf(a, a, detail).rows
<1>1. RowsPair(list, Aligned(a, a), M, M)
  BY PairsOf
<1>2. K \in Nat /\ DOMAIN list = 1..K
  BY <1>1 DEF RowsPair
<1>3. PICK g : DocsChain(g, a, a, list, K, detail) /\ DocumentOf(a, a, detail) = g[K]
  <2>1. K \in Nat /\ DOMAIN Align_(a, a) = 1..K
    BY <1>2
  <2> HIDE DEF K
  <2> QED
    BY <2>1, DocsClimb
<1>4. \A k \in DOMAIN list : list[k].a = list[k].b /\ list[k].a \in 1..M
  BY SelfList
<1> DEFINE good == {k \in 0..K : AllSameTo(g[k], k)}
<1> HIDE DEF list, K
<1>5. g[0] = NoRows(detail) /\ \A k \in 1..K : g[k] = NextRow(a, a, TRUE, g[k - 1], list[k])
  BY <1>3 DEF DocsChain
<1>6. 0 \in good
  <2> DEFINE none == NoRows(detail)
  <2>1. none.rows = <<>> /\ none.left = detail
    BY DEF NoRows
  <2>2. IsList(<<>>) /\ Len(<<>>) = 0 /\ 1..0 = {}
    <3>1. <<>> \in Seq({})
      OBVIOUS
    <3>2. IsList(<<>>)
      BY <3>1, ListIs
    <3> QED
      BY <3>2
  <2> HIDE DEF none
  <2>3. AllSameTo(none, 0)
    BY <2>1, <2>2 DEF AllSameTo
  <2> QED
    BY <1>2, <1>5, <2>3 DEF none
<1>7. ASSUME NEW k \in (0 + 1)..K, k - 1 \in good PROVE k \in good
  <2>1. k \in 1..K /\ k \in 0..K /\ k \in Nat \ {0}
    BY <1>2
  <2> DEFINE acc == g[k - 1]
             row == list[k]
  <2>2. AllSameTo(acc, k - 1) /\ row.a = row.b /\ row.a \in 1..M
    BY <1>2, <1>4, <1>7, <2>1
  <2> HIDE DEF acc, row
  <2>3. AllSameTo(NextRow(a, a, TRUE, acc, row), k)
    BY <2>1, <2>2, SelfGrows
  <2> QED
    BY <1>5, <2>1, <2>3 DEF acc, row
<1>8. K \in good
  <2> HIDE DEF good
  <2>1. \A k \in 0..K : k \in good
    BY <1>2, <1>6, <1>7, Climbs
  <2> QED
    BY <1>2, <2>1
<1>9. IsList(rows) /\ Len(rows) = K /\ \A i \in 1..K : AllSame(rows[i])
  BY <1>3, <1>8 DEF AllSameTo
<1> HIDE DEF rows
<1>10. \A i \in DOMAIN rows : AllSame(rows[i])
  BY <1>9, ListHas
<1> QED
  BY <1>10 DEF SameThroughout, AllSame, rows

(***************************************************************************)
(* The two bundles as they grow, and what a comparison of them rests on.   *)
(***************************************************************************)
IsBundle(bundle, names, cost) ==
    bundle.events \in Seq(Events) /\ bundle = [events |-> bundle.events, names |-> names, counter |-> cost]

PairInv == IsBundle(bundleA, NamesA, CostA) /\ IsBundle(bundleB, NamesB, CostB)

LEMMA BundleGrows ==
    ASSUME NEW bundle, NEW names, NEW cost, IsBundle(bundle, names, cost), NEW e \in Events
    PROVE  IsBundle([bundle EXCEPT !.events = Append(@, e)], names, cost)
<1> DEFINE to == [bundle EXCEPT !.events = Append(@, e)]
           events == bundle.events
<1>1. events \in Seq(Events) /\ bundle = [events |-> events, names |-> names, counter |-> cost]
  BY DEF IsBundle
<1>2. to = [events |-> Append(events, e), names |-> names, counter |-> cost]
  <2> DEFINE more == Append(events, e)
  <2>1. to = [bundle EXCEPT !.events = more]
    OBVIOUS
  <2> HIDE DEF events, more
  <2>2. [bundle EXCEPT !.events = more] = [events |-> more, names |-> names, counter |-> cost]
    BY <1>1
  <2> QED
    BY <2>1, <2>2 DEF more
<1> HIDE DEF events
<1>3. Append(events, e) \in Seq(Events)
  BY <1>1
<1> HIDE DEF to
<1> QED
  BY <1>2, <1>3 DEF IsBundle, to

LEMMA PairInvAlways == PairSpec => []PairInv
<1>1. PairInit => PairInv
  <2> SUFFICES ASSUME PairInit PROVE PairInv
    OBVIOUS
  <2>1. <<>> \in Seq(Events)
    OBVIOUS
  <2> QED
    BY <2>1 DEF PairInit, PairInv, IsBundle
<1>2. PairInv /\ [PairNext]_pairVars => PairInv'
  <2> SUFFICES ASSUME PairInv, [PairNext]_pairVars PROVE PairInv'
    OBVIOUS
  <2>1. CASE \E e \in Events : bundleA' = [bundleA EXCEPT !.events = Append(@, e)] /\ UNCHANGED bundleB
    <3>1. IsBundle(bundleA', NamesA, CostA)
      BY <2>1, BundleGrows DEF PairInv
    <3> QED
      BY <2>1, <3>1 DEF PairInv, IsBundle
  <2>2. CASE \E e \in Events : bundleB' = [bundleB EXCEPT !.events = Append(@, e)] /\ UNCHANGED bundleA
    <3>1. IsBundle(bundleB', NamesB, CostB)
      BY <2>2, BundleGrows DEF PairInv
    <3> QED
      BY <2>2, <3>1 DEF PairInv, IsBundle
  <2>3. CASE UNCHANGED pairVars
    BY <2>3 DEF PairInv, IsBundle, pairVars
  <2> QED
    BY <2>1, <2>2, <2>3 DEF PairNext
<1> QED
  BY <1>1, <1>2, PTL DEF PairSpec

LEMMA SideIs ==
    ASSUME NEW bundle, NEW names, NEW cost, IsBundle(bundle, names, cost)
    PROVE  SideHolds(LoadSide(bundle), Len(bundle.events), PassCount(bundle.events))
<1> DEFINE events == bundle.events
           n == Len(events)
           side == LoadSide(bundle)
<1>1. events \in Seq(Events) /\ n \in Nat /\ DOMAIN events = 1..n
  BY DEF IsBundle
<1>2. side.bundle = bundle /\ side.passes = ReconstructPasses(bundle)
  BY DEF LoadSide
<1>3. Spans(ReconstructPasses(bundle), n, PassCount(events))
  BY <1>1, PassesSpan
<1>4. Imaged(events, n)
  <2>1. \A i \in 1..n : events[i] \in Events
    BY <1>1
  <2> QED
    BY <2>1, PairAssumption DEF Imaged
<1>5. Timed(events, n)
  <2>1. \A i \in 1..n : events[i] \in Events
    BY <1>1
  <2> QED
    BY <2>1, PairAssumption DEF Timed
<1> HIDE DEF side
<1> QED
  BY <1>1, <1>2, <1>3, <1>4, <1>5 DEF SideHolds, side

(***************************************************************************)
(* Every verdict of a comparison rests on evidence: whatever two captures  *)
(* hold, each event of either is in the pass of exactly one row; passes    *)
(* are paired by their place only where neither sits in a marker; pictures *)
(* are identical just where their last readbacks are, and one is left      *)
(* undecoded only when the budget is spent; a cost is claimed just where   *)
(* both passes were measured; and a bundle against itself differs nowhere  *)
(* (rdc_ab.py:367, 797, 926).                                              *)
(***************************************************************************)
THEOREM PairVerdictsRestOnEvidence == PairSpec => []PairVerdictsHaveEvidence
<1>1. PairInv => PairVerdictsHaveEvidence
  <2> SUFFICES ASSUME PairInv PROVE PairVerdictsHaveEvidence
    OBVIOUS
  <2> DEFINE a == LoadSide(bundleA)
             b == LoadSide(bundleB)
             m == Len(bundleA.events)
             M == PassCount(bundleA.events)
             n == Len(bundleB.events)
             N == PassCount(bundleB.events)
  <2>1. SideHolds(a, m, M) /\ SideHolds(b, n, N)
    BY SideIs DEF PairInv
  <2>2. ImageDetail \in Nat
    BY PairAssumption
  <2> HIDE DEF a, b, m, n, M, N
  <2>3. Evidenced(a, b, DocumentOf(a, b, ImageDetail))
    BY <2>1, <2>2, EvidenceIs
  <2>4. SameThroughout(DocumentOf(a, a, ImageDetail).rows)
    BY <2>1, <2>2, SelfDocument
  <2> QED
    BY <2>3, <2>4 DEF PairVerdictsHaveEvidence, DocumentOf, a, b
<1> QED
  BY <1>1, PairInvAlways, PTL
=============================================================================
