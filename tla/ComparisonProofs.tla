------------------------- MODULE ComparisonProofs -------------------------
(***************************************************************************)
(* What is said of two frames compared: the passes of one against the      *)
(* passes of the other, and the calls of one stream against the calls of   *)
(* the other, for any lists and any streams.                               *)
(***************************************************************************)
EXTENDS OfflineProofs, CallDiff

(***************************************************************************)
(* One rule of the pairing.                                                *)
(***************************************************************************)
Free(ka, pairs) == {i \in DOMAIN ka : \A p \in pairs : p[1] # i}
PairStep(free, ka, kb, done, j) ==
    LET queue == {i \in free : ka[i] = kb[j] /\ \A p \in done : p[1] # i}
    IN  IF (\E p \in done : p[2] = j) \/ queue = {} THEN done ELSE done \cup {<<Min(queue), j>>}
PairFrom(f, free, ka, kb, pairs) ==
    [s \in SUBSET DOMAIN Ids(kb) |->
        IF s = {} THEN pairs ELSE LET x == Max(s) IN PairStep(free, ka, kb, f[s \ {x}], Ids(kb)[x])]

LEMMA PairDef ==
    ASSUME NEW ka, NEW kb, NEW pairs
    PROVE  PairBy(ka, kb, pairs) = (CHOOSE f : f = PairFrom(f, Free(ka, pairs), ka, kb, pairs))[DOMAIN Ids(kb)]
BY DEF PairBy, FoldLeftDomain, FoldLeft, MapThenFoldSet, PairFrom, PairStep, Ids, Free
Lengths(ka, kb, m, n) == m \in Nat /\ n \in Nat /\ DOMAIN ka = 1..m /\ DOMAIN kb = 1..n
Grid(m, n) == (1..m) \X (1..n)

LEMMA PairStepIn ==
    ASSUME NEW ka, NEW kb, NEW m, NEW n, Lengths(ka, kb, m, n), NEW pairs, NEW done \in SUBSET Grid(m, n),
           NEW j \in 1..n
    PROVE  PairStep(Free(ka, pairs), ka, kb, done, j) \in SUBSET Grid(m, n)
<1> DEFINE queue == {i \in Free(ka, pairs) : ka[i] = kb[j] /\ \A p \in done : p[1] # i}
<1>0. m \in Nat /\ DOMAIN ka = 1..m
  BY DEF Lengths
<1>1. ASSUME queue # {} PROVE <<Min(queue), j>> \in Grid(m, n)
  <2>1. queue \in SUBSET Nat /\ queue \subseteq 1..m
    BY <1>0 DEF Free
  <2> HIDE DEF queue
  <2>2. Min(queue) \in queue
    <3>1. \E x \in queue : \A y \in queue : x <= y
      BY <1>1, <2>1, NatLeast
    <3> QED
      BY <3>1 DEF Min
  <2> QED
    BY <2>1, <2>2 DEF Grid
<1> QED
  BY <1>1 DEF PairStep

LEMMA PairExists ==
    ASSUME NEW ka, NEW kb, NEW m, NEW n, Lengths(ka, kb, m, n), NEW pairs \in SUBSET Grid(m, n)
    PROVE  \E f : f = PairFrom(f, Free(ka, pairs), ka, kb, pairs)
<1> DEFINE A == SUBSET Grid(m, n)
           Next_(done, j) == PairStep(Free(ka, pairs), ka, kb, done, j)
           G == [j \in 1..n |-> [done \in A |-> Next_(done, j)]]
<1>0. n \in Nat /\ DOMAIN Ids(kb) = 1..n /\ \A j \in 1..n : Ids(kb)[j] = j
  BY DEF Lengths, Ids
<1>1. \A done \in A, j \in 1..n : Next_(done, j) \in A
  BY PairStepIn
<1> HIDE DEF A, Next_
<1>2. G \in [1..n -> [A -> A]]
  BY <1>1
<1>3. \A j \in 1..n, done \in A : G[j][done] = Next_(done, j)
  OBVIOUS
<1> HIDE DEF G
<1>4. Chainable(n, A, pairs, G)
  BY <1>0, <1>2 DEF Chainable, A
<1>5. PICK f : Rungs(f, n, A, pairs, G)
  BY <1>4, RungsExist
<1>6. f \in [SUBSET (1..n) -> A] /\ f[{}] = pairs
  BY <1>5 DEF Rungs
<1>7. ASSUME NEW s \in SUBSET (1..n), s # {}
      PROVE  f[s] = Next_(f[s \ {Max(s)}], Ids(kb)[Max(s)])
  <2>1. Max(s) \in s /\ f[s] = G[Max(s)][f[s \ {Max(s)}]]
    BY <1>5, <1>7 DEF Rungs
  <2>2. f[s \ {Max(s)}] \in A /\ Max(s) \in 1..n
    BY <1>6, <2>1
  <2> QED
    BY <1>0, <1>3, <2>1, <2>2
<1>8. f = PairFrom(f, Free(ka, pairs), ka, kb, pairs)
  BY <1>0, <1>6, <1>7 DEF PairFrom, Next_
<1> QED
  BY <1>8

(* The pairs after each position of the right list.                          *)
PairChain(g, ka, kb, n, pairs) ==
    /\ g[0] = pairs
    /\ \A k \in 1..n : g[k] = PairStep(Free(ka, pairs), ka, kb, g[k - 1], k)

LEMMA PairClimbs ==
    ASSUME NEW ka, NEW kb, NEW m, NEW n, Lengths(ka, kb, m, n), NEW pairs \in SUBSET Grid(m, n)
    PROVE  \E g : PairChain(g, ka, kb, n, pairs) /\ PairBy(ka, kb, pairs) = g[n]
<1> DEFINE f == CHOOSE f : f = PairFrom(f, Free(ka, pairs), ka, kb, pairs)
           g == [k \in 0..n |-> f[1..k]]
<1>0. n \in Nat /\ DOMAIN Ids(kb) = 1..n /\ \A j \in 1..n : Ids(kb)[j] = j
  BY DEF Lengths, Ids
<1>1. f = PairFrom(f, Free(ka, pairs), ka, kb, pairs)
  BY PairExists
<1>2. PairBy(ka, kb, pairs) = f[1..n]
  BY <1>0, PairDef
<1> HIDE DEF f
<1>3. \A s \in SUBSET (1..n) : s = {} => f[s] = pairs
  BY <1>0, <1>1 DEF PairFrom
<1>4. \A s \in SUBSET (1..n) : s # {} =>
         f[s] = PairStep(Free(ka, pairs), ka, kb, f[s \ {Max(s)}], Ids(kb)[Max(s)])
  BY <1>0, <1>1 DEF PairFrom
<1>5. g[0] = pairs
  <2>1. 1..0 = {} /\ 0 \in 0..n
    BY <1>0
  <2> QED
    BY <1>3, <2>1
<1>6. ASSUME NEW k \in 1..n PROVE g[k] = PairStep(Free(ka, pairs), ka, kb, g[k - 1], k)
  <2>1. k \in 0..n /\ k - 1 \in 0..n
    BY <1>0
  <2>2. f[1..k] = PairStep(Free(ka, pairs), ka, kb, f[1..(k - 1)], k)
    <3> DEFINE s == 1..k
    <3>1. s \in SUBSET (1..n) /\ s # {} /\ Max(s) = k /\ s \ {k} = 1..(k - 1)
      BY <1>0, Rung
    <3> HIDE DEF s
    <3>2. f[s] = PairStep(Free(ka, pairs), ka, kb, f[s \ {Max(s)}], Ids(kb)[Max(s)])
      BY <1>4, <3>1
    <3> QED
      BY <1>0, <3>1, <3>2 DEF s
  <2> QED
    BY <2>1, <2>2
<1>7. g[n] = f[1..n]
  BY <1>0
<1> HIDE DEF g
<1>8. PairChain(g, ka, kb, n, pairs)
  BY <1>5, <1>6 DEF PairChain
<1> QED
  BY <1>2, <1>7, <1>8

(* No position is in two pairs; a new pair joins equal keys the rules before *)
(* left alone, and takes the first of its key there is on either side.       *)
OneToOne(P) == \A p, q \in P : p[1] = q[1] \/ p[2] = q[2] => p = q
Before(P, i, j) == \E q \in P : q[1] = i /\ q[2] < j
Pairing(done, pairs, ka, kb, k) ==
    /\ pairs \subseteq done /\ OneToOne(done)
    /\ \A p \in done \ pairs : p[1] \in Free(ka, pairs) /\ ka[p[1]] = kb[p[2]] /\ p[2] <= k
    /\ \A p \in done \ pairs : \A i \in Free(ka, pairs) :
          i < p[1] /\ ka[i] = ka[p[1]] => Before(done \ pairs, i, p[2])
    /\ \A j \in 1..k : (\A p \in done : p[2] # j) =>
          \A i \in Free(ka, pairs) : ka[i] = kb[j] => Before(done \ pairs, i, j)

LEMMA GridIs ==
    ASSUME NEW m, NEW n, NEW p \in Grid(m, n)
    PROVE  p[1] \in 1..m /\ p[2] \in 1..n /\ p = <<p[1], p[2]>>
BY DEF Grid

LEMMA PairingStep ==
    ASSUME NEW ka, NEW kb, NEW m, NEW n, Lengths(ka, kb, m, n), NEW pairs, NEW done \in SUBSET Grid(m, n),
           NEW k \in 1..n, Pairing(done, pairs, ka, kb, k - 1)
    PROVE  Pairing(PairStep(Free(ka, pairs), ka, kb, done, k), pairs, ka, kb, k)
<1> DEFINE free == Free(ka, pairs)
           queue == {i \in free : ka[i] = kb[k] /\ \A p \in done : p[1] # i}
           to == PairStep(free, ka, kb, done, k)
           x == Min(queue)
<1>0. /\ m \in Nat /\ n \in Nat /\ k \in Nat /\ k - 1 \in Nat /\ free \subseteq 1..m
      /\ \A i \in free : \A p \in pairs : p[1] # i
  BY DEF Lengths, Free
<1>1. /\ pairs \subseteq done /\ OneToOne(done)
      /\ \A p \in done \ pairs : p[1] \in free /\ ka[p[1]] = kb[p[2]] /\ p[2] <= k - 1
      /\ \A p \in done \ pairs : \A i \in free :
            i < p[1] /\ ka[i] = ka[p[1]] => Before(done \ pairs, i, p[2])
      /\ \A j \in 1..(k - 1) : (\A p \in done : p[2] # j) =>
            \A i \in free : ka[i] = kb[j] => Before(done \ pairs, i, j)
  BY DEF Pairing
<1>2. \A p \in done : p[1] \in 1..m /\ p[2] \in 1..n /\ p = <<p[1], p[2]>>
  BY GridIs
<1>3. \A i \in free : ka[i] = kb[k] /\ i \notin queue => Before(done \ pairs, i, k)
  <2> SUFFICES ASSUME NEW i \in free, ka[i] = kb[k], i \notin queue PROVE Before(done \ pairs, i, k)
    OBVIOUS
  <2>1. PICK q \in done : q[1] = i
    OBVIOUS
  <2>2. q \in done \ pairs
    BY <1>0, <2>1
  <2>3. q[2] <= k - 1 /\ q[2] \in 1..n
    BY <1>1, <1>2, <2>2
  <2>4. q[2] < k
    BY <1>0, <2>3
  <2> QED
    BY <2>1, <2>2, <2>4 DEF Before
<1>4. to = IF (\E p \in done : p[2] = k) \/ queue = {} THEN done ELSE done \cup {<<x, k>>}
  BY DEF PairStep
<1>5. ASSUME (\E p \in done : p[2] = k) \/ queue = {} PROVE Pairing(to, pairs, ka, kb, k)
  <2>1. to = done
    BY <1>4, <1>5
  <2>2. ASSUME NEW p \in done \ pairs PROVE p[2] <= k
    <3>1. p[2] <= k - 1 /\ p[2] \in 1..n
      BY <1>1, <1>2
    <3> QED
      BY <1>0, <3>1
  <2>3. ASSUME NEW j \in 1..k, \A p \in done : p[2] # j, NEW i \in free, ka[i] = kb[j]
        PROVE  Before(done \ pairs, i, j)
    <3>1. CASE j = k
      BY <1>3, <1>5, <2>3, <3>1
    <3>2. CASE j # k
      <4>1. j \in 1..(k - 1)
        BY <1>0, <3>2
      <4> QED
        BY <1>1, <2>3, <4>1
    <3> QED
      BY <3>1, <3>2
  <2> HIDE DEF queue, to
  <2> QED
    BY <1>1, <2>1, <2>2, <2>3 DEF Pairing
<1>6. ASSUME \A p \in done : p[2] # k, queue # {} PROVE Pairing(to, pairs, ka, kb, k)
  <2>1. x \in queue /\ \A y \in queue : x <= y
    <3>1. queue \in SUBSET Nat
      BY <1>0
    <3> HIDE DEF queue
    <3>2. \E w \in queue : \A y \in queue : w <= y
      BY <1>6, <3>1, NatLeast
    <3> QED
      BY <3>2 DEF Min
  <2>2. x \in free /\ ka[x] = kb[k] /\ \A p \in done : p[1] # x
    BY <2>1
  <2> DEFINE new == <<x, k>>
             old == done \ pairs
  <2>3. to = done \cup {new} /\ new[1] = x /\ new[2] = k
    BY <1>4, <1>6
  <2>4. new \notin pairs /\ to \ pairs = old \cup {new}
    <3>1. new \notin done
      BY <1>6, <2>3
    <3> QED
      BY <1>1, <2>3, <3>1
  <2>5. \A i, j : Before(old, i, j) => Before(to \ pairs, i, j)
    BY <2>4 DEF Before
  <2>6. \A i \in free : i < x /\ ka[i] = ka[x] => Before(old, i, k)
    <3> SUFFICES ASSUME NEW i \in free, i < x, ka[i] = ka[x] PROVE Before(old, i, k)
      OBVIOUS
    <3>1. i \notin queue
      <4>1. i \in Nat /\ x \in Nat
        BY <1>0, <2>2
      <4> HIDE DEF queue, x
      <4> QED
        BY <2>1, <4>1
    <3> QED
      BY <1>3, <2>2, <3>1
  <2> HIDE DEF queue, to, x, new, old
  <2>7. OneToOne(to)
    <3> SUFFICES ASSUME NEW p \in to, NEW q \in to, p[1] = q[1] \/ p[2] = q[2] PROVE p = q
      BY DEF OneToOne
    <3>1. CASE p \in done /\ q \in done
      BY <1>1, <3>1 DEF OneToOne
    <3>2. CASE p = new /\ q = new
      BY <3>2
    <3>3. CASE p = new /\ q \in done
      BY <1>6, <2>2, <2>3, <3>3
    <3>4. CASE p \in done /\ q = new
      BY <1>6, <2>2, <2>3, <3>4
    <3> QED
      BY <2>3, <3>1, <3>2, <3>3, <3>4
  <2>8. ASSUME NEW p \in old PROVE p[2] <= k
    <3>1. p[2] <= k - 1 /\ p[2] \in 1..n
      BY <1>1, <1>2 DEF old
    <3> QED
      BY <1>0, <3>1
  <2>9. \A p \in to \ pairs : p[1] \in free /\ ka[p[1]] = kb[p[2]] /\ p[2] <= k
    <3>1. \A p \in old : p[1] \in free /\ ka[p[1]] = kb[p[2]] /\ p[2] <= k
      BY <1>1, <2>8 DEF old
    <3>2. k <= k
      BY <1>0
    <3> QED
      BY <2>2, <2>3, <2>4, <3>1, <3>2
  <2>10. \A p \in to \ pairs : \A i \in free : i < p[1] /\ ka[i] = ka[p[1]] => Before(to \ pairs, i, p[2])
    <3>1. \A p \in old : \A i \in free : i < p[1] /\ ka[i] = ka[p[1]] => Before(to \ pairs, i, p[2])
      BY <1>1, <2>5 DEF old
    <3>2. \A i \in free : i < new[1] /\ ka[i] = ka[new[1]] => Before(to \ pairs, i, new[2])
      BY <2>3, <2>5, <2>6
    <3> QED
      BY <2>4, <3>1, <3>2
  <2>11. ASSUME NEW j \in 1..k, \A p \in to : p[2] # j, NEW i \in free, ka[i] = kb[j]
         PROVE  Before(to \ pairs, i, j)
    <3>1. j # k /\ \A p \in done : p[2] # j
      BY <2>3, <2>11
    <3>2. j \in 1..(k - 1)
      BY <1>0, <3>1
    <3> QED
      BY <1>1, <2>5, <2>11, <3>1, <3>2 DEF old
  <2>12. pairs \subseteq to
    BY <1>1, <2>3
  <2> QED
    BY <2>7, <2>9, <2>10, <2>11, <2>12 DEF Pairing
<1> QED
  BY <1>5, <1>6

LEMMA PairingIs ==
    ASSUME NEW ka, NEW kb, NEW m, NEW n, Lengths(ka, kb, m, n), NEW pairs \in SUBSET Grid(m, n), OneToOne(pairs)
    PROVE  PairBy(ka, kb, pairs) \in SUBSET Grid(m, n) /\ Pairing(PairBy(ka, kb, pairs), pairs, ka, kb, n)
<1>1. PICK g : PairChain(g, ka, kb, n, pairs) /\ PairBy(ka, kb, pairs) = g[n]
  BY PairClimbs
<1> DEFINE good == {k \in 0..n : g[k] \in SUBSET Grid(m, n) /\ Pairing(g[k], pairs, ka, kb, k)}
<1>2. n \in Nat /\ g[0] = pairs /\ \A k \in 1..n : g[k] = PairStep(Free(ka, pairs), ka, kb, g[k - 1], k)
  BY <1>1 DEF PairChain, Lengths
<1>3. 0 \in good
  <2>1. 1..0 = {} /\ pairs \ pairs = {} /\ 0 \in 0..n
    BY <1>2
  <2>2. Pairing(pairs, pairs, ka, kb, 0)
    BY <2>1 DEF Pairing
  <2> QED
    BY <1>2, <2>1, <2>2
<1>4. ASSUME NEW k \in (0 + 1)..n, k - 1 \in good PROVE k \in good
  <2>1. k \in 1..n /\ k \in 0..n
    BY <1>2
  <2>2. g[k - 1] \in SUBSET Grid(m, n) /\ Pairing(g[k - 1], pairs, ka, kb, k - 1)
    BY <1>4
  <2>3. g[k] = PairStep(Free(ka, pairs), ka, kb, g[k - 1], k)
    BY <1>2, <2>1
  <2>4. g[k] \in SUBSET Grid(m, n)
    BY <2>1, <2>2, <2>3, PairStepIn
  <2>5. Pairing(g[k], pairs, ka, kb, k)
    BY <2>1, <2>2, <2>3, PairingStep
  <2> QED
    BY <2>1, <2>4, <2>5
<1>5. n \in good
  <2> HIDE DEF good
  <2>1. 0 \in Nat /\ n \in 0..n
    BY <1>2
  <2>2. \A k \in 0..n : k \in good
    BY <1>2, <1>3, <1>4, <2>1, Climbs
  <2> QED
    BY <2>1, <2>2
<1> QED
  BY <1>1, <1>5

(***************************************************************************)
(* A rule over two whole lists: who comes first is served first, on either *)
(* side, and no key is left on both.  There is one such pairing.           *)
(***************************************************************************)
FirstCome(P, ka, kb, m, n) ==
    /\ P \in SUBSET Grid(m, n) /\ OneToOne(P)
    /\ \A p \in P : ka[p[1]] = kb[p[2]]
    /\ \A p \in P : \A i \in 1..m : i < p[1] /\ ka[i] = ka[p[1]] => \E q \in P : q[1] = i /\ q[2] < p[2]
    /\ \A p \in P : \A j \in 1..n : j < p[2] /\ kb[j] = kb[p[2]] => \E q \in P : q[2] = j /\ q[1] < p[1]
    /\ \A i \in 1..m : \A j \in 1..n : ka[i] = kb[j] => \E q \in P : q[1] = i \/ q[2] = j

LEMMA ServedInTurn ==
    ASSUME NEW ka, NEW kb, NEW m \in Nat, NEW n \in Nat, NEW P \in SUBSET Grid(m, n), OneToOne(P),
           \A p \in P : ka[p[1]] = kb[p[2]],
           \A p \in P : \A i \in 1..m : i < p[1] /\ ka[i] = ka[p[1]] => Before(P, i, p[2]),
           \A j \in 1..n : (\A p \in P : p[2] # j) => \A i \in 1..m : ka[i] = kb[j] => Before(P, i, j)
    PROVE  FirstCome(P, ka, kb, m, n)
<1>1. \A p \in P : p[1] \in 1..m /\ p[2] \in 1..n
  BY GridIs
<1>2. ASSUME NEW p \in P, NEW j \in 1..n, j < p[2], kb[j] = kb[p[2]]
      PROVE  \E q \in P : q[2] = j /\ q[1] < p[1]
  <2>0. p[1] \in 1..m /\ p[2] \in 1..n /\ ka[p[1]] = kb[j]
    BY <1>1, <1>2
  <2>1. CASE \A q \in P : q[2] # j
    <3>1. PICK q \in P : q[1] = p[1] /\ q[2] < j
      BY <2>0, <2>1 DEF Before
    <3>2. q = p
      BY <3>1 DEF OneToOne
    <3> QED
      BY <1>2, <2>0, <3>1, <3>2
  <2>2. CASE \E q \in P : q[2] = j
    <3>1. PICK q \in P : q[2] = j
      BY <2>2
    <3>2. q[1] \in 1..m /\ q[2] \in 1..n /\ ka[q[1]] = ka[p[1]]
      BY <1>1, <2>0, <3>1
    <3>3. q[1] # p[1]
      <4>1. q[2] # p[2]
        BY <1>2, <2>0, <3>1
      <4> QED
        BY <4>1 DEF OneToOne
    <3>4. ~(p[1] < q[1])
      <4> SUFFICES ASSUME p[1] < q[1] PROVE FALSE
        OBVIOUS
      <4>1. PICK r \in P : r[1] = p[1] /\ r[2] < q[2]
        BY <2>0, <3>2 DEF Before
      <4>2. r = p
        BY <4>1 DEF OneToOne
      <4> QED
        BY <1>2, <2>0, <3>1, <4>1, <4>2
    <3>5. q[1] < p[1]
      BY <2>0, <3>2, <3>3, <3>4
    <3> QED
      BY <3>1, <3>5
  <2> QED
    BY <2>1, <2>2
<1>3. \A i \in 1..m : \A j \in 1..n : ka[i] = kb[j] => \E q \in P : q[1] = i \/ q[2] = j
  BY DEF Before
<1>4. \A p \in P : \A i \in 1..m : i < p[1] /\ ka[i] = ka[p[1]] => \E q \in P : q[1] = i /\ q[2] < p[2]
  BY DEF Before
<1> QED
  BY <1>2, <1>3, <1>4 DEF FirstCome

LEMMA FirstComeIs ==
    ASSUME NEW ka, NEW kb, NEW m, NEW n, Lengths(ka, kb, m, n)
    PROVE  FirstCome(PairBy(ka, kb, {}), ka, kb, m, n)
<1> DEFINE P == PairBy(ka, kb, {})
<1>0. m \in Nat /\ n \in Nat /\ Free(ka, {}) = 1..m
  BY DEF Lengths, Free
<1>1. P \in SUBSET Grid(m, n) /\ Pairing(P, {}, ka, kb, n)
  <2>1. OneToOne({}) /\ {} \in SUBSET Grid(m, n)
    BY DEF OneToOne
  <2> QED
    BY <2>1, PairingIs
<1> HIDE DEF P
<1>2. P \ {} = P
  OBVIOUS
<1>3. /\ OneToOne(P)
      /\ \A p \in P : ka[p[1]] = kb[p[2]]
      /\ \A p \in P : \A i \in 1..m : i < p[1] /\ ka[i] = ka[p[1]] => Before(P, i, p[2])
      /\ \A j \in 1..n : (\A p \in P : p[2] # j) => \A i \in 1..m : ka[i] = kb[j] => Before(P, i, j)
  BY <1>0, <1>1, <1>2 DEF Pairing
<1>4. FirstCome(P, ka, kb, m, n)
  BY <1>0, <1>1, <1>3, ServedInTurn
<1> QED
  BY <1>4 DEF P

Turned(P) == {<<p[2], p[1]>> : p \in P}

LEMMA TurnedIs ==
    ASSUME NEW P
    PROVE  /\ \A p \in P : <<p[2], p[1]>> \in Turned(P)
           /\ \A t \in Turned(P) : \E p \in P : t = <<p[2], p[1]>> /\ t[1] = p[2] /\ t[2] = p[1]
<1>1. \A p \in P : <<p[2], p[1]>>[1] = p[2] /\ <<p[2], p[1]>>[2] = p[1]
  OBVIOUS
<1> QED
  BY <1>1 DEF Turned

LEMMA FirstComeTurned ==
    ASSUME NEW ka, NEW kb, NEW m, NEW n, NEW P, FirstCome(P, ka, kb, m, n)
    PROVE  FirstCome(Turned(P), kb, ka, n, m)
<1> DEFINE T == Turned(P)
<1>1. /\ P \in SUBSET Grid(m, n) /\ OneToOne(P)
      /\ \A p \in P : ka[p[1]] = kb[p[2]]
      /\ \A p \in P : \A i \in 1..m : i < p[1] /\ ka[i] = ka[p[1]] => \E q \in P : q[1] = i /\ q[2] < p[2]
      /\ \A p \in P : \A j \in 1..n : j < p[2] /\ kb[j] = kb[p[2]] => \E q \in P : q[2] = j /\ q[1] < p[1]
      /\ \A i \in 1..m : \A j \in 1..n : ka[i] = kb[j] => \E q \in P : q[1] = i \/ q[2] = j
  BY DEF FirstCome
<1>2. \A t \in T : \E p \in P : t = <<p[2], p[1]>> /\ t[1] = p[2] /\ t[2] = p[1]
  BY TurnedIs
<1>3. \A p \in P : \E t \in T : t[1] = p[2] /\ t[2] = p[1]
  <2> SUFFICES ASSUME NEW p \in P PROVE \E t \in T : t[1] = p[2] /\ t[2] = p[1]
    OBVIOUS
  <2> DEFINE t == <<p[2], p[1]>>
  <2>1. t \in T /\ t[1] = p[2] /\ t[2] = p[1]
    BY TurnedIs
  <2> HIDE DEF T, t
  <2> QED
    BY <2>1
<1> HIDE DEF T
<1>4. T \in SUBSET Grid(n, m)
  <2>1. \A p \in P : <<p[2], p[1]>> \in Grid(n, m)
    BY <1>1, GridIs DEF Grid
  <2> QED
    BY <1>2, <2>1
<1>5. OneToOne(T)
  <2> SUFFICES ASSUME NEW t \in T, NEW u \in T, t[1] = u[1] \/ t[2] = u[2] PROVE t = u
    BY DEF OneToOne
  <2>1. PICK p \in P : t = <<p[2], p[1]>> /\ t[1] = p[2] /\ t[2] = p[1]
    BY <1>2
  <2>2. PICK q \in P : u = <<q[2], q[1]>> /\ u[1] = q[2] /\ u[2] = q[1]
    BY <1>2
  <2>3. p[1] = q[1] \/ p[2] = q[2]
    BY <2>1, <2>2
  <2>4. p = q
    BY <1>1, <2>3 DEF OneToOne
  <2> QED
    BY <2>1, <2>2, <2>4
<1>6. \A t \in T : kb[t[1]] = ka[t[2]]
  BY <1>1, <1>2
<1>7. ASSUME NEW t \in T, NEW i \in 1..n, i < t[1], kb[i] = kb[t[1]]
      PROVE  \E u \in T : u[1] = i /\ u[2] < t[2]
  <2>1. PICK p \in P : t[1] = p[2] /\ t[2] = p[1]
    BY <1>2
  <2>2. PICK q \in P : q[2] = i /\ q[1] < p[1]
    BY <1>1, <1>7, <2>1
  <2>3. PICK u \in T : u[1] = q[2] /\ u[2] = q[1]
    BY <1>3
  <2> QED
    BY <2>1, <2>2, <2>3
<1>8. ASSUME NEW t \in T, NEW j \in 1..m, j < t[2], ka[j] = ka[t[2]]
      PROVE  \E u \in T : u[2] = j /\ u[1] < t[1]
  <2>1. PICK p \in P : t[1] = p[2] /\ t[2] = p[1]
    BY <1>2
  <2>2. PICK q \in P : q[1] = j /\ q[2] < p[2]
    BY <1>1, <1>8, <2>1
  <2>3. PICK u \in T : u[1] = q[2] /\ u[2] = q[1]
    BY <1>3
  <2> QED
    BY <2>1, <2>2, <2>3
<1>9. ASSUME NEW i \in 1..n, NEW j \in 1..m, kb[i] = ka[j]
      PROVE  \E u \in T : u[1] = i \/ u[2] = j
  <2>1. PICK q \in P : q[1] = j \/ q[2] = i
    BY <1>1, <1>9
  <2>2. PICK u \in T : u[1] = q[2] /\ u[2] = q[1]
    BY <1>3
  <2> QED
    BY <2>1, <2>2
<1>10. FirstCome(T, kb, ka, n, m)
  BY <1>4, <1>5, <1>6, <1>7, <1>8, <1>9 DEF FirstCome
<1> QED
  BY <1>10 DEF T

(* Neither of two such pairings has the first pair the other has not.        *)
LEMMA NoFirstDifference ==
    ASSUME NEW ka, NEW kb, NEW m \in Nat, NEW n \in Nat, NEW P, FirstCome(P, ka, kb, m, n),
           NEW Q, FirstCome(Q, ka, kb, m, n), NEW p \in P, p \notin Q,
           \A r \in P : r[2] < p[2] => r \in Q, \A r \in Q : r[2] < p[2] => r \in P
    PROVE  FALSE
<1>1. /\ P \in SUBSET Grid(m, n) /\ OneToOne(P)
      /\ \A r \in P : ka[r[1]] = kb[r[2]]
      /\ \A r \in P : \A i \in 1..m : i < r[1] /\ ka[i] = ka[r[1]] => \E q \in P : q[1] = i /\ q[2] < r[2]
  BY DEF FirstCome
<1>2. /\ Q \in SUBSET Grid(m, n) /\ OneToOne(Q)
      /\ \A r \in Q : ka[r[1]] = kb[r[2]]
      /\ \A r \in Q : \A i \in 1..m : i < r[1] /\ ka[i] = ka[r[1]] => \E q \in Q : q[1] = i /\ q[2] < r[2]
      /\ \A r \in Q : \A j \in 1..n : j < r[2] /\ kb[j] = kb[r[2]] => \E q \in Q : q[2] = j /\ q[1] < r[1]
      /\ \A i \in 1..m : \A j \in 1..n : ka[i] = kb[j] => \E q \in Q : q[1] = i \/ q[2] = j
  BY DEF FirstCome
<1> DEFINE i == p[1]
           j == p[2]
<1>3. i \in 1..m /\ j \in 1..n /\ p = <<i, j>> /\ ka[i] = kb[j]
  BY <1>1, GridIs
<1>4. \A r \in Q : r[1] \in 1..m /\ r[2] \in 1..n /\ r = <<r[1], r[2]>>
  BY <1>2, GridIs
<1> HIDE DEF i, j
(* No pair of the other before this one has its left position.               *)
<1>5. \A r \in Q : r[1] = i => ~(r[2] < j)
  <2> SUFFICES ASSUME NEW r \in Q, r[1] = i, r[2] < j PROVE FALSE
    OBVIOUS
  <2>1. r \in P
    BY DEF j
  <2>2. r = p
    BY <1>1, <2>1 DEF OneToOne, i
  <2> QED
    BY <1>3, <2>2 DEF j
<1>6. CASE \E q \in Q : q[2] = j
  <2>1. PICK q \in Q : q[2] = j
    BY <1>6
  <2>2. q[1] \in 1..m /\ q = <<q[1], j>> /\ q[1] # i /\ ka[q[1]] = ka[i]
    <3>1. q[1] \in 1..m /\ q = <<q[1], j>> /\ ka[q[1]] = kb[j]
      BY <1>2, <1>4, <2>1
    <3>2. q # p
      BY <2>1
    <3>3. ka[q[1]] = ka[i]
      BY <1>3, <3>1
    <3>4. q[1] # i
      BY <1>3, <3>1, <3>2
    <3> QED
      BY <3>1, <3>3, <3>4
  <2>3. CASE q[1] < i
    <3>1. PICK r \in P : r[1] = q[1] /\ r[2] < j
      BY <1>1, <1>3, <2>2, <2>3 DEF i, j
    <3>2. r \in Q
      BY <3>1 DEF j
    <3>3. r = q
      BY <1>2, <2>1, <3>1, <3>2 DEF OneToOne
    <3> QED
      BY <1>3, <2>1, <3>1, <3>3
  <2>4. CASE i < q[1]
    <3>1. PICK r \in Q : r[1] = i /\ r[2] < j
      BY <1>2, <1>3, <2>1, <2>2, <2>4
    <3> QED
      BY <1>5, <3>1
  <2> QED
    BY <1>3, <2>2, <2>3, <2>4
<1>7. CASE \A q \in Q : q[2] # j
  <2>1. PICK q \in Q : q[1] = i
    BY <1>2, <1>3, <1>7
  <2>2. q[2] \in 1..n /\ q[2] # j /\ ~(q[2] < j)
    BY <1>4, <1>5, <1>7, <2>1
  <2>3. j < q[2]
    BY <1>3, <2>2
  <2>4. kb[j] = kb[q[2]]
    BY <1>2, <1>3, <2>1
  <2>5. PICK r \in Q : r[2] = j
    BY <1>2, <1>3, <2>3, <2>4
  <2> QED
    BY <1>7, <2>5
<1> QED
  BY <1>6, <1>7

LEMMA FirstComeOnly ==
    ASSUME NEW ka, NEW kb, NEW m \in Nat, NEW n \in Nat, NEW P, FirstCome(P, ka, kb, m, n),
           NEW Q, FirstCome(Q, ka, kb, m, n)
    PROVE  P = Q
<1> DEFINE odd == (P \ Q) \cup (Q \ P)
           at == {p[2] : p \in odd}
<1>1. \A p \in P \cup Q : p[2] \in 1..n
  BY GridIs DEF FirstCome
<1>2. ASSUME odd # {} PROVE FALSE
  <2>1. at \in SUBSET Nat /\ at # {}
    BY <1>1, <1>2
  <2> HIDE DEF at
  <2>2. PICK j \in at : \A y \in at : j <= y
    BY <2>1, NatLeast
  <2> USE DEF at
  <2>3. PICK p \in odd : p[2] = j
    OBVIOUS
  <2>4. \A r \in odd : ~(r[2] < p[2])
    <3> SUFFICES ASSUME NEW r \in odd PROVE ~(r[2] < p[2])
      OBVIOUS
    <3>1. r[2] \in at /\ r[2] \in 1..n /\ p[2] \in 1..n
      BY <1>1
    <3> HIDE DEF at
    <3> QED
      BY <2>2, <2>3, <3>1
  <2>5. \A r \in P \cup Q : r[2] < p[2] => r \in P /\ r \in Q
    BY <2>4
  <2>6. CASE p \in P
    BY <2>3, <2>5, <2>6, NoFirstDifference
  <2>7. CASE p \in Q
    BY <2>3, <2>5, <2>7, NoFirstDifference
  <2> QED
    BY <2>3, <2>6, <2>7
<1> QED
  BY <1>2

(***************************************************************************)
(* The two rules together: the first pairs the equal paths and the second  *)
(* nothing more of them, and no innermost name is left on both sides.      *)
(***************************************************************************)
LEMMA PairedIs ==
    ASSUME NEW a, NEW b, NEW m, NEW n, Lengths(a, b, m, n)
    PROVE  /\ FirstCome(PairBy(Paths(a), Paths(b), {}), Paths(a), Paths(b), m, n)
           /\ Paired(a, b) \in SUBSET Grid(m, n) /\ OneToOne(Paired(a, b))
           /\ PairBy(Paths(a), Paths(b), {}) \subseteq Paired(a, b)
           /\ \A p \in Paired(a, b) : a[p[1]].path = b[p[2]].path <=> p \in PairBy(Paths(a), Paths(b), {})
           /\ \A i \in 1..m, j \in 1..n :
                 Leaf(a[i]) = Leaf(b[j]) => \E q \in Paired(a, b) : q[1] = i \/ q[2] = j
<1> DEFINE ka == Paths(a)
           kb == Paths(b)
           la == Leaves(a)
           lb == Leaves(b)
           P == PairBy(ka, kb, {})
           Q == PairBy(la, lb, P)
<1>0. /\ Lengths(ka, kb, m, n) /\ Lengths(la, lb, m, n)
      /\ \A i \in 1..m : ka[i] = a[i].path /\ la[i] = Leaf(a[i])
      /\ \A j \in 1..n : kb[j] = b[j].path /\ lb[j] = Leaf(b[j])
  BY DEF Lengths, Paths, Leaves
<1>1. Paired(a, b) = Q
  BY DEF Paired
<1> HIDE DEF ka, kb, la, lb
<1>2. FirstCome(P, ka, kb, m, n)
  BY <1>0, FirstComeIs
<1> HIDE DEF P
<1>3. /\ P \in SUBSET Grid(m, n) /\ OneToOne(P) /\ \A p \in P : ka[p[1]] = kb[p[2]]
      /\ \A i \in 1..m : \A j \in 1..n : ka[i] = kb[j] => \E q \in P : q[1] = i \/ q[2] = j
  BY <1>2 DEF FirstCome
<1>4. Q \in SUBSET Grid(m, n) /\ Pairing(Q, P, la, lb, n)
  BY <1>0, <1>3, PairingIs
<1> HIDE DEF Q
<1>5. /\ P \subseteq Q /\ OneToOne(Q)
      /\ \A p \in Q \ P : p[1] \in Free(la, P) /\ la[p[1]] = lb[p[2]]
      /\ \A j \in 1..n : (\A p \in Q : p[2] # j) =>
            \A i \in Free(la, P) : la[i] = lb[j] => Before(Q \ P, i, j)
  BY <1>4 DEF Pairing
<1>6. \A p \in Q : p[1] \in 1..m /\ p[2] \in 1..n /\ p = <<p[1], p[2]>>
  BY <1>4, GridIs
<1>7. ASSUME NEW p \in Q PROVE a[p[1]].path = b[p[2]].path <=> p \in P
  <2>1. a[p[1]].path = ka[p[1]] /\ b[p[2]].path = kb[p[2]]
    BY <1>0, <1>6
  <2>2. ASSUME p \notin P, ka[p[1]] = kb[p[2]] PROVE FALSE
    <3>1. PICK q \in P : q[1] = p[1] \/ q[2] = p[2]
      BY <1>3, <1>6, <2>2
    <3>2. q = p
      BY <1>5, <3>1 DEF OneToOne
    <3> QED
      BY <2>2, <3>2
  <2> QED
    BY <1>3, <2>1, <2>2
<1>8. ASSUME NEW i \in 1..m, NEW j \in 1..n, Leaf(a[i]) = Leaf(b[j])
      PROVE  \E q \in Q : q[1] = i \/ q[2] = j
  <2>1. la[i] = lb[j]
    BY <1>0, <1>8
  <2>2. CASE i \in Free(la, P)
    BY <1>5, <2>1, <2>2 DEF Before
  <2>3. CASE i \notin Free(la, P)
    <3>1. i \in DOMAIN la
      BY <1>0 DEF Lengths
    <3>2. \E p \in P : p[1] = i
      BY <2>3, <3>1 DEF Free
    <3> QED
      BY <1>5, <3>2
  <2> QED
    BY <2>2, <2>3
<1>9. \A i \in 1..m, j \in 1..n : Leaf(a[i]) = Leaf(b[j]) => \E q \in Q : q[1] = i \/ q[2] = j
  BY <1>8
<1> HIDE DEF Leaf
<1> QED
  BY <1>1, <1>2, <1>4, <1>5, <1>7, <1>9 DEF P, ka, kb

(* What only the right list has, each position once and in order.            *)
Keep_(X, rest, j) == IF j \in X THEN Append(rest, j) ELSE rest
RestFrom(f, X, b) ==
    [s \in SUBSET DOMAIN Ids(b) |->
        IF s = {} THEN <<>> ELSE LET x == Max(s) IN Keep_(X, f[s \ {x}], Ids(b)[x])]
RestOf(X, b) == FoldLeftDomain(LAMBDA rest, j : IF j \in X THEN Append(rest, j) ELSE rest, <<>>, b)

LEMMA RestDef ==
    ASSUME NEW X, NEW b
    PROVE  RestOf(X, b) = (CHOOSE f : f = RestFrom(f, X, b))[DOMAIN Ids(b)]
BY DEF RestOf, FoldLeftDomain, FoldLeft, MapThenFoldSet, RestFrom, Keep_, Ids

EachOnce(s, X) ==
    /\ Range(s) = X
    /\ \A k \in 1..Len(s), l \in 1..Len(s) : s[k] = s[l] => k = l
InTurn(s, X) ==
    /\ EachOnce(s, X)
    /\ \A k \in 1..Len(s), l \in 1..Len(s) : k < l => s[k] < s[l]

LEMMA KeepsTurn ==
    ASSUME NEW n \in Nat, NEW s \in Seq(1..n), NEW X, NEW k \in 1..n, InTurn(s, X \cap (1..(k - 1)))
    PROVE  Keep_(X, s, k) \in Seq(1..n) /\ InTurn(Keep_(X, s, k), X \cap (1..k))
<1>0. /\ Range(s) = X \cap (1..(k - 1)) /\ \A i \in 1..Len(s), l \in 1..Len(s) : s[i] = s[l] => i = l
      /\ \A i \in 1..Len(s), l \in 1..Len(s) : i < l => s[i] < s[l]
  BY DEF InTurn, EachOnce
<1>1. CASE k \notin X
  <2>1. X \cap (1..k) = X \cap (1..(k - 1))
    BY <1>1
  <2> QED
    BY <1>1, <2>1 DEF Keep_
<1>2. CASE k \in X
  <2> DEFINE t == Append(s, k)
             l == Len(s)
  <2>1. /\ t \in Seq(1..n) /\ l \in Nat /\ Len(t) = l + 1 /\ t[l + 1] = k /\ DOMAIN s = 1..l /\ DOMAIN t = 1..(l + 1)
        /\ \A i \in 1..l : t[i] = s[i]
    OBVIOUS
  <2>2. Keep_(X, s, k) = t
    BY <1>2 DEF Keep_
  <2>3. k \notin Range(s)
    BY <1>0
  <2>4. X \cap (1..k) = (X \cap (1..(k - 1))) \cup {k}
    BY <1>2
  <2> HIDE DEF t, l
  <2>5. \A i \in 1..(l + 1) : i \in 1..l \/ i = l + 1
    BY <2>1
  <2>6. Range(t) = Range(s) \cup {k}
    <3>1. \A i \in 1..l : i \in 1..(l + 1)
      BY <2>1
    <3>2. l + 1 \in 1..(l + 1)
      BY <2>1
    <3> QED
      BY <2>1, <2>5, <3>1, <3>2 DEF Range
  <2>7. ASSUME NEW i \in 1..(l + 1), NEW j \in 1..(l + 1), t[i] = t[j] PROVE i = j
    <3>1. \A x \in 1..l : t[x] # k
      BY <2>1, <2>3 DEF Range
    <3>2. CASE i \in 1..l /\ j \in 1..l
      BY <1>0, <2>1, <2>7, <3>2 DEF l
    <3>3. CASE i \in 1..l /\ j = l + 1
      BY <2>1, <2>7, <3>1, <3>3
    <3>4. CASE i = l + 1 /\ j \in 1..l
      BY <2>1, <2>7, <3>1, <3>4
    <3>5. CASE i = l + 1 /\ j = l + 1
      BY <3>5
    <3> QED
      BY <2>5, <3>2, <3>3, <3>4, <3>5
  <2>8. ASSUME NEW i \in 1..(l + 1), NEW j \in 1..(l + 1), i < j PROVE t[i] < t[j]
    <3>1. i \in 1..l
      BY <2>1, <2>8
    <3>2. t[i] = s[i] /\ s[i] \in 1..(k - 1)
      BY <1>0, <2>1, <3>1 DEF Range
    <3>3. CASE j \in 1..l
      BY <1>0, <2>1, <2>8, <3>1, <3>3 DEF l
    <3>4. CASE j = l + 1
      <4>1. s[i] < k
        BY <3>2
      <4> QED
        BY <2>1, <3>2, <3>4, <4>1
    <3> QED
      BY <2>5, <3>3, <3>4
  <2>9. InTurn(t, X \cap (1..k))
    BY <1>0, <2>1, <2>4, <2>6, <2>7, <2>8 DEF InTurn, EachOnce
  <2> QED
    BY <2>1, <2>2, <2>9
<1> QED
  BY <1>1, <1>2

LEMMA RestExists ==
    ASSUME NEW X, NEW b, NEW n \in Nat, DOMAIN b = 1..n
    PROVE  \E f : f = RestFrom(f, X, b)
<1> DEFINE A == Seq(1..n)
           G == [j \in 1..n |-> [rest \in A |-> Keep_(X, rest, j)]]
<1>0. DOMAIN Ids(b) = 1..n /\ (\A j \in 1..n : Ids(b)[j] = j) /\ <<>> \in A
  BY DEF Ids
<1>1. \A rest \in A, j \in 1..n : Keep_(X, rest, j) \in A
  <2>1. \A rest \in A, j \in 1..n : Append(rest, j) \in A
    OBVIOUS
  <2> HIDE DEF A
  <2> QED
    BY <2>1 DEF Keep_
<1> HIDE DEF A
<1>2. G \in [1..n -> [A -> A]]
  BY <1>1
<1>3. \A j \in 1..n, rest \in A : G[j][rest] = Keep_(X, rest, j)
  OBVIOUS
<1> HIDE DEF G
<1>4. Chainable(n, A, <<>>, G)
  BY <1>0, <1>2 DEF Chainable
<1>5. PICK f : Rungs(f, n, A, <<>>, G)
  BY <1>4, RungsExist
<1>6. f \in [SUBSET (1..n) -> A] /\ f[{}] = <<>>
  BY <1>5 DEF Rungs
<1>7. ASSUME NEW s \in SUBSET (1..n), s # {}
      PROVE  f[s] = Keep_(X, f[s \ {Max(s)}], Ids(b)[Max(s)])
  <2>1. Max(s) \in s /\ f[s] = G[Max(s)][f[s \ {Max(s)}]]
    BY <1>5, <1>7 DEF Rungs
  <2>2. f[s \ {Max(s)}] \in A /\ Max(s) \in 1..n
    BY <1>6, <2>1
  <2> QED
    BY <1>0, <1>3, <2>1, <2>2
<1>8. f = RestFrom(f, X, b)
  BY <1>0, <1>6, <1>7 DEF RestFrom
<1> QED
  BY <1>8

LEMMA RestIs ==
    ASSUME NEW X, NEW b, NEW n \in Nat, DOMAIN b = 1..n
    PROVE  RestOf(X, b) \in Seq(1..n) /\ InTurn(RestOf(X, b), X \cap (1..n))
<1> DEFINE f == CHOOSE f : f = RestFrom(f, X, b)
           good == {k \in 0..n : f[1..k] \in Seq(1..n) /\ InTurn(f[1..k], X \cap (1..k))}
<1>0. DOMAIN Ids(b) = 1..n /\ \A j \in 1..n : Ids(b)[j] = j
  BY DEF Ids
<1>1. f = RestFrom(f, X, b)
  BY RestExists
<1>2. RestOf(X, b) = f[1..n]
  BY <1>0, RestDef
<1> HIDE DEF f
<1>3. \A s \in SUBSET (1..n) : s = {} => f[s] = <<>>
  BY <1>0, <1>1 DEF RestFrom
<1>4. \A s \in SUBSET (1..n) : s # {} => f[s] = Keep_(X, f[s \ {Max(s)}], Ids(b)[Max(s)])
  BY <1>0, <1>1 DEF RestFrom
<1>5. 0 \in good
  <2>1. 1..0 = {} /\ 0 \in 0..n
    OBVIOUS
  <2>2. f[1..0] = <<>>
    BY <1>3, <2>1
  <2>3. <<>> \in Seq(1..n) /\ Range(<<>>) = {} /\ Len(<<>>) = 0
    BY RangeOfFew
  <2>4. X \cap (1..0) = {}
    BY <2>1
  <2>5. InTurn(<<>>, X \cap (1..0))
    BY <2>1, <2>3, <2>4 DEF InTurn, EachOnce
  <2> QED
    BY <2>1, <2>2, <2>3, <2>5
<1>6. ASSUME NEW k \in (0 + 1)..n, k - 1 \in good PROVE k \in good
  <2>1. k \in 1..n /\ k \in 0..n
    OBVIOUS
  <2>2. f[1..k] = Keep_(X, f[1..(k - 1)], k)
    <3> DEFINE s == 1..k
    <3>1. s \in SUBSET (1..n) /\ s # {} /\ Max(s) = k /\ s \ {k} = 1..(k - 1)
      BY <2>1, Rung
    <3> HIDE DEF s
    <3>2. f[s] = Keep_(X, f[s \ {Max(s)}], Ids(b)[Max(s)])
      BY <1>4, <3>1
    <3> QED
      BY <1>0, <2>1, <3>1, <3>2 DEF s
  <2>3. f[1..(k - 1)] \in Seq(1..n) /\ InTurn(f[1..(k - 1)], X \cap (1..(k - 1)))
    BY <1>6
  <2>4. f[1..k] \in Seq(1..n) /\ InTurn(f[1..k], X \cap (1..k))
    BY <2>1, <2>2, <2>3, KeepsTurn
  <2> QED
    BY <2>1, <2>4
<1>7. n \in good
  <2> HIDE DEF good
  <2>1. \A k \in 0..n : k \in good
    BY <1>5, <1>6, Climbs
  <2> QED
    BY <2>1
<1> QED
  BY <1>2, <1>7

(***************************************************************************)
(* The rows.                                                               *)
(***************************************************************************)
LineOf(a, b, i) ==
    IF i \in Renamed(a, b) THEN [status |-> "renamed", a |-> i, b |-> i]
    ELSE IF i \in Removed(a, b) THEN [status |-> "removed", a |-> i, b |-> 0]
    ELSE [status |-> "same", a |-> i, b |-> (CHOOSE p \in Paired(a, b) : p[1] = i)[2]]
AddedLine(j) == [status |-> "added", a |-> 0, b |-> j]
OnlyAdded(a, b) == RestOf(Added(a, b) \ Renamed(a, b), b)

LEMMA RowsDef ==
    ASSUME NEW a, NEW b
    PROVE  AlignPasses(a, b) =
             [i \in 1..Len(a) |-> LineOf(a, b, i)] \o [k \in 1..Len(OnlyAdded(a, b)) |-> AddedLine(OnlyAdded(a, b)[k])]
BY DEF AlignPasses, LineOf, AddedLine, OnlyAdded, RestOf

Joined(s, F, H, m, d) ==
    /\ DOMAIN s = 1..(m + d)
    /\ \A i \in 1..m : s[i] = F[i]
    /\ \A k \in 1..d : s[m + k] = H[k]

LEMMA ConcatIs ==
    ASSUME NEW m \in Nat, NEW d \in Nat, NEW S, NEW F \in [1..m -> S], NEW H \in [1..d -> S]
    PROVE  Joined(F \o H, F, H, m, d)
<1>1. F \in Seq(S) /\ H \in Seq(S) /\ Len(F) = m /\ Len(H) = d
  OBVIOUS
<1> QED
  BY <1>1 DEF Joined

(* A row of the left list is renamed, removed or paired.                     *)
LEMMA LineIs ==
    ASSUME NEW a, NEW b, NEW i \in DOMAIN a
    PROVE  /\ LineOf(a, b, i).a = i
           /\ \/ i \in Renamed(a, b) /\ LineOf(a, b, i).status = "renamed" /\ LineOf(a, b, i).b = i
              \/ /\ i \in Removed(a, b) \ Renamed(a, b)
                 /\ LineOf(a, b, i).status = "removed" /\ LineOf(a, b, i).b = 0
              \/ /\ i \notin Removed(a, b) /\ LineOf(a, b, i).status = "same"
                 /\ \E p \in Paired(a, b) : p[1] = i /\ p[2] = LineOf(a, b, i).b
<1> DEFINE c == CHOOSE p \in Paired(a, b) : p[1] = i
<1>1. ASSUME i \notin Removed(a, b) PROVE c \in Paired(a, b) /\ c[1] = i
  BY <1>1 DEF Removed
<1>2. Renamed(a, b) \subseteq Removed(a, b)
  BY DEF Renamed
<1>3. LineOf(a, b, i) = IF i \in Renamed(a, b) THEN [status |-> "renamed", a |-> i, b |-> i]
                        ELSE IF i \in Removed(a, b) THEN [status |-> "removed", a |-> i, b |-> 0]
                        ELSE [status |-> "same", a |-> i, b |-> c[2]]
  BY DEF LineOf
<1> HIDE DEF c
<1> QED
  BY <1>1, <1>2, <1>3

(* The shape of the rows: the lines of the left list, then the added ones.   *)
RowsAre(rows, a, b, m, n, only) ==
    /\ only \in Seq(1..n) /\ EachOnce(only, Added(a, b) \ Renamed(a, b))
    /\ DOMAIN rows = 1..(m + Len(only))
    /\ \A i \in 1..m : rows[i] = LineOf(a, b, i)
    /\ \A k \in 1..Len(only) : rows[m + k] = AddedLine(only[k])

LEMMA RowsOfAlign ==
    ASSUME NEW X, NEW a \in Seq(X), NEW b \in Seq(X)
    PROVE  RowsAre(AlignPasses(a, b), a, b, Len(a), Len(b), OnlyAdded(a, b))
<1> DEFINE m == Len(a)
           n == Len(b)
           only == OnlyAdded(a, b)
           d == Len(only)
           F == [i \in 1..m |-> LineOf(a, b, i)]
           H == [k \in 1..d |-> AddedLine(only[k])]
           S == {F[i] : i \in 1..m} \cup {H[k] : k \in 1..d}
           rest == Added(a, b) \ Renamed(a, b)
<1>0. m \in Nat /\ n \in Nat /\ DOMAIN b = 1..n
  OBVIOUS
<1>1. rest \cap (1..n) = rest
  BY <1>0 DEF Added
<1>2. only \in Seq(1..n) /\ EachOnce(only, rest)
  <2>1. only = RestOf(rest, b)
    BY DEF OnlyAdded
  <2> HIDE DEF rest, n, only
  <2> QED
    BY <1>0, <1>1, <2>1, RestIs DEF InTurn
<1>3. d \in Nat
  BY <1>2
<1>4. F \in [1..m -> S] /\ H \in [1..d -> S]
  OBVIOUS
<1>5. AlignPasses(a, b) = F \o H
  BY RowsDef
<1>6. (\A i \in 1..m : F[i] = LineOf(a, b, i)) /\ \A k \in 1..d : H[k] = AddedLine(only[k])
  OBVIOUS
<1> HIDE DEF F, H, S, d, m, only, rest, n
<1>7. Joined(F \o H, F, H, m, d)
  BY <1>0, <1>3, <1>4, ConcatIs
<1>8. RowsAre(F \o H, a, b, m, n, only)
  BY <1>2, <1>6, <1>7 DEF RowsAre, Joined, d, rest
<1> QED
  BY <1>5, <1>8 DEF m, n, only

(* Which row names a position of the right list.                             *)
LEMMA BackIs ==
    ASSUME NEW a, NEW b, NEW m, NEW n, Lengths(a, b, m, n), NEW only, NEW rows, RowsAre(rows, a, b, m, n, only),
           NEW k \in DOMAIN rows, NEW j \in 1..n
    PROVE  rows[k].b = j <=> \/ k = j /\ j \in Renamed(a, b)
                             \/ <<k, j>> \in Paired(a, b)
                             \/ k > m /\ only[k - m] = j
<1> DEFINE d == Len(only)
           Q == Paired(a, b)
<1>0. /\ m \in Nat /\ n \in Nat /\ d \in Nat /\ DOMAIN rows = 1..(m + d)
      /\ DOMAIN a = 1..m /\ DOMAIN b = 1..n
  BY DEF RowsAre, Lengths
<1>1. Q \in SUBSET Grid(m, n) /\ OneToOne(Q)
  BY PairedIs
<1>2. Renamed(a, b) \subseteq Removed(a, b) /\ Renamed(a, b) \subseteq Added(a, b) /\ Removed(a, b) \subseteq 1..m
  BY <1>0 DEF Renamed, Removed
<1>3. \A p \in Q : p[1] \in 1..m /\ p[2] \in 1..n /\ p = <<p[1], p[2]>> /\ p[1] \notin Removed(a, b)
  BY <1>1, GridIs DEF Removed
<1> HIDE DEF Q, d
<1>4. \A i, l : <<i, l>> \in Q => i \in 1..m /\ i \notin Removed(a, b)
  <2> SUFFICES ASSUME NEW i, NEW l, <<i, l>> \in Q PROVE i \in 1..m /\ i \notin Removed(a, b)
    OBVIOUS
  <2>1. <<i, l>>[1] = i
    OBVIOUS
  <2> QED
    BY <1>3, <2>1
<1>5. CASE k \in 1..m
  <2>1. rows[k] = LineOf(a, b, k) /\ ~(k > m)
    BY <1>0, <1>5 DEF RowsAre
  <2>2. \/ k \in Renamed(a, b) /\ rows[k].b = k
        \/ k \in Removed(a, b) \ Renamed(a, b) /\ rows[k].b = 0
        \/ k \notin Removed(a, b) /\ \E p \in Q : p[1] = k /\ p[2] = rows[k].b
    BY <1>0, <1>5, <2>1, LineIs DEF Q
  <2>3. CASE k \in Renamed(a, b)
    BY <1>2, <1>4, <2>1, <2>2, <2>3 DEF Q
  <2>4. CASE k \in Removed(a, b) \ Renamed(a, b)
    <3>1. rows[k].b # j
      BY <1>0, <2>2, <2>4
    <3> QED
      BY <1>2, <1>4, <2>1, <2>4, <3>1 DEF Q
  <2>5. CASE k \notin Removed(a, b)
    <3>1. PICK p \in Q : p[1] = k /\ p[2] = rows[k].b /\ p = <<k, rows[k].b>>
      BY <1>2, <1>3, <2>2, <2>5
    <3>2. <<k, j>> \in Q => p = <<k, j>>
      <4>1. <<k, j>>[1] = k
        OBVIOUS
      <4> QED
        BY <1>1, <3>1, <4>1 DEF OneToOne, Q
    <3>3. <<k, j>> \in Q => rows[k].b = j
      <4>1. <<k, j>>[2] = j
        OBVIOUS
      <4> QED
        BY <3>1, <3>2, <4>1
    <3> QED
      BY <1>2, <2>1, <2>5, <3>1, <3>3 DEF Q
  <2> QED
    BY <2>3, <2>4, <2>5
<1>6. CASE k \notin 1..m
  <2>1. k - m \in 1..d /\ k > m /\ k = m + (k - m)
    BY <1>0, <1>6
  <2>2. rows[k] = AddedLine(only[k - m])
    BY <2>1 DEF RowsAre, d
  <2>3. rows[k].b = only[k - m]
    BY <2>2 DEF AddedLine
  <2>4. k \notin Renamed(a, b) /\ <<k, j>> \notin Q
    BY <1>2, <1>4, <1>6
  <2> QED
    BY <2>1, <2>3, <2>4 DEF Q
<1> QED
  BY <1>5, <1>6

(***************************************************************************)
(* `AlignmentIsAMatching`, part by part.                                   *)
(***************************************************************************)
SameRows(rows) == {r \in ToSet(rows) : r.status = "same"}
FullRows(rows, a, b) == {r \in SameRows(rows) : a[r.a].path = b[r.b].path}
LeftOnce(rows, a) == \A i \in DOMAIN a : Cardinality({k \in DOMAIN rows : rows[k].a = i}) = 1
RightOnce(rows, b) == \A j \in DOMAIN b : Cardinality({k \in DOMAIN rows : rows[k].b = j}) = 1
KeepsOrder(rows, a, b) ==
    \A r, s \in FullRows(rows, a, b) : a[r.a].path = a[s.a].path /\ r.a < s.a => r.b < s.b
NoneLeft(rows, a, b) ==
    \A r, s \in ToSet(rows) : ~(/\ r.status \in {"removed", "renamed"}
                                /\ s.status \in {"added", "renamed"}
                                /\ Leaf(a[r.a]) = Leaf(b[s.b]))
BothWays(rows, a, b) ==
    {<<r.a, r.b>> : r \in FullRows(rows, a, b)} = {<<p[2], p[1]>> : p \in PairBy(Paths(b), Paths(a), {})}

LEMMA MatchingParts ==
    /\ LeftOnce(AlignPasses(left, right), left) /\ RightOnce(AlignPasses(left, right), right)
    /\ KeepsOrder(AlignPasses(left, right), left, right) /\ NoneLeft(AlignPasses(left, right), left, right)
    /\ BothWays(AlignPasses(left, right), left, right)
    => AlignmentIsAMatching
BY DEF AlignmentIsAMatching, LeftOnce, RightOnce, KeepsOrder, NoneLeft, BothWays, FullRows, SameRows

(* Every row is a line of the left list or an added one.                     *)
LEMMA RowIs ==
    ASSUME NEW a, NEW b, NEW m, NEW n, Lengths(a, b, m, n), NEW only, NEW rows, RowsAre(rows, a, b, m, n, only),
           NEW r \in ToSet(rows)
    PROVE  \/ r.a \in 1..m /\ r = LineOf(a, b, r.a)
           \/ /\ r.status = "added" /\ r.a = 0
              /\ r.b \in Added(a, b) \ Renamed(a, b)
<1>0. /\ m \in Nat /\ Len(only) \in Nat /\ DOMAIN rows = 1..(m + Len(only)) /\ DOMAIN a = 1..m
  BY DEF RowsAre, Lengths
<1>1. PICK k \in DOMAIN rows : rows[k] = r
  BY DEF ToSet
<1>2. CASE k \in 1..m
  <2>1. r = LineOf(a, b, k)
    BY <1>1, <1>2 DEF RowsAre
  <2>2. r.a = k
    BY <1>0, <1>2, <2>1, LineIs
  <2> QED
    BY <1>2, <2>1, <2>2
<1>3. CASE k \notin 1..m
  <2>1. k - m \in 1..Len(only) /\ k = m + (k - m)
    BY <1>0, <1>3
  <2>2. r = AddedLine(only[k - m])
    BY <1>1, <2>1 DEF RowsAre
  <2>3. only[k - m] \in Range(only)
    <3>1. only \in Seq(1..n) /\ k - m \in DOMAIN only
      BY <2>1 DEF RowsAre
    <3> QED
      BY <3>1 DEF Range
  <2>4. only[k - m] \in Added(a, b) \ Renamed(a, b)
    BY <2>3 DEF RowsAre, EachOnce
  <2> QED
    BY <2>2, <2>4 DEF AddedLine
<1> QED
  BY <1>2, <1>3

LEMMA LeftIsOnce ==
    ASSUME NEW a, NEW b, NEW m, NEW n, Lengths(a, b, m, n), NEW only, NEW rows, RowsAre(rows, a, b, m, n, only)
    PROVE  LeftOnce(rows, a)
<1>0. /\ m \in Nat /\ Len(only) \in Nat /\ DOMAIN rows = 1..(m + Len(only)) /\ DOMAIN a = 1..m
  BY DEF RowsAre, Lengths
<1> SUFFICES ASSUME NEW i \in 1..m PROVE Cardinality({k \in DOMAIN rows : rows[k].a = i}) = 1
  BY <1>0 DEF LeftOnce
<1>1. ASSUME NEW k \in DOMAIN rows PROVE rows[k].a = i <=> k = i
  <2>1. CASE k \in 1..m
    <3>1. rows[k] = LineOf(a, b, k)
      BY <2>1 DEF RowsAre
    <3> QED
      BY <1>0, <2>1, <3>1, LineIs
  <2>2. CASE k \notin 1..m
    <3>1. k - m \in 1..Len(only) /\ k = m + (k - m)
      BY <1>0, <2>2
    <3>2. rows[k] = AddedLine(only[k - m])
      BY <3>1 DEF RowsAre
    <3>3. rows[k].a = 0
      BY <3>2 DEF AddedLine
    <3> QED
      BY <1>0, <2>2, <3>3
  <2> QED
    BY <2>1, <2>2
<1>2. i \in DOMAIN rows
  BY <1>0
<1>3. {k \in DOMAIN rows : rows[k].a = i} = {i}
  BY <1>1, <1>2
<1> QED
  BY <1>3, FS_Singleton

LEMMA RightIsOnce ==
    ASSUME NEW a, NEW b, NEW m, NEW n, Lengths(a, b, m, n), NEW only, NEW rows, RowsAre(rows, a, b, m, n, only)
    PROVE  RightOnce(rows, b)
<1> DEFINE Q == Paired(a, b)
           d == Len(only)
<1>0. /\ m \in Nat /\ d \in Nat /\ DOMAIN rows = 1..(m + d) /\ DOMAIN a = 1..m /\ DOMAIN b = 1..n
  BY DEF RowsAre, Lengths
<1>1. Q \in SUBSET Grid(m, n) /\ OneToOne(Q)
  BY PairedIs
<1>2. \A p \in Q : p[1] \in 1..m /\ p[2] \in 1..n /\ p = <<p[1], p[2]>> /\ p[2] \notin Added(a, b)
  BY <1>1, GridIs DEF Added
<1>3. Renamed(a, b) \subseteq Added(a, b) /\ Renamed(a, b) \subseteq 1..m
  BY <1>0 DEF Renamed, Removed
<1>4. /\ Range(only) = Added(a, b) \ Renamed(a, b) /\ DOMAIN only = 1..d
      /\ \A x \in 1..d, y \in 1..d : only[x] = only[y] => x = y
  BY DEF RowsAre, EachOnce
<1>5. \A x \in 1..d : only[x] \in Added(a, b) \ Renamed(a, b)
  BY <1>4 DEF Range
<1> HIDE DEF Q, d
<1> SUFFICES ASSUME NEW j \in 1..n PROVE Cardinality({k \in DOMAIN rows : rows[k].b = j}) = 1
  BY <1>0 DEF RightOnce
<1>6. \A k \in DOMAIN rows : rows[k].b = j <=> \/ k = j /\ j \in Renamed(a, b)
                                               \/ <<k, j>> \in Q
                                               \/ k > m /\ only[k - m] = j
  BY BackIs DEF Q
<1>7. \A k : <<k, j>> \in Q => k \in 1..m /\ j \notin Added(a, b)
  <2> SUFFICES ASSUME NEW k, <<k, j>> \in Q PROVE k \in 1..m /\ j \notin Added(a, b)
    OBVIOUS
  <2>1. <<k, j>>[1] = k /\ <<k, j>>[2] = j
    OBVIOUS
  <2> QED
    BY <1>2, <2>1
<1>8. \A k \in DOMAIN rows : k > m => k - m \in 1..d /\ k = m + (k - m)
  BY <1>0
<1>9. \E k \in DOMAIN rows : \A l \in DOMAIN rows : rows[l].b = j <=> l = k
  <2>1. CASE j \in Renamed(a, b)
    <3>1. j \in DOMAIN rows
      BY <1>0, <1>3, <2>1
    <3>2. ASSUME NEW l \in DOMAIN rows PROVE rows[l].b = j <=> l = j
      BY <1>3, <1>5, <1>6, <1>7, <1>8, <2>1
    <3> QED
      BY <3>1, <3>2
  <2>2. CASE j \in Added(a, b) \ Renamed(a, b)
    <3>1. PICK x \in 1..d : only[x] = j
      BY <1>4, <2>2 DEF Range
    <3>2. m + x \in DOMAIN rows /\ m + x > m /\ (m + x) - m = x
      BY <1>0
    <3>3. ASSUME NEW l \in DOMAIN rows PROVE rows[l].b = j <=> l = m + x
      <4>1. rows[l].b = j <=> l > m /\ only[l - m] = j
        BY <1>6, <1>7, <2>2
      <4>2. l > m /\ only[l - m] = j <=> l > m /\ l - m = x
        BY <1>4, <1>8, <3>1
      <4>3. l > m /\ l - m = x <=> l = m + x
        BY <1>0, <3>2
      <4> QED
        BY <4>1, <4>2, <4>3
    <3> QED
      BY <3>2, <3>3
  <2>3. CASE j \notin Added(a, b)
    <3>1. PICK p \in Q : p[2] = j
      BY <1>0, <2>3 DEF Added, Q
    <3>2. p[1] \in 1..m /\ <<p[1], j>> \in Q
      BY <1>2, <3>1
    <3>3. p[1] \in DOMAIN rows
      BY <1>0, <3>2
    <3>4. \A l : <<l, j>> \in Q => l = p[1]
      <4> SUFFICES ASSUME NEW l, <<l, j>> \in Q PROVE l = p[1]
        OBVIOUS
      <4>1. <<l, j>>[1] = l /\ <<l, j>>[2] = j
        OBVIOUS
      <4>2. <<l, j>> = p
        BY <1>1, <3>1, <4>1 DEF OneToOne
      <4> QED
        BY <4>1, <4>2
    <3>5. ASSUME NEW l \in DOMAIN rows PROVE rows[l].b = j <=> l = p[1]
      <4>1. j \notin Renamed(a, b) /\ ~(l > m /\ only[l - m] = j)
        BY <1>3, <1>5, <1>8, <2>3
      <4> QED
        BY <1>6, <3>2, <3>4, <4>1
    <3> QED
      BY <3>3, <3>5
  <2> QED
    BY <2>1, <2>2, <2>3
<1>10. PICK k \in DOMAIN rows : \A l \in DOMAIN rows : rows[l].b = j <=> l = k
  BY <1>9
<1>11. {l \in DOMAIN rows : rows[l].b = j} = {k}
  BY <1>10
<1> QED
  BY <1>11, FS_Singleton

(* The rows of equal paths are the pairs of the first rule.                  *)
LEMMA FullIs ==
    ASSUME NEW a, NEW b, NEW m, NEW n, Lengths(a, b, m, n), NEW only, NEW rows, RowsAre(rows, a, b, m, n, only)
    PROVE  /\ \A r \in FullRows(rows, a, b) : <<r.a, r.b>> \in PairBy(Paths(a), Paths(b), {}) /\ r.a \in 1..m
           /\ \A p \in PairBy(Paths(a), Paths(b), {}) : \E r \in FullRows(rows, a, b) : r.a = p[1] /\ r.b = p[2]
<1> DEFINE P == PairBy(Paths(a), Paths(b), {})
           Q == Paired(a, b)
           d == Len(only)
<1>0. /\ m \in Nat /\ d \in Nat /\ DOMAIN rows = 1..(m + d) /\ DOMAIN a = 1..m
  BY DEF RowsAre, Lengths
<1>1. /\ Q \in SUBSET Grid(m, n) /\ OneToOne(Q) /\ P \subseteq Q
      /\ \A p \in Q : a[p[1]].path = b[p[2]].path <=> p \in P
  BY PairedIs
<1>2. \A p \in Q : p[1] \in 1..m /\ p[2] \in 1..n /\ p = <<p[1], p[2]>> /\ p[1] \notin Removed(a, b)
  BY <1>1, GridIs DEF Removed
<1> HIDE DEF P, Q, d
<1>3. ASSUME NEW r \in FullRows(rows, a, b) PROVE <<r.a, r.b>> \in P /\ r.a \in 1..m
  <2>1. r \in ToSet(rows) /\ r.status = "same" /\ a[r.a].path = b[r.b].path
    BY DEF FullRows, SameRows
  <2>2. r.a \in 1..m /\ r = LineOf(a, b, r.a)
    <3>1. \/ r.a \in 1..m /\ r = LineOf(a, b, r.a)
          \/ r.status = "added"
      BY <2>1, RowIs
    <3> QED
      BY <2>1, <3>1
  <2>3. PICK p \in Q : p[1] = r.a /\ p[2] = r.b
    <3> DEFINE i == r.a
               line == LineOf(a, b, i)
    <3>1. i \in DOMAIN a /\ line.status = "same" /\ line.b = r.b
      BY <1>0, <2>1, <2>2
    <3> HIDE DEF i, line
    <3>2. \/ line.status = "renamed" \/ line.status = "removed"
          \/ \E p \in Q : p[1] = i /\ p[2] = line.b
      BY <3>1, LineIs DEF line, Q
    <3> QED
      BY <3>1, <3>2 DEF i
  <2>4. p \in P
    BY <1>1, <2>1, <2>3
  <2> QED
    BY <1>2, <2>2, <2>3, <2>4
<1>4. ASSUME NEW p \in P PROVE \E r \in FullRows(rows, a, b) : r.a = p[1] /\ r.b = p[2]
  <2> DEFINE i == p[1]
             line == LineOf(a, b, i)
  <2>1. p \in Q /\ i \in 1..m /\ i \notin Removed(a, b) /\ a[p[1]].path = b[p[2]].path
    BY <1>1, <1>2
  <2>2. line = rows[i] /\ i \in DOMAIN rows /\ i \in DOMAIN a
    BY <1>0, <2>1 DEF RowsAre
  <2>3. line \in ToSet(rows)
    BY <2>2 DEF ToSet
  <2>4. i \notin Renamed(a, b)
    BY <2>1 DEF Renamed
  <2>5. line.a = i /\ line.status = "same" /\ \E q \in Q : q[1] = i /\ q[2] = line.b
    <3> HIDE DEF i
    <3> QED
      BY <2>1, <2>2, <2>4, LineIs DEF Q
  <2> HIDE DEF line
  <2>6. PICK q \in Q : q[1] = i /\ q[2] = line.b
    BY <2>5
  <2>7. q = p
    BY <1>1, <2>1, <2>6 DEF OneToOne
  <2>8. line \in FullRows(rows, a, b)
    BY <2>1, <2>3, <2>5, <2>6, <2>7 DEF FullRows, SameRows
  <2> QED
    BY <2>5, <2>6, <2>7, <2>8
<1> QED
  BY <1>3, <1>4 DEF P

LEMMA KeepsOrderIs ==
    ASSUME NEW a, NEW b, NEW m, NEW n, Lengths(a, b, m, n), NEW only, NEW rows, RowsAre(rows, a, b, m, n, only)
    PROVE  KeepsOrder(rows, a, b)
<1> DEFINE P == PairBy(Paths(a), Paths(b), {})
<1>0. \A i \in 1..m : Paths(a)[i] = a[i].path
  BY DEF Paths, Lengths
<1>1. FirstCome(P, Paths(a), Paths(b), m, n)
  BY PairedIs
<1>2. \A r \in FullRows(rows, a, b) : <<r.a, r.b>> \in P /\ r.a \in 1..m
  BY FullIs
<1> HIDE DEF P
<1> SUFFICES ASSUME NEW r \in FullRows(rows, a, b), NEW s \in FullRows(rows, a, b),
                    a[r.a].path = a[s.a].path, r.a < s.a
             PROVE  r.b < s.b
  BY DEF KeepsOrder
<1> DEFINE p == <<r.a, r.b>>
           q == <<s.a, s.b>>
<1>3. p \in P /\ q \in P /\ p[1] = r.a /\ p[2] = r.b /\ q[1] = s.a /\ q[2] = s.b
  BY <1>2
<1>4. p[1] \in 1..m /\ p[1] < q[1] /\ Paths(a)[p[1]] = Paths(a)[q[1]]
  BY <1>0, <1>2, <1>3
<1> HIDE DEF p, q
<1>5. PICK t \in P : t[1] = p[1] /\ t[2] < q[2]
  BY <1>1, <1>3, <1>4 DEF FirstCome
<1>6. t = p
  BY <1>1, <1>3, <1>5 DEF FirstCome, OneToOne
<1> QED
  BY <1>3, <1>5, <1>6

LEMMA NoneIsLeft ==
    ASSUME NEW a, NEW b, NEW m, NEW n, Lengths(a, b, m, n), NEW only, NEW rows, RowsAre(rows, a, b, m, n, only)
    PROVE  NoneLeft(rows, a, b)
<1>0. DOMAIN a = 1..m /\ DOMAIN b = 1..n
  BY DEF Lengths
<1>1. \A i \in 1..m, j \in 1..n : Leaf(a[i]) = Leaf(b[j]) => \E q \in Paired(a, b) : q[1] = i \/ q[2] = j
  BY PairedIs
<1> SUFFICES ASSUME NEW r \in ToSet(rows), NEW s \in ToSet(rows), r.status \in {"removed", "renamed"},
                    s.status \in {"added", "renamed"}, Leaf(a[r.a]) = Leaf(b[s.b])
             PROVE  FALSE
  BY DEF NoneLeft
<1>2. r.a \in Removed(a, b)
  <2> DEFINE i == r.a
             line == LineOf(a, b, i)
  <2>1. i \in 1..m /\ r = line
    <3>1. (r.a \in 1..m /\ r = LineOf(a, b, r.a)) \/ r.status = "added"
      BY RowIs
    <3> QED
      BY <3>1
  <2> HIDE DEF i, line
  <2>2. \/ i \in Renamed(a, b)
        \/ i \in Removed(a, b)
        \/ line.status = "same"
    BY <1>0, <2>1, LineIs DEF line
  <2>3. Renamed(a, b) \subseteq Removed(a, b)
    BY DEF Renamed
  <2> QED
    BY <2>1, <2>2, <2>3 DEF i
<1>3. s.b \in Added(a, b)
  <2>1. Renamed(a, b) \subseteq Added(a, b)
    BY DEF Renamed
  <2>2. CASE s.status = "added"
    <3>1. (s.a \in 1..m /\ s = LineOf(a, b, s.a)) \/ s.b \in Added(a, b) \ Renamed(a, b)
      BY RowIs
    <3>2. CASE s.a \in 1..m /\ s = LineOf(a, b, s.a)
      <4> DEFINE i == s.a
                 line == LineOf(a, b, i)
      <4>1. i \in DOMAIN a /\ s = line
        BY <1>0, <3>2
      <4> HIDE DEF i, line
      <4>2. line.status \in {"renamed", "removed", "same"}
        BY <4>1, LineIs DEF line
      <4> QED
        BY <2>2, <4>1, <4>2
    <3> QED
      BY <3>1, <3>2
  <2>3. CASE s.status = "renamed"
    <3> DEFINE i == s.a
               line == LineOf(a, b, i)
    <3>1. i \in 1..m /\ s = line
      <4>1. (s.a \in 1..m /\ s = LineOf(a, b, s.a)) \/ s.status = "added"
        BY RowIs
      <4> QED
        BY <2>3, <4>1
    <3> HIDE DEF i, line
    <3>2. i \in Renamed(a, b) /\ line.b = i
      BY <1>0, <2>3, <3>1, LineIs DEF line
    <3> QED
      BY <2>1, <3>1, <3>2
  <2> QED
    BY <2>2, <2>3
<1>4. r.a \in 1..m /\ (\A p \in Paired(a, b) : p[1] # r.a)
  BY <1>0, <1>2 DEF Removed
<1>5. s.b \in 1..n /\ (\A p \in Paired(a, b) : p[2] # s.b)
  BY <1>0, <1>3 DEF Added
<1> HIDE DEF Leaf
<1> QED
  BY <1>1, <1>4, <1>5

LEMMA BothWaysIs ==
    ASSUME NEW a, NEW b, NEW m, NEW n, Lengths(a, b, m, n), NEW only, NEW rows, RowsAre(rows, a, b, m, n, only)
    PROVE  BothWays(rows, a, b)
<1> DEFINE P == PairBy(Paths(a), Paths(b), {})
           R == PairBy(Paths(b), Paths(a), {})
           pairs == {<<r.a, r.b>> : r \in FullRows(rows, a, b)}
<1>0. m \in Nat /\ n \in Nat /\ Lengths(Paths(a), Paths(b), m, n) /\ Lengths(Paths(b), Paths(a), n, m)
  BY DEF Paths, Lengths
<1>1. FirstCome(P, Paths(a), Paths(b), m, n) /\ FirstCome(R, Paths(b), Paths(a), n, m)
  BY <1>0, FirstComeIs
<1>2. /\ \A r \in FullRows(rows, a, b) : <<r.a, r.b>> \in P
      /\ \A p \in P : \E r \in FullRows(rows, a, b) : r.a = p[1] /\ r.b = p[2]
  BY FullIs
<1> HIDE DEF P, R
<1>3. FirstCome(Turned(R), Paths(a), Paths(b), m, n)
  BY <1>1, FirstComeTurned
<1>4. P = Turned(R)
  BY <1>0, <1>1, <1>3, FirstComeOnly
<1>5. \A p \in P : p = <<p[1], p[2]>>
  BY <1>1, GridIs DEF FirstCome
<1>6. pairs = P
  <2>1. \A p \in P : p \in pairs
    <3> SUFFICES ASSUME NEW p \in P PROVE p \in pairs
      OBVIOUS
    <3>1. PICK r \in FullRows(rows, a, b) : r.a = p[1] /\ r.b = p[2]
      BY <1>2
    <3> QED
      BY <1>5, <3>1
  <2> QED
    BY <1>2, <2>1
<1> QED
  BY <1>4, <1>6 DEF BothWays, Turned, R

AlignInv == left \in Seq(Passes) /\ right \in Seq(Passes)

LEMMA MatchingFromInv == AlignInv => AlignmentIsAMatching
<1> SUFFICES ASSUME AlignInv PROVE AlignmentIsAMatching
  OBVIOUS
<1> DEFINE rows == AlignPasses(left, right)
           m == Len(left)
           n == Len(right)
           only == OnlyAdded(left, right)
<1>1. Lengths(left, right, m, n)
  BY DEF AlignInv, Lengths
<1>2. RowsAre(rows, left, right, m, n, only)
  BY RowsOfAlign DEF AlignInv
<1> HIDE DEF rows, m, n, only
<1>3. LeftOnce(rows, left)
  BY <1>1, <1>2, LeftIsOnce
<1>4. RightOnce(rows, right)
  BY <1>1, <1>2, RightIsOnce
<1>5. KeepsOrder(rows, left, right) /\ NoneLeft(rows, left, right) /\ BothWays(rows, left, right)
  BY <1>1, <1>2, KeepsOrderIs, NoneIsLeft, BothWaysIs
<1> QED
  BY <1>3, <1>4, <1>5, MatchingParts DEF rows

(* Whatever passes two frames have, lining them up loses none and names none *)
(* twice, keeps the order of one path, leaves no innermost name on both      *)
(* sides and pairs full paths alike from either side (align_passes,          *)
(* _pair_by).                                                                *)
THEOREM AlignmentMatches == AlignSpec => []AlignmentIsAMatching
<1>1. AlignInit => AlignInv
  BY DEF AlignInit, AlignInv
<1>2. AlignInv /\ [AlignNext]_alignVars => AlignInv'
  <2> SUFFICES ASSUME AlignInv, [AlignNext]_alignVars PROVE AlignInv'
    OBVIOUS
  <2>1. CASE UNCHANGED alignVars
    BY <2>1 DEF AlignInv, alignVars
  <2>2. ASSUME NEW pass \in Passes, left' = Append(left, pass), right' = right PROVE AlignInv'
    BY <2>2 DEF AlignInv
  <2>3. ASSUME NEW pass \in Passes, right' = Append(right, pass), left' = left PROVE AlignInv'
    BY <2>3 DEF AlignInv
  <2> QED
    BY <2>1, <2>2, <2>3 DEF AlignNext
<1>3. AlignInv => AlignmentIsAMatching
  BY MatchingFromInv
<1> QED
  BY <1>1, <1>2, <1>3, PTL DEF AlignSpec

-----------------------------------------------------------------------------
(***************************************************************************)
(* Lists of no set in particular.                                          *)
(***************************************************************************)
IsList(s) == s \in Seq(Range(s))

LEMMA ListIs ==
    ASSUME NEW S, NEW s \in Seq(S)
    PROVE  IsList(s)
<1>1. DOMAIN s = 1..Len(s) /\ Len(s) \in Nat
  OBVIOUS
<1>2. s = [i \in 1..Len(s) |-> s[i]]
  OBVIOUS
<1>3. \A i \in 1..Len(s) : s[i] \in Range(s)
  BY <1>1 DEF Range
<1> QED
  BY <1>1, <1>2, <1>3 DEF IsList

LEMMA ListHas ==
    ASSUME NEW s, IsList(s)
    PROVE  /\ Len(s) \in Nat /\ DOMAIN s = 1..Len(s)
           /\ \A i \in 1..Len(s) : s[i] \in Range(s)
BY DEF IsList

LEMMA ListGrows ==
    ASSUME NEW s, IsList(s), NEW e
    PROVE  /\ IsList(Append(s, e)) /\ Len(Append(s, e)) = Len(s) + 1
           /\ \A i \in 1..Len(s) : Append(s, e)[i] = s[i]
           /\ Append(s, e)[Len(s) + 1] = e
<1> DEFINE S == Range(s) \cup {e}
<1>1. s \in Seq(Range(s)) /\ Range(s) \subseteq S /\ e \in S
  BY DEF IsList
<1> HIDE DEF S
<1>2. s \in Seq(S)
  BY <1>1
<1>3. Append(s, e) \in Seq(S)
  BY <1>1, <1>2
<1>4. IsList(Append(s, e))
  BY <1>3, ListIs
<1>5. /\ Len(Append(s, e)) = Len(s) + 1
      /\ \A i \in 1..Len(s) : Append(s, e)[i] = s[i]
      /\ Append(s, e)[Len(s) + 1] = e
  BY <1>1, <1>2
<1> QED
  BY <1>4, <1>5

(***************************************************************************)
(* The walk of a stream, chunk by chunk.                                   *)
(***************************************************************************)
AtFirst == [stack |-> <<>>, states |-> Empty, pending |-> Empty, records |-> <<>>]

RecordsFrom(f, chunks, slots, n) ==
    [s \in SUBSET (1..n) |->
        IF s = {} THEN AtFirst ELSE LET x == Max(s) IN Walked(f[s \ {x}], chunks[x], slots)]

LEMMA RecordsDef ==
    ASSUME NEW chunks, NEW n, DOMAIN chunks = 1..n
    PROVE  CallRecords(chunks) =
             (CHOOSE f : f = RecordsFrom(f, chunks, HeapsOf(chunks), n))[1..n].records
BY DEF CallRecords, FoldLeft, MapThenFoldSet, RecordsFrom, AtFirst

\* A subset of 1..k is one of 1..(k - 1), or has k as its largest.
LEMMA LastOrNot ==
    ASSUME NEW k \in Nat, k # 0, NEW s \in SUBSET (1..k)
    PROVE  /\ k \notin s => s \in SUBSET (1..(k - 1))
           /\ k \in s => Max(s) = k /\ s \ {k} \in SUBSET (1..(k - 1))
           /\ s # {} => Max(s) \in s
<1>1. s \in SUBSET (0..k) /\ k \in Nat
  OBVIOUS
<1>2. s # {} => Max(s) \in s /\ \A y \in s : y <= Max(s)
  BY <1>1, NatMaxIs
<1>3. ASSUME k \in s PROVE Max(s) = k
  <2>1. Max(s) \in s /\ k <= Max(s)
    BY <1>2, <1>3
  <2>2. Max(s) \in 1..k
    BY <2>1
  <2> HIDE DEF Max
  <2> QED
    BY <2>1, <2>2
<1>4. k \notin s => s \in SUBSET (1..(k - 1))
  OBVIOUS
<1>5. s \ {k} \in SUBSET (1..(k - 1))
  OBVIOUS
<1> QED
  BY <1>2, <1>3, <1>4, <1>5

LEMMA RecordsExist ==
    ASSUME NEW chunks, NEW slots, NEW n \in Nat
    PROVE  \E f : f = RecordsFrom(f, chunks, slots, n)
<1> DEFINE good == {k \in 0..n : \E f : f = RecordsFrom(f, chunks, slots, k)}
<1>1. 0 \in good
  <2> DEFINE f == [s \in SUBSET (1..0) |-> AtFirst]
  <2>1. \A s \in SUBSET (1..0) : s = {}
    OBVIOUS
  <2>2. f = RecordsFrom(f, chunks, slots, 0)
    BY <2>1 DEF RecordsFrom
  <2> QED
    BY <2>2
<1>2. ASSUME NEW k \in (0 + 1)..n, k - 1 \in good PROVE k \in good
  <2>0. k \in Nat /\ k # 0 /\ k \in 0..n
    OBVIOUS
  <2>1. PICK f : f = RecordsFrom(f, chunks, slots, k - 1)
    BY <1>2
  <2>2. \A s \in SUBSET (1..(k - 1)) :
           f[s] = IF s = {} THEN AtFirst ELSE Walked(f[s \ {Max(s)}], chunks[Max(s)], slots)
    BY <2>1 DEF RecordsFrom
  <2> DEFINE g == [s \in SUBSET (1..k) |-> IF k \in s THEN Walked(f[s \ {k}], chunks[k], slots) ELSE f[s]]
  <2>3. \A s \in SUBSET (1..k) : g[s] = IF k \in s THEN Walked(f[s \ {k}], chunks[k], slots) ELSE f[s]
    OBVIOUS
  <2>4. g = [s \in SUBSET (1..k) |-> g[s]]
    OBVIOUS
  <2> HIDE DEF g
  <2>5. \A s \in SUBSET (1..(k - 1)) : g[s] = f[s]
    BY <2>0, <2>3
  <2>6. ASSUME NEW s \in SUBSET (1..k)
        PROVE  g[s] = IF s = {} THEN AtFirst ELSE Walked(g[s \ {Max(s)}], chunks[Max(s)], slots)
    <3>1. CASE k \in s
      <4>1. Max(s) = k /\ s \ {k} \in SUBSET (1..(k - 1))
        BY <2>0, <3>1, LastOrNot
      <4>2. g[s] = Walked(f[s \ {k}], chunks[k], slots)
        BY <2>3, <3>1
      <4>3. g[s \ {k}] = f[s \ {k}]
        BY <2>5, <4>1
      <4> QED
        BY <3>1, <4>1, <4>2, <4>3
    <3>2. CASE k \notin s
      <4>1. s \in SUBSET (1..(k - 1))
        BY <2>0, <3>2, LastOrNot
      <4>2. s \ {Max(s)} \in SUBSET (1..(k - 1))
        BY <4>1
      <4>3. g[s] = f[s] /\ g[s \ {Max(s)}] = f[s \ {Max(s)}]
        BY <2>5, <4>1, <4>2
      <4> QED
        BY <2>2, <4>1, <4>3
    <3> QED
      BY <3>1, <3>2
  <2>7. g = RecordsFrom(g, chunks, slots, k)
    BY <2>4, <2>6 DEF RecordsFrom
  <2> QED
    BY <2>0, <2>7
<1>3. n \in good
  <2> HIDE DEF good
  <2>1. \A k \in 0..n : k \in good
    BY <1>1, <1>2, Climbs
  <2> QED
    BY <2>1
<1> QED
  BY <1>3

\* What the walk has after each chunk.
RecordsChain(g, chunks, slots, n) ==
    /\ g[0] = AtFirst
    /\ \A k \in 1..n : g[k] = Walked(g[k - 1], chunks[k], slots)

LEMMA RecordsClimb ==
    ASSUME NEW chunks, NEW n \in Nat, DOMAIN chunks = 1..n
    PROVE  \E g : RecordsChain(g, chunks, HeapsOf(chunks), n) /\ CallRecords(chunks) = g[n].records
<1> DEFINE slots == HeapsOf(chunks)
           f == CHOOSE f : f = RecordsFrom(f, chunks, slots, n)
           g == [k \in 0..n |-> f[1..k]]
<1> HIDE DEF slots
<1>1. f = RecordsFrom(f, chunks, slots, n)
  BY RecordsExist
<1>2. CallRecords(chunks) = f[1..n].records
  BY RecordsDef DEF slots
<1> HIDE DEF f
<1>3. \A s \in SUBSET (1..n) :
         f[s] = IF s = {} THEN AtFirst ELSE Walked(f[s \ {Max(s)}], chunks[Max(s)], slots)
  BY <1>1 DEF RecordsFrom
<1>4. g[0] = AtFirst
  <2>1. 1..0 = {} /\ 0 \in 0..n
    OBVIOUS
  <2> QED
    BY <1>3, <2>1
<1>5. ASSUME NEW k \in 1..n PROVE g[k] = Walked(g[k - 1], chunks[k], slots)
  <2>1. k \in 0..n /\ k - 1 \in 0..n
    OBVIOUS
  <2>2. f[1..k] = Walked(f[1..(k - 1)], chunks[k], slots)
    <3> DEFINE s == 1..k
    <3>1. s \in SUBSET (1..n) /\ s # {} /\ Max(s) = k /\ s \ {k} = 1..(k - 1)
      BY Rung
    <3> HIDE DEF s
    <3>2. f[s] = Walked(f[s \ {Max(s)}], chunks[Max(s)], slots)
      BY <1>3, <3>1
    <3> QED
      BY <3>1, <3>2 DEF s
  <2> QED
    BY <2>1, <2>2
<1>6. g[n] = f[1..n]
  OBVIOUS
<1> HIDE DEF g
<1>7. RecordsChain(g, chunks, slots, n)
  BY <1>4, <1>5 DEF RecordsChain
<1> QED
  BY <1>2, <1>6, <1>7 DEF slots

(***************************************************************************)
(* What has been gathered is what the chunks so far say.                   *)
(***************************************************************************)
LEMMA PutHas ==
    ASSUME NEW f, NEW key, NEW value, NEW k, NEW other
    PROVE  ValueOr(Put(f, key, value), k, other) = IF k = key THEN value ELSE ValueOr(f, k, other)
BY DEF ValueOr, Put

LEMMA PutGives ==
    ASSUME NEW f, NEW key, NEW value, NEW other
    PROVE  ValueOr(Put(f, key, value), key, other) = value
BY DEF ValueOr, Put

LEMMA CallsGrow ==
    ASSUME NEW chunks, NEW k \in Nat, k # 0
    PROVE  Calls(chunks, k) = IF chunks[k].op = "draw" THEN Calls(chunks, k - 1) \cup {k} ELSE Calls(chunks, k - 1)
<1>1. 1..k = (1..(k - 1)) \cup {k} /\ k \notin 1..(k - 1)
  OBVIOUS
<1> QED
  BY <1>1 DEF Calls

LEMMA CallsCounted ==
    ASSUME NEW chunks, NEW k \in Nat
    PROVE  /\ IsFiniteSet(Calls(chunks, k)) /\ Cardinality(Calls(chunks, k)) \in Nat
           /\ \A at \in Calls(chunks, k) : Cardinality(Calls(chunks, at)) \in 1..Cardinality(Calls(chunks, k))
<1>1. ASSUME NEW j \in Nat PROVE IsFiniteSet(Calls(chunks, j)) /\ Cardinality(Calls(chunks, j)) \in Nat
  <2>1. IsFiniteSet(1..j)
    BY FS_Interval
  <2>2. IsFiniteSet(Calls(chunks, j))
    BY <2>1, FS_Subset DEF Calls
  <2> QED
    BY <2>2, FS_CardinalityType
<1>2. ASSUME NEW at \in Calls(chunks, k)
      PROVE  Cardinality(Calls(chunks, at)) \in 1..Cardinality(Calls(chunks, k))
  <2>1. at \in 1..k /\ at \in Nat
    BY DEF Calls
  <2>2. Calls(chunks, at) \subseteq Calls(chunks, k) /\ at \in Calls(chunks, at)
    BY <2>1 DEF Calls
  <2>3. Cardinality(Calls(chunks, at)) <= Cardinality(Calls(chunks, k))
    BY <1>1, <2>2, FS_Subset
  <2>4. Cardinality(Calls(chunks, at)) # 0
    BY <1>1, <2>1, <2>2, FS_EmptySet
  <2> QED
    BY <1>1, <2>1, <2>3, <2>4
<1> QED
  BY <1>1, <1>2

LEMMA SinceGrows ==
    ASSUME NEW chunks, NEW list, NEW k \in Nat, k # 0
    PROVE  SetSince(chunks, list, k) =
             IF chunks[k].op = "draw" /\ chunks[k].list = list THEN {}
             ELSE IF SetsState(chunks[k]) /\ chunks[k].list = list THEN SetSince(chunks, list, k - 1) \cup {k}
             ELSE SetSince(chunks, list, k - 1)
<1> DEFINE set(i) == SetsState(chunks[i]) /\ chunks[i].list = list
           call(i) == chunks[i].op = "draw" /\ chunks[i].list = list
           now == SetSince(chunks, list, k)
           before == SetSince(chunks, list, k - 1)
<1>1. now = {i \in 1..k : set(i) /\ \A j \in (i + 1)..k : ~call(j)}
  BY DEF SetSince
<1>2. before = {i \in 1..(k - 1) : set(i) /\ \A j \in (i + 1)..(k - 1) : ~call(j)}
  BY DEF SetSince
<1>3. set(k) => ~call(k)
  BY DEF SetsState, Setters
<1> HIDE DEF now, before, set, call
<1>4. \A i \in 1..k : i \in 1..(k - 1) \/ i = k
  OBVIOUS
<1>5. \A i \in 1..(k - 1) : i \in 1..k /\ k \in (i + 1)..k
  OBVIOUS
<1>6. (k + 1)..k = {} /\ k \in 1..k /\ k \notin 1..(k - 1)
  OBVIOUS
<1>7. \A i \in 1..(k - 1) : (\A j \in (i + 1)..k : ~call(j)) <=> ~call(k) /\ \A j \in (i + 1)..(k - 1) : ~call(j)
  OBVIOUS
<1>8. \A i \in 1..(k - 1) : i \in now <=> ~call(k) /\ i \in before
  BY <1>1, <1>2, <1>5, <1>7
<1>9. k \in now <=> set(k)
  BY <1>1, <1>6
<1>10. now \subseteq 1..k /\ before \subseteq 1..(k - 1)
  BY <1>1, <1>2
<1>11. now = IF call(k) THEN {} ELSE IF set(k) THEN before \cup {k} ELSE before
  <2>1. CASE call(k)
    <3>1. \A i \in 1..k : i \notin now
      BY <1>3, <1>4, <1>8, <1>9, <2>1
    <3> QED
      BY <1>10, <2>1, <3>1
  <2>2. CASE ~call(k) /\ set(k)
    <3>1. \A i \in 1..k : i \in now <=> i \in before \cup {k}
      BY <1>4, <1>6, <1>8, <1>9, <2>2
    <3>2. before \cup {k} \subseteq 1..k
      BY <1>5, <1>6, <1>10
    <3> QED
      BY <1>10, <2>2, <3>1, <3>2
  <2>3. CASE ~call(k) /\ ~set(k)
    <3>1. \A i \in 1..k : i \in now <=> i \in before
      BY <1>4, <1>6, <1>8, <1>9, <1>10, <2>3
    <3>2. before \subseteq 1..k
      BY <1>5, <1>10
    <3> QED
      BY <1>10, <2>3, <3>1, <3>2
  <2> QED
    BY <2>1, <2>2, <2>3
<1> QED
  BY <1>11 DEF now, before, set, call

LEMMA SinceWithin ==
    ASSUME NEW chunks, NEW list, NEW k \in Nat
    PROVE  SetSince(chunks, list, k) \subseteq 1..k
BY DEF SetSince

\* One more chunk that did something.
LEMMA OpsGrow ==
    ASSUME NEW chunks, NEW k \in Nat, k # 0, NEW X \in SUBSET (1..(k - 1)), NEW ops, IsList(ops), AreOps(ops, chunks, X)
    PROVE  AreOps(Append(ops, chunks[k].op), chunks, X \cup {k})
<1> DEFINE Y == X \cup {k}
           more == Append(ops, chunks[k].op)
           upto(i) == {j \in X : j <= i}
<1>0. Len(ops) = Cardinality(X) /\ \A i \in X : ops[Cardinality(upto(i))] = chunks[i].op
  BY DEF AreOps
<1>1. IsFiniteSet(X) /\ k \notin X /\ Cardinality(X) \in Nat
  <2>1. IsFiniteSet(1..(k - 1))
    BY FS_Interval
  <2>2. IsFiniteSet(X)
    BY <2>1, FS_Subset
  <2>3. k \notin X
    OBVIOUS
  <2> QED
    BY <2>2, <2>3, FS_CardinalityType
<1>2. Cardinality(Y) = Cardinality(X) + 1
  BY <1>1, FS_AddElement
<1>3. /\ Len(more) = Len(ops) + 1 /\ more[Len(ops) + 1] = chunks[k].op
      /\ \A i \in 1..Len(ops) : more[i] = ops[i]
  BY ListGrows
<1> HIDE DEF more
<1>4. ASSUME NEW i \in X PROVE more[Cardinality({j \in Y : j <= i})] = chunks[i].op
  <2>1. {j \in Y : j <= i} = upto(i)
    OBVIOUS
  <2>2. upto(i) \subseteq X /\ i \in upto(i)
    OBVIOUS
  <2> HIDE DEF upto
  <2>3. Cardinality(upto(i)) <= Cardinality(X) /\ IsFiniteSet(upto(i))
    BY <1>1, <2>2, FS_Subset
  <2>4. Cardinality(upto(i)) \in Nat /\ Cardinality(upto(i)) # 0
    BY <2>2, <2>3, FS_CardinalityType, FS_EmptySet
  <2>5. Cardinality(upto(i)) \in 1..Len(ops)
    BY <1>0, <1>1, <2>3, <2>4
  <2> QED
    BY <1>0, <1>3, <2>1, <2>5
<1>5. more[Cardinality({j \in Y : j <= k})] = chunks[k].op
  <2>1. {j \in Y : j <= k} = Y
    <3>1. \A j \in Y : j <= k
      OBVIOUS
    <3> HIDE DEF Y
    <3> QED
      BY <3>1
  <2> HIDE DEF Y
  <2> QED
    BY <1>0, <1>2, <1>3, <2>1
<1>6. \A i \in Y : more[Cardinality({j \in Y : j <= i})] = chunks[i].op
  BY <1>4, <1>5
<1>7. AreOps(more, chunks, Y)
  BY <1>0, <1>2, <1>3, <1>6 DEF AreOps
<1> QED
  BY <1>7 DEF more

\* A record more leaves which call the others are.
LEMMA NthGrows ==
    ASSUME NEW s, IsList(s), NEW e
    PROVE  /\ \A i \in 1..Len(s) : Nth(Append(s, e), i) = Nth(s, i)
           /\ Nth(Append(s, e), Len(s) + 1) = Cardinality({i \in DOMAIN s : s[i].path = e.path /\ s[i].call = e.call}) + 1
<1> DEFINE t == Append(s, e)
           n == Len(s)
           alike == {i \in 1..n : s[i].path = e.path /\ s[i].call = e.call}
<1>0. n \in Nat /\ DOMAIN s = 1..n
  BY ListHas
<1>1. (\A i \in 1..n : t[i] = s[i]) /\ t[n + 1] = e
  BY ListGrows
<1> HIDE DEF t, n
<1>2. ASSUME NEW i \in 1..n PROVE Nth(t, i) = Nth(s, i)
  <2>1. \A k \in 1..i : k \in 1..n /\ t[k] = s[k]
    BY <1>0, <1>1
  <2>2. t[i] = s[i]
    BY <1>1
  <2>3. {k \in 1..i : t[k].path = t[i].path /\ t[k].call = t[i].call}
          = {k \in 1..i : s[k].path = s[i].path /\ s[k].call = s[i].call}
    BY <2>1, <2>2
  <2> QED
    BY <2>3 DEF Nth
<1>3. Nth(t, n + 1) = Cardinality(alike) + 1
  <2>1. {k \in 1..(n + 1) : t[k].path = t[n + 1].path /\ t[k].call = t[n + 1].call} = alike \cup {n + 1}
    <3>1. \A k \in 1..(n + 1) : k \in 1..n \/ k = n + 1
      BY <1>0
    <3>2. (\A k \in 1..n : k \in 1..(n + 1)) /\ n + 1 \in 1..(n + 1)
      BY <1>0
    <3> QED
      BY <1>1, <3>1, <3>2
  <2>2. IsFiniteSet(alike) /\ n + 1 \notin alike
    <3>1. IsFiniteSet(1..n) /\ n + 1 \notin 1..n
      BY <1>0, FS_Interval
    <3> QED
      BY <3>1, FS_Subset
  <2>3. Cardinality(alike \cup {n + 1}) = Cardinality(alike) + 1
    BY <2>2, FS_AddElement
  <2> QED
    BY <2>1, <2>3 DEF Nth
<1> QED
  BY <1>0, <1>2, <1>3 DEF t, n

\* The record of a call.
RecordOf(acc, c, slots) ==
    [path |-> acc.stack, call |-> c.call,
     ordinal |-> Cardinality({i \in DOMAIN acc.records : acc.records[i].path = acc.stack /\ acc.records[i].call = c.call}) + 1,
     args |-> c.args, setters |-> ValueOr(acc.pending, c.list, <<>>),
     bindings |-> IF c.list \in DOMAIN acc.states
                  THEN CallBindings(acc.states[c.list], IF c.call = "dispatch" THEN "comp" ELSE "gfx", slots) ELSE Empty]

Parts(acc) == DOMAIN acc = {"stack", "states", "pending", "records"}

LEMMA WalkedIs ==
    ASSUME NEW acc, Parts(acc), NEW c, NEW slots
    PROVE  /\ Parts(Walked(acc, c, slots))
           /\ c.op = "draw" => /\ Walked(acc, c, slots).pending = Put(acc.pending, c.list, <<>>)
                              /\ Walked(acc, c, slots).records = Append(acc.records, RecordOf(acc, c, slots))
           /\ c.op # "draw" => Walked(acc, c, slots).records = acc.records
           /\ SetsState(c) => Walked(acc, c, slots).pending =
                                Put(acc.pending, c.list, Append(ValueOr(acc.pending, c.list, <<>>), c.op))
           /\ c.op # "draw" /\ ~SetsState(c) => Walked(acc, c, slots).pending = acc.pending
<1> DEFINE to == Walked(acc, c, slots)
<1>1. CASE c.op = "push"
  <2>1. to = [acc EXCEPT !.stack = Append(@, c.name)] /\ ~SetsState(c)
    BY <1>1 DEF Walked, SetsState, Setters
  <2> QED
    BY <1>1, <2>1 DEF Parts
<1>2. CASE c.op = "pop"
  <2>1. to = [acc EXCEPT !.stack = IF @ = <<>> THEN @ ELSE Front(@)] /\ ~SetsState(c)
    BY <1>2 DEF Walked, SetsState, Setters
  <2> QED
    BY <1>2, <2>1 DEF Parts
<1>3. CASE c.op = "draw"
  <2>1. to = Recorded(acc, c, slots) /\ ~SetsState(c)
    BY <1>3 DEF Walked, SetsState, Setters
  <2>2. to = [acc EXCEPT !.pending = Put(@, c.list, <<>>), !.records = Append(@, RecordOf(acc, c, slots))]
    BY <2>1 DEF Recorded, Taken, RecordOf
  <2> HIDE DEF to
  <2>3. /\ DOMAIN to = DOMAIN acc /\ to.pending = Put(acc.pending, c.list, <<>>)
        /\ to.records = Append(acc.records, RecordOf(acc, c, slots))
    BY <2>2 DEF Parts
  <2> QED
    BY <1>3, <2>1, <2>3 DEF Parts, to
<1>4. CASE c.op \notin {"push", "pop", "draw"} /\ SetsState(c)
  <2>1. to = Gathered(acc, c)
    BY <1>4 DEF Walked
  <2> HIDE DEF to
  <2>2. /\ DOMAIN to = DOMAIN acc /\ to.records = acc.records
        /\ to.pending = Put(acc.pending, c.list, Append(ValueOr(acc.pending, c.list, <<>>), c.op))
    BY <2>1 DEF Gathered, Parts
  <2> QED
    BY <1>4, <2>2 DEF Parts, to
<1>5. CASE c.op \notin {"push", "pop", "draw"} /\ ~SetsState(c)
  <2>1. to = acc
    BY <1>5 DEF Walked
  <2> QED
    BY <1>5, <2>1
<1> QED
  BY <1>1, <1>2, <1>3, <1>4, <1>5

\* What is held of a walk after k chunks.
SoFar(acc, chunks, k) ==
    /\ Parts(acc) /\ IsList(acc.records) /\ Len(acc.records) = Cardinality(Calls(chunks, k))
    /\ \A list : /\ IsList(ValueOr(acc.pending, list, <<>>))
                 /\ AreOps(ValueOr(acc.pending, list, <<>>), chunks, SetSince(chunks, list, k))
    /\ \A at \in Calls(chunks, k) :
          AreOps(acc.records[Cardinality(Calls(chunks, at))].setters, chunks, SetSince(chunks, chunks[at].list, at - 1))
    /\ \A i \in 1..Len(acc.records) : acc.records[i].ordinal = Nth(acc.records, i)

LEMMA NoneYet ==
    ASSUME NEW chunks
    PROVE  SoFar(AtFirst, chunks, 0)
<1>1. 1..0 = {}
  OBVIOUS
<1>2. /\ DOMAIN AtFirst = {"stack", "states", "pending", "records"}
      /\ AtFirst.records = <<>> /\ AtFirst.pending = Empty
  BY DEF AtFirst
<1>3. Calls(chunks, 0) = {} /\ \A list : SetSince(chunks, list, 0) = {}
  BY <1>1 DEF Calls, SetSince
<1>4. IsList(<<>>) /\ Len(<<>>) = 0 /\ Cardinality({}) = 0
  <2>1. <<>> \in Seq({})
    OBVIOUS
  <2> QED
    BY <2>1, ListIs, FS_EmptySet
<1>5. \A list : ValueOr(AtFirst.pending, list, <<>>) = <<>>
  BY <1>2 DEF ValueOr, Empty
<1>6. AreOps(<<>>, chunks, {})
  BY <1>4 DEF AreOps
<1> QED
  BY <1>1, <1>2, <1>3, <1>4, <1>5, <1>6 DEF SoFar, Parts

LEMMA SoFarOn ==
    ASSUME NEW chunks, NEW slots, NEW k \in Nat, k # 0, NEW acc, SoFar(acc, chunks, k - 1)
    PROVE  SoFar(Walked(acc, chunks[k], slots), chunks, k)
<1> DEFINE c == chunks[k]
           to == Walked(acc, c, slots)
           r == RecordOf(acc, c, slots)
<1>0. k - 1 \in Nat /\ k \notin 1..(k - 1)
  OBVIOUS
<1>1. /\ Parts(acc) /\ IsList(acc.records) /\ Len(acc.records) = Cardinality(Calls(chunks, k - 1))
      /\ \A list : /\ IsList(ValueOr(acc.pending, list, <<>>))
                   /\ AreOps(ValueOr(acc.pending, list, <<>>), chunks, SetSince(chunks, list, k - 1))
      /\ \A at \in Calls(chunks, k - 1) :
            AreOps(acc.records[Cardinality(Calls(chunks, at))].setters, chunks, SetSince(chunks, chunks[at].list, at - 1))
      /\ \A i \in 1..Len(acc.records) : acc.records[i].ordinal = Nth(acc.records, i)
  BY DEF SoFar
<1>2. /\ Parts(to)
      /\ c.op = "draw" => to.pending = Put(acc.pending, c.list, <<>>) /\ to.records = Append(acc.records, r)
      /\ c.op # "draw" => to.records = acc.records
      /\ SetsState(c) => to.pending = Put(acc.pending, c.list, Append(ValueOr(acc.pending, c.list, <<>>), c.op))
      /\ c.op # "draw" /\ ~SetsState(c) => to.pending = acc.pending
  BY <1>1, WalkedIs
<1>3. SetsState(c) => c.op # "draw"
  BY DEF SetsState, Setters
<1> HIDE DEF to
<1>4. ASSUME NEW list
      PROVE  /\ IsList(ValueOr(to.pending, list, <<>>))
             /\ AreOps(ValueOr(to.pending, list, <<>>), chunks, SetSince(chunks, list, k))
  <2> DEFINE had == ValueOr(acc.pending, list, <<>>)
  <2>0. IsList(had) /\ AreOps(had, chunks, SetSince(chunks, list, k - 1))
    BY <1>1
  <2>1. CASE c.op = "draw" /\ c.list = list
    <3>1. SetSince(chunks, list, k) = {}
      BY <2>1, SinceGrows
    <3>2. ValueOr(to.pending, list, <<>>) = <<>>
      BY <1>2, <2>1, PutHas
    <3>3. IsList(<<>>) /\ AreOps(<<>>, chunks, {})
      <4>1. <<>> \in Seq({}) /\ Len(<<>>) = 0 /\ Cardinality({}) = 0
        BY FS_EmptySet
      <4> QED
        BY <4>1, ListIs DEF AreOps
    <3> QED
      BY <3>1, <3>2, <3>3
  <2>2. CASE SetsState(c) /\ c.list = list
    <3>1. SetSince(chunks, list, k) = SetSince(chunks, list, k - 1) \cup {k}
      BY <1>3, <2>2, SinceGrows
    <3>2. ValueOr(to.pending, list, <<>>) = Append(had, c.op)
      <4>1. to.pending = Put(acc.pending, list, Append(had, c.op))
        BY <1>2, <2>2
      <4> DEFINE more == Append(had, c.op)
                 p == acc.pending
      <4>2. to.pending = Put(p, list, more)
        BY <4>1
      <4> HIDE DEF had, more, p
      <4>3. ValueOr(Put(p, list, more), list, <<>>) = more
        BY PutGives
      <4>4. ValueOr(to.pending, list, <<>>) = more
        BY <4>2, <4>3
      <4> QED
        BY <4>4 DEF more
    <3>3. SetSince(chunks, list, k - 1) \in SUBSET (1..(k - 1))
      BY <1>0, SinceWithin
    <3>4. AreOps(Append(had, c.op), chunks, SetSince(chunks, list, k - 1) \cup {k})
      BY <2>0, <3>3, OpsGrow
    <3>5. IsList(Append(had, c.op))
      BY <2>0, ListGrows
    <3> QED
      BY <3>1, <3>2, <3>4, <3>5
  <2>3. CASE ~(c.op = "draw" /\ c.list = list) /\ ~(SetsState(c) /\ c.list = list)
    <3>1. SetSince(chunks, list, k) = SetSince(chunks, list, k - 1)
      BY <2>3, SinceGrows
    <3>2. ValueOr(to.pending, list, <<>>) = had
      BY <1>2, <2>3, PutHas
    <3> QED
      BY <2>0, <3>1, <3>2
  <2> QED
    BY <2>1, <2>2, <2>3
<1>5. CASE c.op = "draw"
  <2> DEFINE n == Len(acc.records)
  <2>0. n \in Nat /\ n = Cardinality(Calls(chunks, k - 1)) /\ to.records = Append(acc.records, r)
    BY <1>1, <1>2, <1>5, ListHas
  <2>1. /\ IsList(to.records) /\ Len(to.records) = n + 1 /\ to.records[n + 1] = r
        /\ \A i \in 1..n : to.records[i] = acc.records[i]
    BY <1>1, <2>0, ListGrows
  <2>2. Calls(chunks, k) = Calls(chunks, k - 1) \cup {k} /\ k \notin Calls(chunks, k - 1)
    BY <1>0, <1>5, CallsGrow DEF Calls
  <2>3. Cardinality(Calls(chunks, k)) = n + 1
    <3>1. IsFiniteSet(Calls(chunks, k - 1))
      BY <1>0, CallsCounted
    <3> QED
      BY <2>0, <2>2, <3>1, FS_AddElement
  <2>4. ASSUME NEW at \in Calls(chunks, k)
        PROVE  AreOps(to.records[Cardinality(Calls(chunks, at))].setters, chunks, SetSince(chunks, chunks[at].list, at - 1))
    <3>1. CASE at \in Calls(chunks, k - 1)
      <4>1. Cardinality(Calls(chunks, at)) \in 1..n
        BY <1>0, <2>0, <3>1, CallsCounted
      <4>2. to.records[Cardinality(Calls(chunks, at))] = acc.records[Cardinality(Calls(chunks, at))]
        BY <2>1, <4>1
      <4> QED
        BY <1>1, <3>1, <4>2
    <3>2. CASE at = k
      <4>1. to.records[Cardinality(Calls(chunks, at))] = r
        BY <2>1, <2>3, <3>2
      <4>2. r.setters = ValueOr(acc.pending, c.list, <<>>)
        BY DEF RecordOf
      <4>3. AreOps(ValueOr(acc.pending, c.list, <<>>), chunks, SetSince(chunks, c.list, k - 1))
        BY <1>1
      <4> QED
        BY <3>2, <4>1, <4>2, <4>3
    <3> QED
      BY <2>2, <3>1, <3>2
  <2>5. ASSUME NEW i \in 1..Len(to.records) PROVE to.records[i].ordinal = Nth(to.records, i)
    <3>1. /\ \A x \in 1..n : Nth(Append(acc.records, r), x) = Nth(acc.records, x)
          /\ Nth(Append(acc.records, r), n + 1) =
                Cardinality({x \in DOMAIN acc.records : acc.records[x].path = r.path /\ acc.records[x].call = r.call}) + 1
      BY <1>1, NthGrows
    <3>2. CASE i \in 1..n
      BY <1>1, <2>0, <2>1, <3>1, <3>2
    <3>3. CASE i = n + 1
      <4>1. /\ r.path = acc.stack /\ r.call = c.call
            /\ r.ordinal = Cardinality({x \in DOMAIN acc.records : acc.records[x].path = acc.stack /\ acc.records[x].call = c.call}) + 1
        BY DEF RecordOf
      <4>2. to.records[i] = r /\ Nth(to.records, i) = Nth(Append(acc.records, r), n + 1)
        BY <2>0, <2>1, <3>3
      <4> HIDE DEF r
      <4> QED
        BY <3>1, <4>1, <4>2
    <3> QED
      BY <2>0, <2>1, <3>2, <3>3
  <2>6. SoFar(to, chunks, k)
    BY <1>2, <1>4, <2>1, <2>3, <2>4, <2>5 DEF SoFar
  <2> QED
    BY <2>6 DEF to
<1>6. CASE c.op # "draw"
  <2>1. to.records = acc.records /\ Calls(chunks, k) = Calls(chunks, k - 1)
    BY <1>2, <1>6, CallsGrow
  <2>2. SoFar(to, chunks, k)
    BY <1>1, <1>2, <1>4, <2>1 DEF SoFar
  <2> QED
    BY <2>2 DEF to
<1> QED
  BY <1>5, <1>6

\* What is held of the records of a stream.
RecordsHold(a, chunks) ==
    /\ IsList(a) /\ Len(a) = Cardinality(Calls(chunks, Len(chunks)))
    /\ \A at \in Calls(chunks, Len(chunks)) :
          AreOps(a[Cardinality(Calls(chunks, at))].setters, chunks, SetSince(chunks, chunks[at].list, at - 1))
    /\ \A i \in 1..Len(a) : a[i].ordinal = Nth(a, i)

LEMMA RecordsAre ==
    ASSUME NEW chunks, IsList(chunks)
    PROVE  RecordsHold(CallRecords(chunks), chunks)
<1> DEFINE n == Len(chunks)
           slots == HeapsOf(chunks)
<1>0. n \in Nat /\ DOMAIN chunks = 1..n
  BY ListHas
<1> HIDE DEF n
<1>1. PICK g : RecordsChain(g, chunks, slots, n) /\ CallRecords(chunks) = g[n].records
  BY <1>0, RecordsClimb
<1> HIDE DEF slots
<1>2. g[0] = AtFirst /\ \A k \in 1..n : g[k] = Walked(g[k - 1], chunks[k], slots)
  BY <1>1 DEF RecordsChain
<1> DEFINE good == {k \in 0..n : SoFar(g[k], chunks, k)}
<1>3. 0 \in good
  BY <1>0, <1>2, NoneYet
<1>4. ASSUME NEW k \in (0 + 1)..n, k - 1 \in good PROVE k \in good
  <2>1. k \in Nat /\ k # 0 /\ k \in 1..n /\ k \in 0..n
    BY <1>0
  <2>2. SoFar(g[k - 1], chunks, k - 1)
    BY <1>4
  <2>3. SoFar(Walked(g[k - 1], chunks[k], slots), chunks, k)
    BY <2>1, <2>2, SoFarOn
  <2> QED
    BY <1>2, <2>1, <2>3
<1>5. n \in good
  <2> HIDE DEF good
  <2>1. \A k \in 0..n : k \in good
    BY <1>0, <1>3, <1>4, Climbs
  <2> QED
    BY <1>0, <2>1
<1>6. SoFar(g[n], chunks, n)
  BY <1>5
<1> QED
  BY <1>1, <1>6 DEF SoFar, RecordsHold, n

(***************************************************************************)
(* Each path once.                                                         *)
(***************************************************************************)
Once(done, p) == IF p \in Range(done) THEN done ELSE Append(done, p)
FirstsFrom(f, paths, n) ==
    [s \in SUBSET (1..n) |-> IF s = {} THEN <<>> ELSE LET x == Max(s) IN Once(f[s \ {x}], paths[x])]

LEMMA FirstsDef ==
    ASSUME NEW paths, NEW n, DOMAIN paths = 1..n
    PROVE  FirstsOf(paths) = (CHOOSE f : f = FirstsFrom(f, paths, n))[1..n]
BY DEF FirstsOf, FoldLeft, MapThenFoldSet, FirstsFrom, Once

LEMMA OnceGrows ==
    ASSUME NEW R, NEW s \in Seq(R), NEW X, EachOnce(s, X), NEW p \in R
    PROVE  Once(s, p) \in Seq(R) /\ EachOnce(Once(s, p), X \cup {p})
<1> DEFINE t == Append(s, p)
           l == Len(s)
<1>0. Range(s) = X /\ \A k \in 1..l, j \in 1..l : s[k] = s[j] => k = j
  BY DEF EachOnce
<1>1. CASE p \in Range(s)
  <2>1. X \cup {p} = X
    BY <1>0, <1>1
  <2> QED
    BY <1>1, <2>1 DEF Once
<1>2. CASE p \notin Range(s)
  <2>1. /\ t \in Seq(R) /\ l \in Nat /\ Len(t) = l + 1 /\ t[l + 1] = p /\ DOMAIN s = 1..l /\ DOMAIN t = 1..(l + 1)
        /\ \A i \in 1..l : t[i] = s[i]
    OBVIOUS
  <2>2. Once(s, p) = t
    BY <1>2 DEF Once
  <2> HIDE DEF t, l
  <2>3. \A i \in 1..(l + 1) : i \in 1..l \/ i = l + 1
    BY <2>1
  <2>4. (\A i \in 1..l : i \in 1..(l + 1)) /\ l + 1 \in 1..(l + 1)
    BY <2>1
  <2>5. Range(t) = X \cup {p}
    <3>1. Range(t) = Range(s) \cup {p}
      BY <2>1, <2>3, <2>4 DEF Range
    <3> QED
      BY <1>0, <3>1
  <2>6. \A i \in 1..l : t[i] # p
    BY <1>2, <2>1 DEF Range
  <2>7. ASSUME NEW i \in 1..(l + 1), NEW j \in 1..(l + 1), t[i] = t[j] PROVE i = j
    <3>1. CASE i \in 1..l /\ j \in 1..l
      BY <1>0, <2>1, <2>7, <3>1
    <3>2. CASE i \in 1..l /\ j = l + 1
      BY <2>1, <2>6, <2>7, <3>2
    <3>3. CASE i = l + 1 /\ j \in 1..l
      BY <2>1, <2>6, <2>7, <3>3
    <3>4. CASE i = l + 1 /\ j = l + 1
      BY <3>4
    <3> QED
      BY <2>3, <3>1, <3>2, <3>3, <3>4
  <2>8. EachOnce(t, X \cup {p})
    BY <2>1, <2>5, <2>7 DEF EachOnce
  <2> QED
    BY <2>1, <2>2, <2>8
<1> QED
  BY <1>1, <1>2

LEMMA FirstsExist ==
    ASSUME NEW n \in Nat, NEW R, NEW paths \in [1..n -> R]
    PROVE  \E f : f = FirstsFrom(f, paths, n)
<1> DEFINE A == Seq(R)
           G == [j \in 1..n |-> [done \in A |-> Once(done, paths[j])]]
<1>0. <<>> \in A
  OBVIOUS
<1>1. \A done \in A, j \in 1..n : Once(done, paths[j]) \in A
  <2>1. \A done \in A, p \in R : Append(done, p) \in A
    OBVIOUS
  <2> HIDE DEF A
  <2>2. \A j \in 1..n : paths[j] \in R
    OBVIOUS
  <2> QED
    BY <2>1, <2>2 DEF Once
<1> HIDE DEF A
<1>2. G \in [1..n -> [A -> A]]
  BY <1>1
<1>3. \A j \in 1..n, done \in A : G[j][done] = Once(done, paths[j])
  OBVIOUS
<1> HIDE DEF G
<1>4. Chainable(n, A, <<>>, G)
  BY <1>0, <1>2 DEF Chainable
<1>5. PICK f : Rungs(f, n, A, <<>>, G)
  BY <1>4, RungsExist
<1>6. f \in [SUBSET (1..n) -> A] /\ f[{}] = <<>>
  BY <1>5 DEF Rungs
<1>7. ASSUME NEW s \in SUBSET (1..n), s # {}
      PROVE  f[s] = Once(f[s \ {Max(s)}], paths[Max(s)])
  <2>1. Max(s) \in s /\ f[s] = G[Max(s)][f[s \ {Max(s)}]]
    BY <1>5, <1>7 DEF Rungs
  <2>2. f[s \ {Max(s)}] \in A /\ Max(s) \in 1..n
    BY <1>6, <2>1
  <2> QED
    BY <1>3, <2>1, <2>2
<1>8. f = FirstsFrom(f, paths, n)
  BY <1>6, <1>7 DEF FirstsFrom
<1> QED
  BY <1>8

LEMMA FirstsAre ==
    ASSUME NEW n \in Nat, NEW R, NEW paths \in [1..n -> R]
    PROVE  FirstsOf(paths) \in Seq(R) /\ EachOnce(FirstsOf(paths), {paths[i] : i \in 1..n})
<1> DEFINE f == CHOOSE f : f = FirstsFrom(f, paths, n)
           seen(k) == {paths[i] : i \in 1..k}
           good == {k \in 0..n : f[1..k] \in Seq(R) /\ EachOnce(f[1..k], seen(k))}
<1>1. f = FirstsFrom(f, paths, n)
  BY FirstsExist
<1>2. FirstsOf(paths) = f[1..n]
  BY FirstsDef
<1> HIDE DEF f
<1>3. \A s \in SUBSET (1..n) :
         f[s] = IF s = {} THEN <<>> ELSE Once(f[s \ {Max(s)}], paths[Max(s)])
  BY <1>1 DEF FirstsFrom
<1>4. 0 \in good
  <2>1. 1..0 = {} /\ 0 \in 0..n
    OBVIOUS
  <2>2. f[1..0] = <<>>
    BY <1>3, <2>1
  <2>3. <<>> \in Seq(R) /\ Range(<<>>) = {} /\ Len(<<>>) = 0
    BY RangeOfFew
  <2>4. seen(0) = {}
    BY <2>1
  <2>5. EachOnce(<<>>, seen(0))
    BY <2>1, <2>3, <2>4 DEF EachOnce
  <2> QED
    BY <2>1, <2>2, <2>3, <2>5
<1>5. ASSUME NEW k \in (0 + 1)..n, k - 1 \in good PROVE k \in good
  <2>1. k \in 1..n /\ k \in 0..n /\ paths[k] \in R
    OBVIOUS
  <2>2. f[1..k] = Once(f[1..(k - 1)], paths[k])
    <3> DEFINE s == 1..k
    <3>1. s \in SUBSET (1..n) /\ s # {} /\ Max(s) = k /\ s \ {k} = 1..(k - 1)
      BY <2>1, Rung
    <3> HIDE DEF s
    <3>2. f[s] = Once(f[s \ {Max(s)}], paths[Max(s)])
      BY <1>3, <3>1
    <3> QED
      BY <3>1, <3>2 DEF s
  <2>3. f[1..(k - 1)] \in Seq(R) /\ EachOnce(f[1..(k - 1)], seen(k - 1))
    BY <1>5
  <2>4. seen(k) = seen(k - 1) \cup {paths[k]}
    <3>1. 1..k = (1..(k - 1)) \cup {k}
      BY <2>1
    <3> QED
      BY <3>1
  <2> HIDE DEF seen
  <2>5. f[1..k] \in Seq(R) /\ EachOnce(f[1..k], seen(k))
    <3> DEFINE d == f[1..(k - 1)]
               p == paths[k]
               X == seen(k - 1)
    <3>1. d \in Seq(R) /\ EachOnce(d, X) /\ p \in R
      BY <2>1, <2>3
    <3>2. f[1..k] = Once(d, p) /\ seen(k) = X \cup {p}
      BY <2>2, <2>4
    <3> HIDE DEF d, p, X
    <3>3. Once(d, p) \in Seq(R) /\ EachOnce(Once(d, p), X \cup {p})
      BY <3>1, OnceGrows
    <3> QED
      BY <3>2, <3>3
  <2> QED
    BY <2>1, <2>5
<1>6. n \in good
  <2> HIDE DEF good
  <2>1. \A k \in 0..n : k \in good
    BY <1>4, <1>5, Climbs
  <2> QED
    BY <2>1
<1> QED
  BY <1>2, <1>6

(***************************************************************************)
(* Paths paired from either side: a rule sees of the pairs before it only  *)
(* which positions they took.                                              *)
(***************************************************************************)
\* The keys of the positions that are left; one that is taken is like no other.
KeysLeft(k, open, label) == [i \in DOMAIN k |-> IF i \in open THEN <<1, k[i]>> ELSE <<label, i>>]
OpenRight(kb, P) == {j \in DOMAIN kb : \A p \in P : p[2] # j}

LEMMA SameKeysLeft ==
    ASSUME NEW k, NEW open, NEW x, NEW i \in DOMAIN k, NEW l, NEW open2, NEW y, NEW j \in DOMAIN l,
           x # 1, y # 1
    PROVE  /\ (i \in open /\ j \in open2 => (KeysLeft(k, open, x)[i] = KeysLeft(l, open2, y)[j] <=> k[i] = l[j]))
           /\ ((i \in open <=> j \notin open2) => KeysLeft(k, open, x)[i] # KeysLeft(l, open2, y)[j])
           /\ (i \notin open /\ j \notin open2 /\ (x # y \/ i # j) => KeysLeft(k, open, x)[i] # KeysLeft(l, open2, y)[j])
BY DEF KeysLeft

LEMMA RestFirstCome ==
    ASSUME NEW ka, NEW kb, NEW m, NEW n, Lengths(ka, kb, m, n), NEW P \in SUBSET Grid(m, n), OneToOne(P),
           NEW x, NEW y, x # 1, y # 1, x # y
    PROVE  FirstCome(PairBy(ka, kb, P) \ P, KeysLeft(ka, Free(ka, P), x), KeysLeft(kb, OpenRight(kb, P), y), m, n)
<1> DEFINE Q == PairBy(ka, kb, P)
           R == Q \ P
           fa == Free(ka, P)
           fb == OpenRight(kb, P)
           ua == KeysLeft(ka, fa, x)
           ub == KeysLeft(kb, fb, y)
<1>0. m \in Nat /\ n \in Nat /\ DOMAIN ka = 1..m /\ DOMAIN kb = 1..n
  BY DEF Lengths
<1>1. Q \in SUBSET Grid(m, n) /\ Pairing(Q, P, ka, kb, n)
  BY PairingIs
<1> HIDE DEF Q
<1>2. /\ P \subseteq Q /\ OneToOne(Q)
      /\ \A p \in R : p[1] \in fa /\ ka[p[1]] = kb[p[2]]
      /\ \A p \in R : \A i \in fa : i < p[1] /\ ka[i] = ka[p[1]] => Before(R, i, p[2])
      /\ \A j \in 1..n : (\A p \in Q : p[2] # j) => \A i \in fa : ka[i] = kb[j] => Before(R, i, j)
  BY <1>1 DEF Pairing
<1>3. \A p \in R : p[1] \in 1..m /\ p[2] \in 1..n /\ p[2] \in fb
  <2> SUFFICES ASSUME NEW p \in R PROVE p[1] \in 1..m /\ p[2] \in 1..n /\ p[2] \in fb
    OBVIOUS
  <2>1. p[1] \in 1..m /\ p[2] \in 1..n
    BY <1>1, GridIs
  <2>2. \A q \in P : q[2] # p[2]
    BY <1>2 DEF OneToOne
  <2> QED
    BY <1>0, <2>1, <2>2 DEF OpenRight
<1>4. \A j \in fb : \A q \in Q : q[2] = j => q \in R
  BY DEF OpenRight
<1> HIDE DEF R, fa, fb
<1>5. R \in SUBSET Grid(m, n) /\ OneToOne(R)
  BY <1>1, <1>2 DEF R, OneToOne
<1>6. ASSUME NEW i \in 1..m, NEW j \in 1..n
      PROVE  ua[i] = ub[j] <=> i \in fa /\ j \in fb /\ ka[i] = kb[j]
  BY <1>0, SameKeysLeft
<1>7. ASSUME NEW i \in 1..m, NEW j \in 1..m, j \in fa
      PROVE  ua[i] = ua[j] => i \in fa /\ ka[i] = ka[j]
  BY <1>0, <1>7, SameKeysLeft
<1> HIDE DEF ua, ub
<1>8. \A p \in R : ua[p[1]] = ub[p[2]]
  BY <1>2, <1>3, <1>6
<1>9. \A p \in R : \A i \in 1..m : i < p[1] /\ ua[i] = ua[p[1]] => Before(R, i, p[2])
  BY <1>2, <1>3, <1>7
<1>10. ASSUME NEW j \in 1..n, \A p \in R : p[2] # j, NEW i \in 1..m, ua[i] = ub[j]
       PROVE  Before(R, i, j)
  <2>1. i \in fa /\ j \in fb /\ ka[i] = kb[j]
    BY <1>6, <1>10
  <2>2. \A q \in Q : q[2] # j
    BY <1>4, <1>10, <2>1
  <2> QED
    BY <1>2, <2>1, <2>2
<1>11. FirstCome(R, ua, ub, m, n)
  BY <1>0, <1>5, <1>8, <1>9, <1>10, ServedInTurn
<1> QED
  BY <1>11 DEF R, Q, ua, ub, fa, fb

LEMMA TurnedOpen ==
    ASSUME NEW k, NEW P
    PROVE  Free(k, Turned(P)) = OpenRight(k, P) /\ OpenRight(k, Turned(P)) = Free(k, P)
<1> DEFINE T == Turned(P)
<1>1. \A t \in T : \E p \in P : t[1] = p[2] /\ t[2] = p[1]
  BY TurnedIs
<1>2. \A p \in P : \E t \in T : t[1] = p[2] /\ t[2] = p[1]
  <2> SUFFICES ASSUME NEW p \in P PROVE \E t \in T : t[1] = p[2] /\ t[2] = p[1]
    OBVIOUS
  <2> DEFINE t == <<p[2], p[1]>>
  <2>1. t \in T /\ t[1] = p[2] /\ t[2] = p[1]
    BY TurnedIs
  <2> HIDE DEF T, t
  <2> QED
    BY <2>1
<1> HIDE DEF T
<1>3. Free(k, T) = OpenRight(k, P)
  BY <1>1, <1>2 DEF Free, OpenRight
<1>4. OpenRight(k, T) = Free(k, P)
  BY <1>1, <1>2 DEF Free, OpenRight
<1> QED
  BY <1>3, <1>4 DEF T

LEMMA TurnedJoins ==
    ASSUME NEW P, NEW R
    PROVE  Turned(P \cup R) = Turned(P) \cup Turned(R)
BY DEF Turned

InnerNames(paths) == [i \in DOMAIN paths |-> Innermost(paths[i])]

LEMMA AlignDef ==
    ASSUME NEW pa, NEW pb
    PROVE  AlignPaths(pa, pb) = PairBy(InnerNames(pa), InnerNames(pb), PairBy(pa, pb, {}))
BY DEF AlignPaths, InnerNames

LEMMA NamesListed ==
    ASSUME NEW pa, NEW pb, NEW m, NEW n, Lengths(pa, pb, m, n)
    PROVE  Lengths(InnerNames(pa), InnerNames(pb), m, n) /\ Lengths(pb, pa, n, m)
BY DEF Lengths, InnerNames

LEMMA AlignedIs ==
    ASSUME NEW pa, NEW pb, NEW m, NEW n, Lengths(pa, pb, m, n)
    PROVE  /\ AlignPaths(pa, pb) \in SUBSET Grid(m, n) /\ OneToOne(AlignPaths(pa, pb))
           /\ PairBy(pa, pb, {}) \subseteq AlignPaths(pa, pb)
           /\ FirstCome(PairBy(pa, pb, {}), pa, pb, m, n)
<1> DEFINE P == PairBy(pa, pb, {})
           na == InnerNames(pa)
           nb == InnerNames(pb)
<1>1. FirstCome(P, pa, pb, m, n)
  BY FirstComeIs
<1>2. Lengths(na, nb, m, n)
  BY NamesListed
<1>3. AlignPaths(pa, pb) = PairBy(na, nb, P)
  BY AlignDef
<1> HIDE DEF P, na, nb
<1>4. P \in SUBSET Grid(m, n) /\ OneToOne(P)
  BY <1>1 DEF FirstCome
<1>5. PairBy(na, nb, P) \in SUBSET Grid(m, n) /\ Pairing(PairBy(na, nb, P), P, na, nb, n)
  BY <1>2, <1>4, PairingIs
<1>6. P \subseteq PairBy(na, nb, P) /\ OneToOne(PairBy(na, nb, P))
  BY <1>5 DEF Pairing
<1> QED
  BY <1>1, <1>3, <1>5, <1>6 DEF P

LEMMA AlignTurned ==
    ASSUME NEW pa, NEW pb, NEW m, NEW n, Lengths(pa, pb, m, n)
    PROVE  AlignPaths(pb, pa) = Turned(AlignPaths(pa, pb))
<1> DEFINE P == PairBy(pa, pb, {})
           P2 == PairBy(pb, pa, {})
           na == InnerNames(pa)
           nb == InnerNames(pb)
           Q == PairBy(na, nb, P)
           Q2 == PairBy(nb, na, P2)
           ua == KeysLeft(na, Free(na, P), 2)
           ub == KeysLeft(nb, OpenRight(nb, P), 3)
<1>0. m \in Nat /\ n \in Nat
  BY DEF Lengths
<1>1. Lengths(na, nb, m, n) /\ Lengths(nb, na, n, m) /\ Lengths(pb, pa, n, m)
  BY NamesListed
<1>2. AlignPaths(pa, pb) = Q /\ AlignPaths(pb, pa) = Q2
  BY AlignDef
<1>3. FirstCome(P, pa, pb, m, n) /\ FirstCome(P2, pb, pa, n, m)
  BY <1>1, FirstComeIs
<1> HIDE DEF P, P2, na, nb
<1>4. P2 = Turned(P)
  <2>1. FirstCome(Turned(P), pb, pa, n, m)
    BY <1>3, FirstComeTurned
  <2> QED
    BY <1>0, <1>3, <2>1, FirstComeOnly
<1>5. /\ P \in SUBSET Grid(m, n) /\ OneToOne(P)
      /\ P2 \in SUBSET Grid(n, m) /\ OneToOne(P2)
  BY <1>3 DEF FirstCome
<1>6. FirstCome(Q \ P, ua, ub, m, n)
  BY <1>1, <1>5, RestFirstCome
<1>7. FirstCome(Q2 \ P2, ub, ua, n, m)
  <2>1. FirstCome(Q2 \ P2, KeysLeft(nb, Free(nb, P2), 3), KeysLeft(na, OpenRight(na, P2), 2), n, m)
    BY <1>1, <1>5, RestFirstCome
  <2>2. Free(nb, P2) = OpenRight(nb, P) /\ OpenRight(na, P2) = Free(na, P)
    BY <1>4, TurnedOpen
  <2> QED
    BY <2>1, <2>2
<1>8. P \subseteq Q /\ P2 \subseteq Q2
  <2>1. Pairing(Q, P, na, nb, n) /\ Pairing(Q2, P2, nb, na, m)
    BY <1>1, <1>5, PairingIs
  <2> QED
    BY <2>1 DEF Pairing
<1> HIDE DEF Q, Q2, ua, ub
<1>9. Q2 \ P2 = Turned(Q \ P)
  <2>1. FirstCome(Turned(Q \ P), ub, ua, n, m)
    BY <1>6, FirstComeTurned
  <2> QED
    BY <1>0, <1>7, <2>1, FirstComeOnly
<1>10. Q = P \cup (Q \ P) /\ Q2 = P2 \cup (Q2 \ P2)
  BY <1>8
<1>11. Q2 = Turned(Q)
  BY <1>4, <1>9, <1>10, TurnedJoins
<1> QED
  BY <1>2, <1>11

LEMMA AlignSelf ==
    ASSUME NEW pa, NEW m \in Nat, DOMAIN pa = 1..m, \A i \in 1..m, j \in 1..m : pa[i] = pa[j] => i = j
    PROVE  /\ \A q \in AlignPaths(pa, pa) : q[1] = q[2]
           /\ \A i \in 1..m : <<i, i>> \in AlignPaths(pa, pa)
<1> DEFINE P == PairBy(pa, pa, {})
           Q == AlignPaths(pa, pa)
<1>1. /\ Q \in SUBSET Grid(m, m) /\ OneToOne(Q) /\ P \subseteq Q /\ FirstCome(P, pa, pa, m, m)
  BY AlignedIs DEF Lengths
<1> HIDE DEF P, Q
<1>2. /\ P \in SUBSET Grid(m, m) /\ \A p \in P : pa[p[1]] = pa[p[2]]
      /\ \A i \in 1..m : \A j \in 1..m : pa[i] = pa[j] => \E q \in P : q[1] = i \/ q[2] = j
  BY <1>1 DEF FirstCome
<1>3. ASSUME NEW i \in 1..m PROVE <<i, i>> \in Q
  <2>1. PICK q \in P : q[1] = i \/ q[2] = i
    BY <1>2
  <2>2. q[1] \in 1..m /\ q[2] \in 1..m /\ q = <<q[1], q[2]>> /\ pa[q[1]] = pa[q[2]]
    BY <1>2, GridIs
  <2>3. q = <<i, i>>
    BY <2>1, <2>2
  <2> QED
    BY <1>1, <2>3
<1>4. ASSUME NEW q \in Q PROVE q[1] = q[2]
  <2>1. q[1] \in 1..m
    BY <1>1, GridIs
  <2> DEFINE i == q[1]
             p == <<i, i>>
  <2>2. p \in Q /\ p[1] = q[1] /\ p[2] = q[1]
    BY <1>3, <2>1
  <2> HIDE DEF p, i
  <2>3. p = q
    BY <1>1, <2>2 DEF OneToOne
  <2> QED
    BY <2>2, <2>3
<1> QED
  BY <1>3, <1>4 DEF Q

(***************************************************************************)
(* The rows.                                                               *)
(***************************************************************************)
PathsOf(a) == FirstsOf([i \in DOMAIN a |-> a[i].path])
Meets(a, b, p, q) ==
    \E pair \in AlignPaths(PathsOf(a), PathsOf(b)) : PathsOf(a)[pair[1]] = p /\ PathsOf(b)[pair[2]] = q
SameCall(a, b, i, j) == /\ Meets(a, b, a[i].path, b[j].path)
                     /\ a[i].call = b[j].call /\ Nth(a, i) = Nth(b, j)
CallPairs(a, b) == {p \in (DOMAIN a) \X (DOMAIN b) : SameCall(a, b, p[1], p[2])}
RowFor(status, i, j, fields) == [status |-> status, a |-> i, b |-> j, fields |-> fields]
BothRow(a, b, p) ==
    RowFor(IF Differences(a[p[1]], b[p[2]]) = {} THEN "same" ELSE "changed", p[1], p[2], Differences(a[p[1]], b[p[2]]))
OnlyA(i) == RowFor("only A", i, 0, {})
OnlyB(j) == RowFor("only B", 0, j, {})
LeftA(a, b) == {i \in DOMAIN a : \A p \in CallPairs(a, b) : p[1] # i}
LeftB(a, b) == {j \in DOMAIN b : \A p \in CallPairs(a, b) : p[2] # j}

LEMMA CallRowsDef ==
    ASSUME NEW a, NEW b
    PROVE  AlignCalls(a, b) = {BothRow(a, b, p) : p \in CallPairs(a, b)}
                                \cup {OnlyA(i) : i \in LeftA(a, b)} \cup {OnlyB(j) : j \in LeftB(a, b)}
BY DEF AlignCalls, BothRow, OnlyA, OnlyB, LeftA, LeftB, CallPairs, SameCall, Meets, PathsOf, RowFor

LEMMA CallRowIs ==
    ASSUME NEW a, NEW b
    PROVE  /\ \A p \in CallPairs(a, b) : BothRow(a, b, p) \in AlignCalls(a, b)
           /\ \A i \in LeftA(a, b) : OnlyA(i) \in AlignCalls(a, b)
           /\ \A j \in LeftB(a, b) : OnlyB(j) \in AlignCalls(a, b)
           /\ \A r \in AlignCalls(a, b) : \/ \E p \in CallPairs(a, b) : r = BothRow(a, b, p)
                                          \/ \E i \in LeftA(a, b) : r = OnlyA(i)
                                          \/ \E j \in LeftB(a, b) : r = OnlyB(j)
BY CallRowsDef

LEMMA BothParts ==
    ASSUME NEW a, NEW b, NEW p
    PROVE  /\ BothRow(a, b, p).a = p[1] /\ BothRow(a, b, p).b = p[2]
           /\ (BothRow(a, b, p).status = "same" <=> Differences(a[p[1]], b[p[2]]) = {})
BY DEF BothRow, RowFor

LEMMA OnlyParts ==
    ASSUME NEW i
    PROVE  OnlyA(i).a = i /\ OnlyA(i).b = 0 /\ OnlyB(i).b = i /\ OnlyB(i).a = 0
BY DEF OnlyA, OnlyB, RowFor

LEMMA PathsOfAre ==
    ASSUME NEW a, IsList(a)
    PROVE  /\ Len(PathsOf(a)) \in Nat /\ DOMAIN PathsOf(a) = 1..Len(PathsOf(a))
           /\ \A i \in 1..Len(PathsOf(a)), j \in 1..Len(PathsOf(a)) : PathsOf(a)[i] = PathsOf(a)[j] => i = j
           /\ \A i \in DOMAIN a : \E k \in 1..Len(PathsOf(a)) : PathsOf(a)[k] = a[i].path
<1> DEFINE n == Len(a)
           R == {a[i].path : i \in 1..n}
           paths == [i \in DOMAIN a |-> a[i].path]
           P == FirstsOf(paths)
<1>0. n \in Nat /\ DOMAIN a = 1..n
  BY ListHas
<1>1. paths \in [1..n -> R] /\ {paths[i] : i \in 1..n} = R
  BY <1>0
<1>2. \A i \in DOMAIN a : a[i].path \in R
  BY <1>0
<1>3. PathsOf(a) = P
  BY DEF PathsOf
<1> HIDE DEF n, R, paths
<1>4. P \in Seq(R) /\ EachOnce(P, R)
  BY <1>0, <1>1, FirstsAre
<1> HIDE DEF P
<1>5. Len(P) \in Nat /\ DOMAIN P = 1..Len(P)
  BY <1>4
<1>6. Range(P) = R /\ \A i \in 1..Len(P), j \in 1..Len(P) : P[i] = P[j] => i = j
  BY <1>4 DEF EachOnce
<1>7. \A i \in DOMAIN a : \E k \in 1..Len(P) : P[k] = a[i].path
  BY <1>2, <1>5, <1>6 DEF Range
<1> QED
  BY <1>3, <1>5, <1>6, <1>7

(***************************************************************************)
(* A call is paired once, with a call of its path, name and ordinal.       *)
(***************************************************************************)
SoFarAlike(a, i, p, call) == {k \in 1..i : a[k].path = p /\ a[k].call = call}

LEMMA NthClimbs ==
    ASSUME NEW a, NEW i \in Nat, NEW j \in Nat, i < j, a[i].path = a[j].path, a[i].call = a[j].call
    PROVE  Nth(a, i) < Nth(a, j)
<1> DEFINE X == SoFarAlike(a, i, a[j].path, a[j].call)
           Y == SoFarAlike(a, j, a[j].path, a[j].call)
<1>1. Nth(a, i) = Cardinality(X) /\ Nth(a, j) = Cardinality(Y)
  BY DEF Nth, SoFarAlike
<1>2. 1..i \subseteq 1..j /\ j \in 1..j /\ j \notin 1..i
  OBVIOUS
<1>3. X \subseteq Y \ {j} /\ j \in Y /\ Y \subseteq 1..j
  BY <1>2 DEF SoFarAlike
<1> HIDE DEF X, Y
<1>4. IsFiniteSet(1..j)
  BY FS_Interval
<1>5. IsFiniteSet(Y)
  BY <1>3, <1>4, FS_Subset
<1>6. IsFiniteSet(Y \ {j}) /\ Cardinality(Y \ {j}) = Cardinality(Y) - 1
  BY <1>3, <1>5, FS_RemoveElement
<1>7. IsFiniteSet(X) /\ Cardinality(X) <= Cardinality(Y \ {j})
  BY <1>3, <1>6, FS_Subset
<1>8. Cardinality(X) \in Nat /\ Cardinality(Y) \in Nat
  BY <1>5, <1>7, FS_CardinalityType
<1> QED
  BY <1>1, <1>6, <1>7, <1>8

LEMMA NthCounts ==
    ASSUME NEW a, NEW i \in Nat
    PROVE  Nth(a, i) \in Nat
<1> DEFINE X == SoFarAlike(a, i, a[i].path, a[i].call)
<1>1. IsFiniteSet(1..i) /\ X \subseteq 1..i
  BY FS_Interval DEF SoFarAlike
<1>2. Nth(a, i) = Cardinality(X)
  BY DEF Nth, SoFarAlike
<1> HIDE DEF X
<1>3. IsFiniteSet(X)
  BY <1>1, FS_Subset
<1> QED
  BY <1>2, <1>3, FS_CardinalityType

LEMMA NthApart ==
    ASSUME NEW a, IsList(a), NEW i \in DOMAIN a, NEW j \in DOMAIN a,
           a[i].path = a[j].path, a[i].call = a[j].call, Nth(a, i) = Nth(a, j)
    PROVE  i = j
<1>1. i \in Nat /\ j \in Nat
  BY ListHas
<1>2. ~(i < j)
  <2> SUFFICES ASSUME i < j PROVE FALSE
    OBVIOUS
  <2>1. Nth(a, i) < Nth(a, j) /\ Nth(a, i) \in Nat /\ Nth(a, j) \in Nat
    BY <1>1, NthClimbs, NthCounts
  <2> QED
    BY <2>1
<1>3. ~(j < i)
  <2> SUFFICES ASSUME j < i PROVE FALSE
    OBVIOUS
  <2>1. Nth(a, j) < Nth(a, i) /\ Nth(a, i) \in Nat /\ Nth(a, j) \in Nat
    BY <1>1, NthClimbs, NthCounts
  <2> QED
    BY <2>1
<1> QED
  BY <1>1, <1>2, <1>3

LEMMA PathsListed ==
    ASSUME NEW a, IsList(a), NEW b, IsList(b)
    PROVE  Lengths(PathsOf(a), PathsOf(b), Len(PathsOf(a)), Len(PathsOf(b)))
BY PathsOfAre DEF Lengths

LEMMA MeetsOnce ==
    ASSUME NEW a, IsList(a), NEW b, IsList(b), NEW p, NEW q, NEW p2, NEW q2,
           Meets(a, b, p, q), Meets(a, b, p2, q2)
    PROVE  p = p2 <=> q = q2
<1> DEFINE pa == PathsOf(a)
           pb == PathsOf(b)
           Q == AlignPaths(pa, pb)
<1>1. Q \in SUBSET Grid(Len(pa), Len(pb)) /\ OneToOne(Q)
  BY PathsListed, AlignedIs
<1>2. /\ \A i \in 1..Len(pa), j \in 1..Len(pa) : pa[i] = pa[j] => i = j
      /\ \A i \in 1..Len(pb), j \in 1..Len(pb) : pb[i] = pb[j] => i = j
  BY PathsOfAre
<1>3. PICK x \in Q : pa[x[1]] = p /\ pb[x[2]] = q
  BY DEF Meets
<1>4. PICK y \in Q : pa[y[1]] = p2 /\ pb[y[2]] = q2
  BY DEF Meets
<1> HIDE DEF pa, pb, Q
<1>5. x[1] \in 1..Len(pa) /\ x[2] \in 1..Len(pb) /\ y[1] \in 1..Len(pa) /\ y[2] \in 1..Len(pb)
  BY <1>1, GridIs
<1>6. x[1] = y[1] \/ x[2] = y[2] => x = y
  BY <1>1 DEF OneToOne
<1>7. p = p2 => x[1] = y[1]
  BY <1>2, <1>3, <1>4, <1>5
<1>8. q = q2 => x[2] = y[2]
  BY <1>2, <1>3, <1>4, <1>5
<1> QED
  BY <1>3, <1>4, <1>6, <1>7, <1>8

LEMMA CallPairIs ==
    ASSUME NEW a, NEW b, NEW p \in CallPairs(a, b)
    PROVE  /\ p[1] \in DOMAIN a /\ p[2] \in DOMAIN b /\ p = <<p[1], p[2]>>
           /\ Meets(a, b, a[p[1]].path, b[p[2]].path)
           /\ a[p[1]].call = b[p[2]].call /\ Nth(a, p[1]) = Nth(b, p[2])
BY DEF CallPairs, SameCall

LEMMA PairedOnce ==
    ASSUME NEW a, IsList(a), NEW b, IsList(b), NEW p \in CallPairs(a, b), NEW q \in CallPairs(a, b),
           p[1] = q[1] \/ p[2] = q[2]
    PROVE  p = q
<1> DEFINE i == p[1]
           j == p[2]
           k == q[1]
           l == q[2]
<1>1. /\ i \in DOMAIN a /\ j \in DOMAIN b /\ p = <<i, j>>
      /\ Meets(a, b, a[i].path, b[j].path) /\ a[i].call = b[j].call /\ Nth(a, i) = Nth(b, j)
  BY CallPairIs
<1>2. /\ k \in DOMAIN a /\ l \in DOMAIN b /\ q = <<k, l>>
      /\ Meets(a, b, a[k].path, b[l].path) /\ a[k].call = b[l].call /\ Nth(a, k) = Nth(b, l)
  BY CallPairIs
<1>3. i = k \/ j = l
  OBVIOUS
<1> HIDE DEF i, j, k, l
<1>4. a[i].path = a[k].path <=> b[j].path = b[l].path
  BY <1>1, <1>2, MeetsOnce
<1>5. CASE i = k
  <2>1. b[j].path = b[l].path /\ b[j].call = b[l].call /\ Nth(b, j) = Nth(b, l)
    BY <1>1, <1>2, <1>4, <1>5
  <2>2. j = l
    BY <1>1, <1>2, <2>1, NthApart
  <2> QED
    BY <1>1, <1>2, <1>5, <2>2
<1>6. CASE j = l
  <2>1. a[i].path = a[k].path /\ a[i].call = a[k].call /\ Nth(a, i) = Nth(a, k)
    BY <1>1, <1>2, <1>4, <1>6
  <2>2. i = k
    BY <1>1, <1>2, <2>1, NthApart
  <2> QED
    BY <1>1, <1>2, <1>6, <2>2
<1> QED
  BY <1>3, <1>5, <1>6

(***************************************************************************)
(* One row for each call.                                                  *)
(***************************************************************************)
RowsOfA(a, b, i) == {r \in AlignCalls(a, b) : r.a = i}
RowsOfB(a, b, j) == {r \in AlignCalls(a, b) : r.b = j}

LEMMA RowOfA ==
    ASSUME NEW a, IsList(a), NEW b, IsList(b), NEW i \in DOMAIN a
    PROVE  \E x : RowsOfA(a, b, i) = {x}
<1>0. i # 0
  BY ListHas
<1>1. CASE i \in LeftA(a, b)
  <2> DEFINE x == OnlyA(i)
  <2>1. x \in AlignCalls(a, b) /\ x.a = i
    BY <1>1, CallRowIs, OnlyParts
  <2>2. ASSUME NEW r \in AlignCalls(a, b), r.a = i PROVE r = x
    <3>1. CASE \E p \in CallPairs(a, b) : r = BothRow(a, b, p)
      <4>1. PICK p \in CallPairs(a, b) : r = BothRow(a, b, p)
        BY <3>1
      <4>2. p[1] = i
        BY <2>2, <4>1, BothParts
      <4> QED
        BY <1>1, <4>2 DEF LeftA
    <3>2. CASE \E k \in LeftA(a, b) : r = OnlyA(k)
      <4>1. PICK k \in LeftA(a, b) : r = OnlyA(k)
        BY <3>2
      <4>2. k = i
        BY <2>2, <4>1, OnlyParts
      <4> QED
        BY <4>1, <4>2
    <3>3. CASE \E j \in LeftB(a, b) : r = OnlyB(j)
      <4>1. PICK j \in LeftB(a, b) : r = OnlyB(j)
        BY <3>3
      <4>2. r.a = 0
        BY <4>1, OnlyParts
      <4> QED
        BY <1>0, <2>2, <4>2
    <3> QED
      BY <3>1, <3>2, <3>3, CallRowIs
  <2> HIDE DEF x
  <2>3. RowsOfA(a, b, i) = {x}
    BY <2>1, <2>2 DEF RowsOfA
  <2> QED
    BY <2>3
<1>2. CASE i \notin LeftA(a, b)
  <2>1. PICK q \in CallPairs(a, b) : q[1] = i
    BY <1>2 DEF LeftA
  <2> DEFINE x == BothRow(a, b, q)
  <2>2. x \in AlignCalls(a, b) /\ x.a = i
    BY <2>1, CallRowIs, BothParts
  <2>3. ASSUME NEW r \in AlignCalls(a, b), r.a = i PROVE r = x
    <3>1. CASE \E p \in CallPairs(a, b) : r = BothRow(a, b, p)
      <4>1. PICK p \in CallPairs(a, b) : r = BothRow(a, b, p)
        BY <3>1
      <4>2. p[1] = q[1]
        BY <2>1, <2>3, <4>1, BothParts
      <4>3. p = q
        BY <4>2, PairedOnce
      <4> QED
        BY <4>1, <4>3
    <3>2. CASE \E k \in LeftA(a, b) : r = OnlyA(k)
      <4>1. PICK k \in LeftA(a, b) : r = OnlyA(k)
        BY <3>2
      <4>2. k = i
        BY <2>3, <4>1, OnlyParts
      <4> QED
        BY <1>2, <4>2
    <3>3. CASE \E j \in LeftB(a, b) : r = OnlyB(j)
      <4>1. PICK j \in LeftB(a, b) : r = OnlyB(j)
        BY <3>3
      <4>2. r.a = 0
        BY <4>1, OnlyParts
      <4> QED
        BY <1>0, <2>3, <4>2
    <3> QED
      BY <3>1, <3>2, <3>3, CallRowIs
  <2> HIDE DEF x
  <2>4. RowsOfA(a, b, i) = {x}
    BY <2>2, <2>3 DEF RowsOfA
  <2> QED
    BY <2>4
<1> QED
  BY <1>1, <1>2

(***************************************************************************)
(* Compared the other way round.                                           *)
(***************************************************************************)
Mirror(r) == [status |-> OtherSide(r.status), a |-> r.b, b |-> r.a, fields |-> r.fields]

LEMMA MirrorRows ==
    ASSUME NEW status, NEW i, NEW j, NEW fields
    PROVE  Mirror(RowFor(status, i, j, fields)) = RowFor(OtherSide(status), j, i, fields)
BY DEF Mirror, RowFor

LEMMA OtherSides ==
    /\ OtherSide("same") = "same" /\ OtherSide("changed") = "changed"
    /\ OtherSide("only A") = "only B" /\ OtherSide("only B") = "only A"
BY DEF OtherSide

LEMMA DifferencesTurned ==
    ASSUME NEW one, NEW two
    PROVE  Differences(one, two) = Differences(two, one)
<1> DEFINE found(x, y) == {key \in DOMAIN x.bindings \cup DOMAIN y.bindings :
                              ValueOr(x.bindings, key, <<>>) # ValueOr(y.bindings, key, <<>>)}
           args(x, y) == IF x.args # y.args THEN {<<"args">>} ELSE {}
           setters(x, y) == IF x.setters # y.setters THEN {<<"setters">>} ELSE {}
<1>1. found(one, two) = found(two, one)
  OBVIOUS
<1>2. args(one, two) = args(two, one)
  OBVIOUS
<1>3. setters(one, two) = setters(two, one)
  OBVIOUS
<1>4. \A x, y : Differences(x, y) = args(x, y) \cup setters(x, y) \cup found(x, y)
  BY DEF Differences
<1> HIDE DEF found, args, setters
<1> QED
  BY <1>1, <1>2, <1>3, <1>4

LEMMA NoDifference ==
    ASSUME NEW x
    PROVE  Differences(x, x) = {}
BY DEF Differences

LEMMA MeetsTurned ==
    ASSUME NEW a, IsList(a), NEW b, IsList(b), NEW p, NEW q, Meets(a, b, p, q)
    PROVE  Meets(b, a, q, p)
<1> DEFINE pa == PathsOf(a)
           pb == PathsOf(b)
           Q == AlignPaths(pa, pb)
<1>1. AlignPaths(pb, pa) = Turned(Q)
  BY PathsListed, AlignTurned
<1>2. PICK x \in Q : pa[x[1]] = p /\ pb[x[2]] = q
  BY DEF Meets
<1> DEFINE y == <<x[2], x[1]>>
<1>3. y \in Turned(Q) /\ y[1] = x[2] /\ y[2] = x[1]
  BY TurnedIs
<1> HIDE DEF Q, y
<1>4. \E pair \in AlignPaths(pb, pa) : pb[pair[1]] = q /\ pa[pair[2]] = p
  BY <1>1, <1>2, <1>3
<1> QED
  BY <1>4 DEF Meets

LEMMA PairTurned ==
    ASSUME NEW a, IsList(a), NEW b, IsList(b), NEW p \in CallPairs(a, b)
    PROVE  <<p[2], p[1]>> \in CallPairs(b, a)
<1> DEFINE i == p[1]
           j == p[2]
<1>1. /\ i \in DOMAIN a /\ j \in DOMAIN b
      /\ Meets(a, b, a[i].path, b[j].path) /\ a[i].call = b[j].call /\ Nth(a, i) = Nth(b, j)
  BY CallPairIs
<1> HIDE DEF i, j
<1>2. SameCall(b, a, j, i)
  BY <1>1, MeetsTurned DEF SameCall
<1>3. <<j, i>> \in CallPairs(b, a)
  BY <1>1, <1>2 DEF CallPairs
<1> QED
  BY <1>3 DEF i, j

LEMMA LeftTurned ==
    ASSUME NEW a, IsList(a), NEW b, IsList(b)
    PROVE  LeftA(a, b) = LeftB(b, a) /\ LeftB(a, b) = LeftA(b, a)
<1>1. \A p \in CallPairs(a, b) : \E q \in CallPairs(b, a) : q[1] = p[2] /\ q[2] = p[1]
  <2> SUFFICES ASSUME NEW p \in CallPairs(a, b) PROVE \E q \in CallPairs(b, a) : q[1] = p[2] /\ q[2] = p[1]
    OBVIOUS
  <2> DEFINE q == <<p[2], p[1]>>
  <2>1. q \in CallPairs(b, a) /\ q[1] = p[2] /\ q[2] = p[1]
    BY PairTurned
  <2> HIDE DEF q
  <2> QED
    BY <2>1
<1>2. \A p \in CallPairs(b, a) : \E q \in CallPairs(a, b) : q[1] = p[2] /\ q[2] = p[1]
  <2> SUFFICES ASSUME NEW p \in CallPairs(b, a) PROVE \E q \in CallPairs(a, b) : q[1] = p[2] /\ q[2] = p[1]
    OBVIOUS
  <2> DEFINE q == <<p[2], p[1]>>
  <2>1. q \in CallPairs(a, b) /\ q[1] = p[2] /\ q[2] = p[1]
    BY PairTurned
  <2> HIDE DEF q
  <2> QED
    BY <2>1
<1>3. LeftA(a, b) = LeftB(b, a)
  BY <1>1, <1>2 DEF LeftA, LeftB
<1>4. LeftB(a, b) = LeftA(b, a)
  BY <1>1, <1>2 DEF LeftA, LeftB
<1> QED
  BY <1>3, <1>4

LEMMA OnlyMirrored ==
    ASSUME NEW i
    PROVE  Mirror(OnlyA(i)) = OnlyB(i) /\ Mirror(OnlyB(i)) = OnlyA(i)
BY OtherSides DEF Mirror, OnlyA, OnlyB, RowFor

LEMMA RowMirrored ==
    ASSUME NEW a, IsList(a), NEW b, IsList(b), NEW r \in AlignCalls(a, b)
    PROVE  Mirror(r) \in AlignCalls(b, a) /\ Mirror(Mirror(r)) = r
<1>1. CASE \E p \in CallPairs(a, b) : r = BothRow(a, b, p)
  <2>1. PICK p \in CallPairs(a, b) : r = BothRow(a, b, p)
    BY <1>1
  <2> DEFINE q == <<p[2], p[1]>>
             D == Differences(a[p[1]], b[p[2]])
             said == IF D = {} THEN "same" ELSE "changed"
  <2>2. q \in CallPairs(b, a) /\ q[1] = p[2] /\ q[2] = p[1]
    BY PairTurned
  <2>3. r = RowFor(said, p[1], p[2], D)
    BY <2>1 DEF BothRow
  <2>4. OtherSide(said) = said
    BY OtherSides
  <2> HIDE DEF q
  <2>5. BothRow(b, a, q) = RowFor(said, p[2], p[1], D)
    <3>1. Differences(b[q[1]], a[q[2]]) = D
      BY <2>2, DifferencesTurned
    <3> HIDE DEF D
    <3> QED
      BY <2>2, <3>1 DEF BothRow
  <2> HIDE DEF said, D
  <2>6. Mirror(r) = BothRow(b, a, q) /\ Mirror(Mirror(r)) = r
    BY <2>3, <2>4, <2>5, MirrorRows
  <2> QED
    BY <2>2, <2>6, CallRowIs
<1>2. CASE \E i \in LeftA(a, b) : r = OnlyA(i)
  <2>1. PICK i \in LeftA(a, b) : r = OnlyA(i)
    BY <1>2
  <2>3. Mirror(r) = OnlyB(i) /\ Mirror(Mirror(r)) = r
    BY <2>1, OnlyMirrored
  <2>4. i \in LeftB(b, a)
    BY LeftTurned
  <2> QED
    BY <2>3, <2>4, CallRowIs
<1>3. CASE \E j \in LeftB(a, b) : r = OnlyB(j)
  <2>1. PICK j \in LeftB(a, b) : r = OnlyB(j)
    BY <1>3
  <2>3. Mirror(r) = OnlyA(j) /\ Mirror(Mirror(r)) = r
    BY <2>1, OnlyMirrored
  <2>4. j \in LeftA(b, a)
    BY LeftTurned
  <2> QED
    BY <2>3, <2>4, CallRowIs
<1> QED
  BY <1>1, <1>2, <1>3, CallRowIs

LEMMA RowsMirrored ==
    ASSUME NEW a, IsList(a), NEW b, IsList(b)
    PROVE  {Mirror(r) : r \in AlignCalls(a, b)} = AlignCalls(b, a)
<1> DEFINE rows == AlignCalls(a, b)
           other == AlignCalls(b, a)
<1>1. \A r \in rows : Mirror(r) \in other
  BY RowMirrored
<1>2. \A r \in other : Mirror(r) \in rows /\ Mirror(Mirror(r)) = r
  BY RowMirrored
<1> HIDE DEF rows, other
<1>3. {Mirror(r) : r \in rows} = other
  BY <1>1, <1>2
<1> QED
  BY <1>3 DEF rows, other

LEMMA OneRowOfB ==
    ASSUME NEW a, IsList(a), NEW b, IsList(b), NEW j \in DOMAIN b
    PROVE  Cardinality(RowsOfB(a, b, j)) = 1
<1>1. PICK x : RowsOfA(b, a, j) = {x}
  BY RowOfA
<1> DEFINE y == Mirror(x)
<1>2. x \in AlignCalls(b, a) /\ x.a = j
  BY <1>1 DEF RowsOfA
<1>3. y \in AlignCalls(a, b) /\ y.b = j
  BY <1>2, RowMirrored DEF Mirror
<1>4. ASSUME NEW r \in AlignCalls(a, b), r.b = j PROVE r = y
  <2>1. Mirror(r) \in AlignCalls(b, a) /\ Mirror(Mirror(r)) = r
    BY RowMirrored
  <2>2. Mirror(r).a = j
    BY <1>4 DEF Mirror
  <2>3. Mirror(r) = x
    BY <1>1, <2>1, <2>2 DEF RowsOfA
  <2> QED
    BY <2>1, <2>3
<1> HIDE DEF y
<1>5. RowsOfB(a, b, j) = {y}
  BY <1>3, <1>4 DEF RowsOfB
<1> QED
  BY <1>5, FS_Singleton

(***************************************************************************)
(* The property, clause by clause.                                         *)
(***************************************************************************)
LEMMA OneRowEach ==
    ASSUME NEW a, IsList(a), NEW b, IsList(b)
    PROVE  /\ \A i \in DOMAIN a : Cardinality(RowsOfA(a, b, i)) = 1
           /\ \A j \in DOMAIN b : Cardinality(RowsOfB(a, b, j)) = 1
<1>1. ASSUME NEW i \in DOMAIN a PROVE Cardinality(RowsOfA(a, b, i)) = 1
  <2>1. PICK x : RowsOfA(a, b, i) = {x}
    BY RowOfA
  <2> QED
    BY <2>1, FS_Singleton
<1>2. ASSUME NEW j \in DOMAIN b PROVE Cardinality(RowsOfB(a, b, j)) = 1
  BY OneRowOfB
<1> QED
  BY <1>1, <1>2

OrdinalsAre(a) == \A i \in 1..Len(a) : a[i].ordinal = Nth(a, i)

LEMMA OrdinalsAgree ==
    ASSUME NEW a, IsList(a), NEW b, IsList(b), OrdinalsAre(a), OrdinalsAre(b),
           NEW r \in AlignCalls(a, b), r.a # 0, r.b # 0
    PROVE  a[r.a].ordinal = b[r.b].ordinal
<1>1. PICK p \in CallPairs(a, b) : r = BothRow(a, b, p)
  <2>1. \A i : OnlyA(i).b = 0 /\ OnlyB(i).a = 0
    BY OnlyParts
  <2> QED
    BY <2>1, CallRowIs
<1>2. r.a = p[1] /\ r.b = p[2]
  BY <1>1, BothParts
<1>3. p[1] \in DOMAIN a /\ p[2] \in DOMAIN b /\ Nth(a, p[1]) = Nth(b, p[2])
  BY CallPairIs
<1>4. DOMAIN a = 1..Len(a) /\ DOMAIN b = 1..Len(b)
  BY ListHas
<1> QED
  BY <1>2, <1>3, <1>4 DEF OrdinalsAre

LEMMA MeetsSelf ==
    ASSUME NEW a, IsList(a)
    PROVE  /\ \A p, q : Meets(a, a, p, q) => p = q
           /\ \A i \in DOMAIN a : Meets(a, a, a[i].path, a[i].path)
<1> DEFINE pa == PathsOf(a)
           m == Len(pa)
           Q == AlignPaths(pa, pa)
<1>1. /\ m \in Nat /\ DOMAIN pa = 1..m /\ \A i \in 1..m, j \in 1..m : pa[i] = pa[j] => i = j
      /\ \A i \in DOMAIN a : \E k \in 1..m : pa[k] = a[i].path
  BY PathsOfAre
<1> HIDE DEF pa, m
<1>2. /\ \A q \in Q : q[1] = q[2]
      /\ \A i \in 1..m : <<i, i>> \in Q
  BY <1>1, AlignSelf
<1> HIDE DEF Q
<1>3. ASSUME NEW p, NEW q, Meets(a, a, p, q) PROVE p = q
  <2>1. PICK x \in Q : pa[x[1]] = p /\ pa[x[2]] = q
    BY <1>3 DEF Meets, Q, pa
  <2> QED
    BY <1>2, <2>1
<1>4. ASSUME NEW i \in DOMAIN a PROVE Meets(a, a, a[i].path, a[i].path)
  <2>1. PICK k \in 1..m : pa[k] = a[i].path
    BY <1>1
  <2> DEFINE x == <<k, k>>
  <2>2. x \in Q /\ x[1] = k /\ x[2] = k
    BY <1>2
  <2> HIDE DEF x
  <2>3. \E pair \in Q : pa[pair[1]] = a[i].path /\ pa[pair[2]] = a[i].path
    BY <2>1, <2>2
  <2> QED
    BY <2>3 DEF Meets, Q, pa
<1> QED
  BY <1>3, <1>4

LEMMA SameAsItself ==
    ASSUME NEW a, IsList(a), NEW r \in AlignCalls(a, a)
    PROVE  r.status = "same" /\ r.a = r.b
<1>1. ASSUME NEW i \in DOMAIN a PROVE \E q \in CallPairs(a, a) : q[1] = i /\ q[2] = i
  <2> DEFINE q == <<i, i>>
  <2>1. SameCall(a, a, i, i)
    BY MeetsSelf DEF SameCall
  <2>2. q \in CallPairs(a, a) /\ q[1] = i /\ q[2] = i
    BY <2>1 DEF CallPairs
  <2> HIDE DEF q
  <2> QED
    BY <2>2
<1>2. LeftA(a, a) = {} /\ LeftB(a, a) = {}
  BY <1>1 DEF LeftA, LeftB
<1>3. PICK p \in CallPairs(a, a) : r = BothRow(a, a, p)
  BY <1>2, CallRowIs
<1> DEFINE i == p[1]
           j == p[2]
<1>4. /\ i \in DOMAIN a /\ j \in DOMAIN a
      /\ Meets(a, a, a[i].path, a[j].path) /\ a[i].call = a[j].call /\ Nth(a, i) = Nth(a, j)
  BY CallPairIs
<1>5. r.a = i /\ r.b = j /\ (r.status = "same" <=> Differences(a[i], a[j]) = {})
  BY <1>3, BothParts
<1> HIDE DEF i, j
<1>6. a[i].path = a[j].path
  BY <1>4, MeetsSelf
<1>7. i = j
  BY <1>4, <1>6, NthApart
<1> QED
  BY <1>5, <1>7, NoDifference

(***************************************************************************)
(* A side is always a list of chunks: all the inductive invariant needs,   *)
(* the rest being true of any two lists.                                   *)
(***************************************************************************)
DiffInv == IsList(sideA) /\ IsList(sideB)

LEMMA ListsJoin ==
    ASSUME NEW s, IsList(s), NEW t, IsList(t)
    PROVE  IsList(s \o t)
<1> DEFINE S == Range(s) \cup Range(t)
<1>1. s \in Seq(Range(s)) /\ t \in Seq(Range(t)) /\ Range(s) \subseteq S /\ Range(t) \subseteq S
  BY DEF IsList
<1> HIDE DEF S
<1>2. s \in Seq(S) /\ t \in Seq(S)
  BY <1>1
<1>3. s \o t \in Seq(S)
  BY <1>2
<1> QED
  BY <1>3, ListIs

LEMMA DiffInvHolds == DiffSpec => []DiffInv
<1>1. DiffInit => DiffInv
  <2>1. IsList(<<>>)
    <3>1. <<>> \in Seq({})
      OBVIOUS
    <3> QED
      BY <3>1, ListIs
  <2> QED
    BY <2>1 DEF DiffInit, DiffInv
<1>2. DiffInv /\ [DiffNext]_diffVars => DiffInv'
  <2> SUFFICES ASSUME DiffInv, [DiffNext]_diffVars PROVE DiffInv'
    OBVIOUS
  <2>1. \A s \in Snippets : IsList(s)
    BY DiffAssumption DEF IsList
  <2>2. ASSUME NEW s \in Snippets, sideA' = sideA \o s, UNCHANGED sideB PROVE DiffInv'
    BY <2>1, <2>2, ListsJoin DEF DiffInv
  <2>3. ASSUME NEW s \in Snippets, sideB' = sideB \o s, UNCHANGED sideA PROVE DiffInv'
    BY <2>1, <2>3, ListsJoin DEF DiffInv
  <2>4. CASE UNCHANGED diffVars
    BY <2>4 DEF DiffInv, diffVars
  <2> QED
    BY <2>2, <2>3, <2>4 DEF DiffNext
<1> QED
  BY <1>1, <1>2, PTL DEF DiffSpec

LEMMA ListsAccounted ==
    ASSUME DiffInv
    PROVE  DiffAccountsForEveryCall
<1> DEFINE a == CallRecords(sideA)
           b == CallRecords(sideB)
<1>1. RecordsHold(a, sideA) /\ RecordsHold(b, sideB)
  BY RecordsAre DEF DiffInv
<1> HIDE DEF a, b
<1>2. IsList(a) /\ IsList(b) /\ OrdinalsAre(a) /\ OrdinalsAre(b)
  BY <1>1 DEF RecordsHold, OrdinalsAre
<1>3. /\ \A i \in DOMAIN a : Cardinality({r \in AlignCalls(a, b) : r.a = i}) = 1
      /\ \A j \in DOMAIN b : Cardinality({r \in AlignCalls(a, b) : r.b = j}) = 1
  BY <1>2, OneRowEach DEF RowsOfA, RowsOfB
<1>4. \A r \in AlignCalls(a, b) : r.a # 0 /\ r.b # 0 => a[r.a].ordinal = b[r.b].ordinal
  BY <1>2, OrdinalsAgree
<1>5. /\ Len(a) = Cardinality(Calls(sideA, Len(sideA)))
      /\ \A at \in Calls(sideA, Len(sideA)) :
            AreOps(a[Cardinality(Calls(sideA, at))].setters, sideA, SetSince(sideA, sideA[at].list, at - 1))
  BY <1>1 DEF RecordsHold
<1>6. {[status |-> OtherSide(r.status), a |-> r.b, b |-> r.a, fields |-> r.fields] : r \in AlignCalls(a, b)}
         = AlignCalls(b, a)
  BY <1>2, RowsMirrored DEF Mirror
<1>7. \A r \in AlignCalls(a, a) : r.status = "same" /\ r.a = r.b
  BY <1>2, SameAsItself
<1> QED
  BY <1>3, <1>4, <1>5, <1>6, <1>7 DEF DiffAccountsForEveryCall, a, b

(***************************************************************************)
(* The comparison of two streams of any chunks accounts for every call of  *)
(* both, in one row and with the setters of its own list (filediff.py:345).*)
(***************************************************************************)
THEOREM DiffsAccountForCalls == DiffSpec => []DiffAccountsForEveryCall
<1>1. DiffInv => DiffAccountsForEveryCall
  BY ListsAccounted
<1> QED
  BY <1>1, DiffInvHolds, PTL
=============================================================================
