---------------------------- MODULE ReportProofs ----------------------------
(***************************************************************************)
(* What a report claims, for any capture and any bundle of it.             *)
(***************************************************************************)
EXTENDS PairProofs, Report

(***************************************************************************)
(* A set in an order: every element once, none after one it comes before.  *)
(***************************************************************************)
Orderable(S, order) ==
    /\ IsFiniteSet(S)
    /\ \A T \in SUBSET S : T # {} => \E x \in T : \A y \in T : <<y, x>> \notin order
IsRanked(s, S, order) ==
    /\ s \in Seq(S) /\ Len(s) = Cardinality(S) /\ Range(s) = S
    /\ \A i \in 1..Len(s), j \in 1..Len(s) : i < j => <<s[j], s[i]>> \notin order

NextOf(S, order, done) == CHOOSE x \in S \ Range(done) : \A y \in S \ Range(done) : <<y, x>> \notin order
Counting(S) == [k \in 1..Cardinality(S) |-> k]
RankedFrom(f, S, order) ==
    [s \in SUBSET DOMAIN Counting(S) |->
        IF s = {} THEN <<>>
        ELSE LET x == Max(s) IN Append(f[s \ {x}], NextOf(S, order, f[s \ {x}]))]

LEMMA RankedDef ==
    ASSUME NEW S, NEW order
    PROVE  Ranked(S, order) = (CHOOSE f : f = RankedFrom(f, S, order))[DOMAIN Counting(S)]
BY DEF Ranked, FoldLeft, MapThenFoldSet, RankedFrom, NextOf, Counting

LEMMA NextIs ==
    ASSUME NEW S, NEW order, Orderable(S, order), NEW done, S \ Range(done) # {}
    PROVE  /\ NextOf(S, order, done) \in S \ Range(done)
           /\ \A y \in S \ Range(done) : <<y, NextOf(S, order, done)>> \notin order
<1> DEFINE T == S \ Range(done)
<1>1. T \in SUBSET S /\ T # {}
  OBVIOUS
<1>2. \E x \in T : \A y \in T : <<y, x>> \notin order
  BY <1>1 DEF Orderable
<1> QED
  BY <1>2 DEF NextOf

LEMMA RankedExists ==
    ASSUME NEW S, NEW order, Orderable(S, order)
    PROVE  \E f : f = RankedFrom(f, S, order)
<1> DEFINE n == Cardinality(S)
           junk == NextOf(S, order, CHOOSE done : S \ Range(done) = {})
           A == Seq(S \cup {junk})
           G == [k \in 1..n |-> [done \in A |-> Append(done, NextOf(S, order, done))]]
<1>0. n \in Nat
  BY FS_CardinalityType DEF Orderable
<1>1. ASSUME NEW done PROVE NextOf(S, order, done) \in S \cup {junk}
  <2>1. CASE S \ Range(done) # {}
    BY <2>1, NextIs
  <2>2. CASE S \ Range(done) = {}
    <3> DEFINE all == CHOOSE d : S \ Range(d) = {}
    <3>1. S \ Range(all) = {}
      BY <2>2
    <3> HIDE DEF all
    <3>2. NextOf(S, order, done) = NextOf(S, order, all)
      BY <2>2, <3>1 DEF NextOf
    <3> QED
      BY <3>2 DEF all
  <2> QED
    BY <2>1, <2>2
<1>2. \A done \in A : Append(done, NextOf(S, order, done)) \in A
  <2> HIDE DEF junk
  <2> QED
    BY <1>1
<1>3. <<>> \in A /\ DOMAIN Counting(S) = 1..n
  BY DEF Counting
<1> HIDE DEF A, n
<1>4. G \in [1..n -> [A -> A]]
  BY <1>2
<1>5. \A k \in 1..n, done \in A : G[k][done] = Append(done, NextOf(S, order, done))
  OBVIOUS
<1> HIDE DEF G
<1>6. Chainable(n, A, <<>>, G)
  BY <1>0, <1>3, <1>4 DEF Chainable
<1>7. PICK f : Rungs(f, n, A, <<>>, G)
  BY <1>6, RungsExist
<1>8. f \in [SUBSET (1..n) -> A] /\ f[{}] = <<>>
  BY <1>7 DEF Rungs
<1>9. ASSUME NEW s \in SUBSET (1..n), s # {}
      PROVE  f[s] = Append(f[s \ {Max(s)}], NextOf(S, order, f[s \ {Max(s)}]))
  <2>1. Max(s) \in s /\ f[s] = G[Max(s)][f[s \ {Max(s)}]]
    BY <1>7, <1>9 DEF Rungs
  <2>2. f[s \ {Max(s)}] \in A /\ Max(s) \in 1..n
    BY <1>8, <2>1
  <2> QED
    BY <1>5, <2>1, <2>2
<1>10. f = RankedFrom(f, S, order)
  BY <1>3, <1>8, <1>9 DEF RankedFrom
<1> QED
  BY <1>10

\* The first `k` of a ranking.
RankedTo(s, S, order, k) ==
    /\ s \in Seq(S) /\ Len(s) = k /\ IsFiniteSet(Range(s)) /\ Cardinality(Range(s)) = k
    /\ \A i \in 1..k, j \in 1..k : i < j => <<s[j], s[i]>> \notin order
    /\ \A i \in 1..k, y \in S \ Range(s) : <<y, s[i]>> \notin order

LEMMA AppendOne ==
    ASSUME NEW S, NEW s \in Seq(S), NEW x \in S
    PROVE  /\ Append(s, x) \in Seq(S) /\ Len(Append(s, x)) = Len(s) + 1 /\ Append(s, x)[Len(s) + 1] = x
           /\ \A i \in 1..Len(s) : Append(s, x)[i] = s[i]
           /\ Range(Append(s, x)) = Range(s) \cup {x}
<1> DEFINE t == Append(s, x)
           l == Len(s)
<1>1. /\ t \in Seq(S) /\ l \in Nat /\ Len(t) = l + 1 /\ t[l + 1] = x /\ DOMAIN s = 1..l /\ DOMAIN t = 1..(l + 1)
      /\ \A i \in 1..l : t[i] = s[i]
  OBVIOUS
<1> HIDE DEF t, l
<1>2. \A i \in 1..(l + 1) : i \in 1..l \/ i = l + 1
  BY <1>1
<1>3. (\A i \in 1..l : i \in 1..(l + 1)) /\ l + 1 \in 1..(l + 1)
  BY <1>1
<1>4. Range(t) = Range(s) \cup {x}
  BY <1>1, <1>2, <1>3 DEF Range
<1> QED
  BY <1>1, <1>4 DEF t, l

LEMMA RankedStep ==
    ASSUME NEW S, NEW order, Orderable(S, order), NEW k \in Nat, k < Cardinality(S), NEW s, RankedTo(s, S, order, k)
    PROVE  RankedTo(Append(s, NextOf(S, order, s)), S, order, k + 1)
<1> DEFINE x == NextOf(S, order, s)
           t == Append(s, x)
<1>0. /\ s \in Seq(S) /\ Len(s) = k /\ IsFiniteSet(Range(s)) /\ Cardinality(Range(s)) = k
      /\ \A i \in 1..k, j \in 1..k : i < j => <<s[j], s[i]>> \notin order
      /\ \A i \in 1..k, y \in S \ Range(s) : <<y, s[i]>> \notin order
  BY DEF RankedTo
<1>1. S \ Range(s) # {}
  <2>1. Range(s) \in SUBSET S
    BY <1>0 DEF Range
  <2> SUFFICES ASSUME S \ Range(s) = {} PROVE FALSE
    OBVIOUS
  <2>2. Range(s) = S
    BY <2>1
  <2> QED
    BY <1>0, <2>2
<1>2. x \in S /\ x \notin Range(s) /\ \A y \in S \ Range(s) : <<y, x>> \notin order
  BY <1>1, NextIs
<1> HIDE DEF x
<1>3. /\ t \in Seq(S) /\ Len(t) = k + 1 /\ t[k + 1] = x
      /\ (\A i \in 1..k : t[i] = s[i]) /\ Range(t) = Range(s) \cup {x}
  BY <1>0, <1>2, AppendOne
<1> HIDE DEF t
<1>4. IsFiniteSet(Range(t)) /\ Cardinality(Range(t)) = k + 1
  <2> DEFINE R == Range(s)
  <2>1. IsFiniteSet(R) /\ Cardinality(R) = k /\ x \notin R
    BY <1>0, <1>2
  <2> HIDE DEF R
  <2>2. IsFiniteSet(R \cup {x}) /\ Cardinality(R \cup {x}) = k + 1
    BY <2>1, FS_AddElement
  <2> QED
    BY <1>3, <2>2 DEF R
<1>5. \A i \in 1..(k + 1) : i \in 1..k \/ i = k + 1
  OBVIOUS
<1>6. ASSUME NEW i \in 1..(k + 1), NEW j \in 1..(k + 1), i < j PROVE <<t[j], t[i]>> \notin order
  <2>1. i \in 1..k
    BY <1>6
  <2>2. CASE j \in 1..k
    BY <1>0, <1>3, <1>6, <2>1, <2>2
  <2>3. CASE j = k + 1
    BY <1>0, <1>2, <1>3, <2>1, <2>3
  <2> QED
    BY <1>5, <2>2, <2>3
<1>7. ASSUME NEW i \in 1..(k + 1), NEW y \in S \ Range(t) PROVE <<y, t[i]>> \notin order
  <2>1. y \in S \ Range(s)
    BY <1>3
  <2>2. CASE i \in 1..k
    BY <1>0, <1>3, <2>1, <2>2
  <2>3. CASE i = k + 1
    BY <1>2, <1>3, <2>1, <2>3
  <2> QED
    BY <1>5, <2>2, <2>3
<1>8. RankedTo(t, S, order, k + 1)
  BY <1>3, <1>4, <1>6, <1>7 DEF RankedTo
<1> QED
  BY <1>8 DEF t, x

LEMMA RankedIs ==
    ASSUME NEW S, NEW order, Orderable(S, order)
    PROVE  IsRanked(Ranked(S, order), S, order)
<1> DEFINE n == Cardinality(S)
           f == CHOOSE f : f = RankedFrom(f, S, order)
           good == {k \in 0..n : RankedTo(f[1..k], S, order, k)}
<1>0. n \in Nat /\ DOMAIN Counting(S) = 1..n /\ IsFiniteSet(S)
  BY FS_CardinalityType DEF Orderable, Counting
<1>1. f = RankedFrom(f, S, order)
  BY RankedExists
<1>2. Ranked(S, order) = f[1..n]
  BY <1>0, RankedDef
<1> HIDE DEF f
<1>3. \A s \in SUBSET (1..n) : s = {} => f[s] = <<>>
  BY <1>0, <1>1 DEF RankedFrom
<1>4. \A s \in SUBSET (1..n) : s # {} => f[s] = Append(f[s \ {Max(s)}], NextOf(S, order, f[s \ {Max(s)}]))
  BY <1>0, <1>1 DEF RankedFrom
<1>5. 0 \in good
  <2>1. 1..0 = {} /\ 0 \in 0..n
    BY <1>0
  <2>2. f[1..0] = <<>>
    BY <1>3, <2>1
  <2>3. IsFiniteSet({}) /\ Cardinality({}) = 0
    BY FS_EmptySet
  <2>4. RankedTo(<<>>, S, order, 0)
    <3>1. <<>> \in Seq(S) /\ Len(<<>>) = 0 /\ Range(<<>>) = {}
      BY RangeOfFew
    <3>2. IsFiniteSet(Range(<<>>)) /\ Cardinality(Range(<<>>)) = 0
      BY <2>3, <3>1
    <3> QED
      BY <2>1, <3>1, <3>2 DEF RankedTo
  <2> QED
    BY <2>1, <2>2, <2>4
<1>6. ASSUME NEW k \in (0 + 1)..n, k - 1 \in good PROVE k \in good
  <2>1. k \in 1..n /\ k \in 0..n /\ k - 1 \in Nat /\ k - 1 < n /\ k - 1 + 1 = k
    BY <1>0
  <2>2. f[1..k] = Append(f[1..(k - 1)], NextOf(S, order, f[1..(k - 1)]))
    <3> DEFINE s == 1..k
    <3>1. s \in SUBSET (1..n) /\ s # {} /\ Max(s) = k /\ s \ {k} = 1..(k - 1)
      BY <1>0, <2>1, Rung
    <3> HIDE DEF s
    <3>2. f[s] = Append(f[s \ {Max(s)}], NextOf(S, order, f[s \ {Max(s)}]))
      BY <1>4, <3>1
    <3> QED
      BY <3>1, <3>2 DEF s
  <2>3. RankedTo(f[1..(k - 1)], S, order, k - 1)
    BY <1>6
  <2> DEFINE j == k - 1
  <2>4. RankedTo(Append(f[1..j], NextOf(S, order, f[1..j])), S, order, j + 1)
    <3>1. j \in Nat /\ j < n /\ RankedTo(f[1..j], S, order, j)
      BY <2>1, <2>3
    <3> HIDE DEF j
    <3> QED
      BY <3>1, RankedStep
  <2> QED
    BY <2>1, <2>2, <2>4
<1>7. RankedTo(f[1..n], S, order, n)
  <2> HIDE DEF good
  <2>1. \A k \in 0..n : k \in good
    BY <1>0, <1>5, <1>6, Climbs
  <2>2. n \in good
    BY <1>0, <2>1
  <2> QED
    BY <2>2 DEF good
<1> DEFINE s == f[1..n]
<1> HIDE DEF n
<1>8. /\ s \in Seq(S) /\ Len(s) = n /\ Cardinality(Range(s)) = n
      /\ \A i \in 1..n, j \in 1..n : i < j => <<s[j], s[i]>> \notin order
  BY <1>7 DEF RankedTo
<1> HIDE DEF s
<1>9. Range(s) = S
  <2>1. Range(s) \in SUBSET S
    BY <1>8 DEF Range
  <2> QED
    BY <1>0, <1>8, <2>1, FS_Subset DEF n
<1> QED
  BY <1>2, <1>8, <1>9 DEF IsRanked, s, n
\* What never comes before itself by a measure.
LEMMA Measured ==
    ASSUME NEW S, IsFiniteSet(S), NEW order, NEW m \in [S -> Nat],
           \A x \in S, y \in S : <<y, x>> \in order => m[y] < m[x]
    PROVE  Orderable(S, order)
<1> SUFFICES ASSUME NEW T \in SUBSET S, T # {} PROVE \E x \in T : \A y \in T : <<y, x>> \notin order
  BY DEF Orderable
<1> DEFINE V == {m[x] : x \in T}
<1>1. V \in SUBSET Nat /\ V # {}
  OBVIOUS
<1>2. \E v \in V : \A w \in V : v <= w
  <2> HIDE DEF V
  <2> QED
    BY <1>1, NatLeast
<1>3. PICK x \in T : \A y \in T : m[x] <= m[y]
  BY <1>2
<1>4. ASSUME NEW y \in T, <<y, x>> \in order PROVE FALSE
  <2>1. m[y] < m[x] /\ m[x] <= m[y] /\ m[x] \in Nat /\ m[y] \in Nat
    BY <1>3, <1>4
  <2> QED
    BY <2>1
<1> QED
  BY <1>4

LEMMA InOrderIs ==
    ASSUME NEW S \in SUBSET Nat, IsFiniteSet(S)
    PROVE  InOrder(S) \in Seq(S) /\ Len(InOrder(S)) = Cardinality(S) /\ Range(InOrder(S)) = S
<1> DEFINE order == {p \in S \X S : p[1] < p[2]}
           m == [x \in S |-> x]
<1>1. m \in [S -> Nat] /\ \A x \in S, y \in S : <<y, x>> \in order => m[y] < m[x]
  OBVIOUS
<1>2. InOrder(S) = Ranked(S, order)
  BY DEF InOrder
<1> HIDE DEF order, m
<1>3. Orderable(S, order)
  BY <1>1, Measured
<1>4. IsRanked(Ranked(S, order), S, order)
  BY <1>3, RankedIs
<1> QED
  BY <1>2, <1>4 DEF IsRanked

LEMMA HeaviestIs ==
    ASSUME NEW S \in SUBSET Nat, IsFiniteSet(S), NEW weight \in [S -> Nat]
    PROVE  HeaviestFirst(weight) \in Seq(S) /\ Range(HeaviestFirst(weight)) = S
<1> DEFINE order == {p \in S \X S : weight[p[1]] > weight[p[2]] \/ (weight[p[1]] = weight[p[2]] /\ p[1] < p[2])}
<1>1. HeaviestFirst(weight) = Ranked(S, order)
  BY DEF HeaviestFirst
<1>2. ASSUME NEW x \in S, NEW y \in S
      PROVE  <<y, x>> \in order <=> weight[y] > weight[x] \/ (weight[y] = weight[x] /\ y < x)
  OBVIOUS
<1> HIDE DEF order
<1>3. ASSUME NEW T \in SUBSET S, T # {} PROVE \E x \in T : \A y \in T : <<y, x>> \notin order
  <2> DEFINE V == {weight[x] : x \in T}
  <2>1. V \in SUBSET Nat /\ V # {} /\ IsFiniteSet(V)
    <3>1. IsFiniteSet(T)
      BY FS_Subset
    <3>2. [x \in T |-> weight[x]] \in Surjection(T, V)
      BY DEF Surjection
    <3>3. V \in SUBSET Nat /\ V # {}
      BY <1>3
    <3> HIDE DEF V
    <3>4. IsFiniteSet(V)
      BY <3>1, <3>2, FS_Surjection
    <3> QED
      BY <3>3, <3>4
  <2>2. \E v \in V : \A w \in V : w <= v
    <3> HIDE DEF V
    <3> QED
      BY <2>1, FiniteMax
  <2>3. PICK v \in V : \A w \in V : w <= v
    BY <2>2
  <2> DEFINE U == {x \in T : weight[x] = v}
  <2>4. U \in SUBSET Nat /\ U # {}
    OBVIOUS
  <2>5. \E u \in U : \A y \in U : u <= y
    <3> HIDE DEF U
    <3> QED
      BY <2>4, NatLeast
  <2>6. PICK u \in U : \A y \in U : u <= y
    BY <2>5
  <2>7. ASSUME NEW y \in T PROVE <<y, u>> \notin order
    <3>1. u \in S /\ y \in S /\ weight[u] = v /\ weight[y] <= v /\ weight[y] \in Nat /\ v \in Nat
      BY <2>3
    <3>2. weight[y] = v => u <= y
      BY <2>6
    <3> QED
      BY <1>2, <3>1, <3>2
  <2>8. u \in T
    OBVIOUS
  <2> QED
    BY <2>7, <2>8
<1>4. Orderable(S, order)
  BY <1>3 DEF Orderable
<1>5. IsRanked(Ranked(S, order), S, order)
  BY <1>4, RankedIs
<1> QED
  BY <1>1, <1>5 DEF IsRanked

-----------------------------------------------------------------------------
(***************************************************************************)
(* The lines of a finding, and what they name.                             *)
(***************************************************************************)
Named(lines, tag) == {n[2] : n \in {n \in UNION Range(lines) : n[1] = tag}}

LEMMA NamedIs ==
    ASSUME NEW lines, NEW tag, NEW x
    PROVE  x \in Named(lines, tag) <=> \E k \in DOMAIN lines : \E n \in lines[k] : n[1] = tag /\ n[2] = x
BY DEF Named, Range

LEMMA LinesAre ==
    ASSUME NEW tag, NEW S \in SUBSET Nat, IsFiniteSet(S)
    PROVE  /\ LinesOf(tag, S) \in Seq({{<<tag, x>>} : x \in S})
           /\ Len(LinesOf(tag, S)) = Cardinality(S)
           /\ \A x \in S : \E k \in DOMAIN LinesOf(tag, S) : LinesOf(tag, S)[k] = {<<tag, x>>}
<1> DEFINE o == InOrder(S)
           lines == LinesOf(tag, S)
           T == {{<<tag, x>>} : x \in S}
<1>1. o \in Seq(S) /\ Len(o) = Cardinality(S) /\ Range(o) = S
  BY InOrderIs
<1>2. lines = [i \in DOMAIN o |-> {<<tag, o[i]>>}]
  BY DEF LinesOf
<1> HIDE DEF o, lines
<1>3. DOMAIN lines = 1..Len(o) /\ DOMAIN o = 1..Len(o) /\ Len(o) \in Nat /\ \A i \in 1..Len(o) : o[i] \in S /\ lines[i] = {<<tag, o[i]>>}
  BY <1>1, <1>2
<1>4. \A i \in 1..Len(o) : lines[i] \in T
  BY <1>3
<1> HIDE DEF T
<1>5. lines \in Seq(T) /\ Len(lines) = Len(o)
  BY <1>2, <1>3, <1>4
<1>6. \A x \in S : \E k \in DOMAIN lines : lines[k] = {<<tag, x>>}
  BY <1>1, <1>3 DEF Range
<1> QED
  BY <1>1, <1>5, <1>6 DEF lines, T

LEMMA LinesName ==
    ASSUME NEW tag, NEW S \in SUBSET Nat, IsFiniteSet(S)
    PROVE  Named(LinesOf(tag, S), tag) = S /\ \A other : other # tag => Named(LinesOf(tag, S), other) = {}
<1> DEFINE lines == LinesOf(tag, S)
           T == {{<<tag, x>>} : x \in S}
<1>1. \A k \in DOMAIN lines : \E x \in S : lines[k] = {<<tag, x>>}
  <2>1. lines \in Seq(T)
    BY LinesAre
  <2> HIDE DEF lines, T
  <2>2. \A k \in DOMAIN lines : lines[k] \in T
    BY <2>1
  <2> QED
    BY <2>2 DEF T
<1>2. \A x \in S : \E k \in DOMAIN lines : lines[k] = {<<tag, x>>}
  BY LinesAre
<1> HIDE DEF lines
<1>3. ASSUME NEW t, NEW x, x \in Named(lines, t) PROVE t = tag /\ x \in S
  <2>1. PICK k \in DOMAIN lines : \E n \in lines[k] : n[1] = t /\ n[2] = x
    BY <1>3, NamedIs
  <2>2. PICK y \in S : lines[k] = {<<tag, y>>}
    BY <1>1
  <2> QED
    BY <2>1, <2>2
<1>4. ASSUME NEW x \in S PROVE x \in Named(lines, tag)
  <2>1. PICK k \in DOMAIN lines : lines[k] = {<<tag, x>>}
    BY <1>2
  <2>2. <<tag, x>> \in lines[k] /\ <<tag, x>>[1] = tag /\ <<tag, x>>[2] = x
    BY <2>1
  <2> QED
    BY <2>2, NamedIs
<1> QED
  BY <1>3, <1>4 DEF lines

\* A shortened list names nothing else but how many it leaves out.
LEMMA ListedName ==
    ASSUME NEW T, NEW lines \in Seq(T), NEW tag, tag # "more"
    PROVE  /\ Named(Listed(lines), tag) \subseteq Named(lines, tag)
           /\ Named(Listed(lines), tag) = Named(lines, tag) \/ Named(Listed(lines), "more") # {}
<1> DEFINE L == Len(lines)
           few == SubSeq(lines, 1, ListLimit)
           rest == {<<"more", L - ListLimit>>}
           long == Append(few, rest)
<1>0. L \in Nat /\ ListLimit \in Nat /\ ListLimit >= 1 /\ DOMAIN lines = 1..L
  BY DetectorsAssumption
<1>1. CASE L <= ListLimit
  BY <1>1 DEF Listed
<1>2. CASE ~(L <= ListLimit)
  <2>1. Listed(lines) = long
    BY <1>2 DEF Listed
  <2>2. few \in Seq(T) /\ Len(few) = ListLimit /\ \A k \in 1..ListLimit : few[k] = lines[k] /\ k \in DOMAIN lines
    BY <1>0, <1>2
  <2> HIDE DEF few, rest
  <2>3. few \in Seq(T \cup {rest}) /\ rest \in T \cup {rest}
    BY <2>2
  <2>4. DOMAIN long = 1..(ListLimit + 1) /\ long[ListLimit + 1] = rest /\ \A k \in 1..ListLimit : long[k] = few[k]
    BY <1>0, <2>2, <2>3
  <2> HIDE DEF long
  <2>5. \A k \in 1..(ListLimit + 1) : k \in 1..ListLimit \/ k = ListLimit + 1
    BY <1>0
  <2>6. ASSUME NEW x \in Named(long, tag) PROVE x \in Named(lines, tag)
    <3>1. PICK k \in DOMAIN long : \E n \in long[k] : n[1] = tag /\ n[2] = x
      BY <2>6, NamedIs
    <3>2. k # ListLimit + 1
      <4> SUFFICES ASSUME k = ListLimit + 1 PROVE FALSE
        OBVIOUS
      <4>1. PICK n \in rest : n[1] = tag
        BY <2>4, <3>1
      <4> QED
        BY <4>1 DEF rest
    <3>3. k \in DOMAIN lines /\ long[k] = lines[k]
      BY <2>2, <2>4, <2>5, <3>2
    <3> QED
      BY <3>1, <3>3, NamedIs
  <2>7. L - ListLimit \in Named(long, "more")
    <3>1. ListLimit + 1 \in DOMAIN long /\ <<"more", L - ListLimit>> \in long[ListLimit + 1]
      BY <1>0, <2>4 DEF rest
    <3>2. <<"more", L - ListLimit>>[1] = "more" /\ <<"more", L - ListLimit>>[2] = L - ListLimit
      OBVIOUS
    <3> HIDE DEF L
    <3> QED
      BY <3>1, <3>2, NamedIs
  <2> QED
    BY <2>1, <2>6, <2>7
<1> QED
  BY <1>1, <1>2

-----------------------------------------------------------------------------
(***************************************************************************)
(* Every finding is its detector's own, and unproven.                      *)
(***************************************************************************)
FlagFields == {"detector", "what", "key", "evidence", "certainty", "unproven", "cause", "verdict"}
IsFlag(f, d) == DOMAIN f = FlagFields /\ f.detector = d /\ f.unproven

LEMMA FlagIs ==
    ASSUME NEW d, NEW what, NEW key, NEW lines, NEW certainty
    PROVE  /\ IsFlag(Flag(d, what, key, lines, certainty), d)
           /\ Flag(d, what, key, lines, certainty).what = what
           /\ Flag(d, what, key, lines, certainty).evidence = lines
           /\ Flag(d, what, key, lines, certainty).certainty = certainty
BY DEF Flag, IsFlag, FlagFields
LEMMA FlagOwn ==
    ASSUME NEW d, NEW what, NEW key, NEW lines, NEW certainty
    PROVE  IsFlag(Flag(d, what, key, lines, certainty), d)
BY FlagIs
LEMMA FlagHas ==
    ASSUME NEW d, NEW what, NEW key, NEW lines, NEW certainty
    PROVE  /\ Flag(d, what, key, lines, certainty).what = what
           /\ Flag(d, what, key, lines, certainty).evidence = lines
           /\ Flag(d, what, key, lines, certainty).certainty = certainty
BY DEF Flag

LEMMA GroupedFlags ==
    ASSUME NEW d, NEW what, NEW key, NEW tag, NEW certainty
    PROVE  /\ \A f \in Grouped(d, what, key, tag, certainty) : IsFlag(f, d)
           /\ \A f \in OneFlag(d, what, key, tag, certainty) : IsFlag(f, d)
BY FlagOwn, Zenon DEF Grouped, OneFlag

LEMMA BindingFlags ==
    ASSUME NEW d, NEW what, NEW found, NEW certainty
    PROVE  \A f \in ByBinding(d, what, found, certainty) : IsFlag(f, d)
BY FlagOwn, Zenon DEF ByBinding
LEMMA SemanticFlags ==
    ASSUME NEW what, NEW found
    PROVE  \A f \in BySemantic(what, found) : IsFlag(f, "shader-io-mismatch")
BY FlagOwn, Zenon DEF BySemantic

LEMMA CountingFlags ==
    ASSUME NEW d, NEW what, NEW count, NEW lines, NEW certainty
    PROVE  \A f \in Counting_(d, what, count, lines, certainty) : IsFlag(f, d)
BY FlagOwn, Zenon DEF Counting_

LEMMA FoundAre ==
    ASSUME NEW bundle, NEW structure
    PROVE  /\ Found(bundle, "debug-message", structure) = DetectMessages(bundle)
           /\ Found(bundle, "all-zero-constant-block", structure) = DetectZeroConstantBlocks(bundle)
           /\ Found(bundle, "unbound-root-parameter", structure) = DetectUnboundRootParameters(bundle)
           /\ Found(bundle, "unbound-table-slot", structure) = DetectUnboundTableSlots(bundle)
           /\ Found(bundle, "binding-kind-mismatch", structure) = DetectBindingKindMismatch(bundle)
           /\ Found(bundle, "shader-io-mismatch", structure) = DetectShaderIoMismatch(bundle)
           /\ Found(bundle, "dead-allocation", structure) = DetectDeadAllocations(bundle)
           /\ Found(bundle, "read-before-write", structure) = DetectReadBeforeWrite(bundle)
           /\ Found(bundle, "write-never-read", structure) = DetectWriteNeverRead(bundle)
           /\ Found(bundle, "load-instead-of-clear", structure) = DetectLoadInsteadOfClear(bundle)
           /\ Found(bundle, "dead-compute", structure) = DetectDeadCompute(bundle, structure)
           /\ Found(bundle, "mismatched-msaa", structure) = DetectMismatchedMsaa(bundle)
           /\ Found(bundle, "depth-logic", structure) = DetectDepthLogic(bundle)
           /\ Found(bundle, "empty-scissor", structure) = DetectEmptyScissor(bundle)
           /\ Found(bundle, "stencil-without-writer", structure) = DetectStencilWithoutWriter(bundle)
           /\ Found(bundle, "blend-in-opaque-pass", structure) = DetectBlendInOpaquePass(bundle)
           /\ Found(bundle, "format-units-suspicion", structure) = DetectFormatUnitsSuspicion(bundle)
           /\ Found(bundle, "geometry-offscreen", structure) = DetectGeometryOffscreen(bundle)
           /\ Found(bundle, "marker-imbalance", structure) = DetectMarkerBalance
           /\ Found(bundle, "unattributed-draws", structure) = DetectUnattributedDraws
           /\ Found(bundle, "zero-work", structure) = DetectZeroWork
           /\ Found(bundle, "srgb-view-mismatch", structure) = DetectSrgbViewMismatch
           /\ Found(bundle, "aliased-write", structure) = DetectAliasedWrites
BY DEF Found

LEMMA FoundFlags ==
    ASSUME NEW bundle, NEW structure, NEW d \in Detectors_, NEW f \in Found(bundle, d, structure)
    PROVE  IsFlag(f, d)
<1>1. CASE d = "debug-message"
  <2>1. f \in DetectMessages(bundle)
    BY <1>1, FoundAre
  <2>2. IsFlag(f, "debug-message")
    BY <2>1, FlagOwn, Zenon DEF DetectMessages
  <2> QED
    BY <1>1, <2>2
<1>2. CASE d = "all-zero-constant-block"
  <2>1. f \in DetectZeroConstantBlocks(bundle)
    BY <1>2, FoundAre
  <2>2. IsFlag(f, "all-zero-constant-block")
    BY <2>1, FlagOwn, Zenon DEF DetectZeroConstantBlocks
  <2> QED
    BY <1>2, <2>2
<1>3. CASE d = "unbound-root-parameter"
  <2>1. f \in DetectUnboundRootParameters(bundle)
    BY <1>3, FoundAre
  <2>2. IsFlag(f, "unbound-root-parameter")
    BY <2>1, BindingFlags DEF DetectUnboundRootParameters
  <2> QED
    BY <1>3, <2>2
<1>4. CASE d = "unbound-table-slot"
  <2>1. f \in DetectUnboundTableSlots(bundle)
    BY <1>4, FoundAre
  <2>2. IsFlag(f, "unbound-table-slot")
    BY <2>1, BindingFlags DEF DetectUnboundTableSlots
  <2> QED
    BY <1>4, <2>2
<1>5. CASE d = "binding-kind-mismatch"
  <2>1. f \in DetectBindingKindMismatch(bundle)
    BY <1>5, FoundAre
  <2>2. IsFlag(f, "binding-kind-mismatch")
    BY <2>1, BindingFlags DEF DetectBindingKindMismatch
  <2> QED
    BY <1>5, <2>2
<1>6. CASE d = "shader-io-mismatch"
  <2>1. f \in DetectShaderIoMismatch(bundle)
    BY <1>6, FoundAre
  <2>2. IsFlag(f, "shader-io-mismatch")
    BY <2>1, SemanticFlags DEF DetectShaderIoMismatch
  <2> QED
    BY <1>6, <2>2
<1>7. CASE d = "dead-allocation"
  <2>1. f \in DetectDeadAllocations(bundle)
    BY <1>7, FoundAre
  <2>2. IsFlag(f, "dead-allocation")
    BY <2>1, FlagOwn, Zenon DEF DetectDeadAllocations
  <2> QED
    BY <1>7, <2>2
<1>8. CASE d = "read-before-write"
  <2>1. f \in DetectReadBeforeWrite(bundle)
    BY <1>8, FoundAre
  <2>2. IsFlag(f, "read-before-write")
    BY <2>1, GroupedFlags DEF DetectReadBeforeWrite
  <2> QED
    BY <1>8, <2>2
<1>9. CASE d = "write-never-read"
  <2>1. f \in DetectWriteNeverRead(bundle)
    BY <1>9, FoundAre
  <2>2. IsFlag(f, "write-never-read")
    BY <2>1, GroupedFlags DEF DetectWriteNeverRead
  <2> QED
    BY <1>9, <2>2
<1>10. CASE d = "load-instead-of-clear"
  <2>1. f \in DetectLoadInsteadOfClear(bundle)
    BY <1>10, FoundAre
  <2>2. IsFlag(f, "load-instead-of-clear")
    BY <2>1, GroupedFlags DEF DetectLoadInsteadOfClear
  <2> QED
    BY <1>10, <2>2
<1>11. CASE d = "dead-compute"
  <2>1. f \in DetectDeadCompute(bundle, structure)
    BY <1>11, FoundAre
  <2>2. IsFlag(f, "dead-compute")
    BY <2>1, FlagOwn, Zenon DEF DetectDeadCompute
  <2> QED
    BY <1>11, <2>2
<1>12. CASE d = "mismatched-msaa"
  <2>1. f \in DetectMismatchedMsaa(bundle)
    BY <1>12, FoundAre
  <2>2. IsFlag(f, "mismatched-msaa")
    BY <2>1, GroupedFlags DEF DetectMismatchedMsaa
  <2> QED
    BY <1>12, <2>2
<1>13. CASE d = "depth-logic"
  <2>1. f \in DetectDepthLogic(bundle)
    BY <1>13, FoundAre
  <2>2. IsFlag(f, "depth-logic")
    BY <2>1, GroupedFlags DEF DetectDepthLogic
  <2> QED
    BY <1>13, <2>2
<1>14. CASE d = "empty-scissor"
  <2>1. f \in DetectEmptyScissor(bundle)
    BY <1>14, FoundAre
  <2>2. IsFlag(f, "empty-scissor")
    BY <2>1, GroupedFlags DEF DetectEmptyScissor
  <2> QED
    BY <1>14, <2>2
<1>15. CASE d = "stencil-without-writer"
  <2>1. f \in DetectStencilWithoutWriter(bundle)
    BY <1>15, FoundAre
  <2>2. IsFlag(f, "stencil-without-writer")
    BY <2>1, GroupedFlags DEF DetectStencilWithoutWriter
  <2> QED
    BY <1>15, <2>2
<1>16. CASE d = "blend-in-opaque-pass"
  <2>1. f \in DetectBlendInOpaquePass(bundle)
    BY <1>16, FoundAre
  <2>2. IsFlag(f, "blend-in-opaque-pass")
    BY <2>1, GroupedFlags DEF DetectBlendInOpaquePass
  <2> QED
    BY <1>16, <2>2
<1>17. CASE d = "format-units-suspicion"
  <2>1. f \in DetectFormatUnitsSuspicion(bundle)
    BY <1>17, FoundAre
  <2>2. IsFlag(f, "format-units-suspicion")
    BY <2>1, GroupedFlags DEF DetectFormatUnitsSuspicion
  <2> QED
    BY <1>17, <2>2
<1>18. CASE d = "geometry-offscreen"
  <2>1. f \in DetectGeometryOffscreen(bundle)
    BY <1>18, FoundAre
  <2>2. IsFlag(f, "geometry-offscreen")
    BY <2>1, GroupedFlags DEF DetectGeometryOffscreen, OffscreenFlags
  <2> QED
    BY <1>18, <2>2
<1>19. CASE d = "marker-imbalance"
  <2>1. f \in DetectMarkerBalance
    BY <1>19, FoundAre
  <2>2. IsFlag(f, "marker-imbalance")
    BY <2>1, CountingFlags, Zenon DEF DetectMarkerBalance
  <2> QED
    BY <1>19, <2>2
<1>20. CASE d = "unattributed-draws"
  <2>1. f \in DetectUnattributedDraws
    BY <1>20, FoundAre
  <2>2. IsFlag(f, "unattributed-draws")
    BY <2>1, CountingFlags, Zenon DEF DetectUnattributedDraws
  <2> QED
    BY <1>20, <2>2
<1>21. CASE d = "zero-work"
  <2>1. f \in DetectZeroWork
    BY <1>21, FoundAre
  <2>2. IsFlag(f, "zero-work")
    BY <2>1, FlagOwn, Zenon DEF DetectZeroWork
  <2> QED
    BY <1>21, <2>2
<1>22. CASE d = "srgb-view-mismatch"
  <2>1. f \in DetectSrgbViewMismatch
    BY <1>22, FoundAre
  <2>2. IsFlag(f, "srgb-view-mismatch")
    BY <2>1, CountingFlags, Zenon DEF DetectSrgbViewMismatch
  <2> QED
    BY <1>22, <2>2
<1>23. CASE d = "aliased-write"
  <2>1. f \in DetectAliasedWrites
    BY <1>23, FoundAre
  <2>2. IsFlag(f, "aliased-write")
    BY <2>1, CountingFlags, Zenon DEF DetectAliasedWrites
  <2> QED
    BY <1>23, <2>2
<1> QED
  BY <1>1, <1>2, <1>3, <1>4, <1>5, <1>6, <1>7, <1>8, <1>9, <1>10, <1>11, <1>12, <1>13, <1>14, <1>15, <1>16, <1>17, <1>18, <1>19, <1>20, <1>21, <1>22, <1>23 DEF Detectors_, UsageRules, StateRules, TableRules, StreamRules, AlwaysRules

-----------------------------------------------------------------------------
(***************************************************************************)
(* What a report says of a finding later leaves what it names as it was.   *)
(***************************************************************************)
LEMMA ListedIs ==
    ASSUME NEW T, NEW lines \in Seq(T)
    PROVE  Listed(lines) \in Seq(T \cup {{<<"more", Len(lines) - ListLimit>>}})
<1> DEFINE rest == {<<"more", Len(lines) - ListLimit>>}
<1>1. Len(lines) \in Nat /\ ListLimit \in Nat /\ ListLimit >= 1
  BY DetectorsAssumption
<1> HIDE DEF rest
<1>2. lines \in Seq(T \cup {rest})
  OBVIOUS
<1>3. CASE Len(lines) <= ListLimit
  BY <1>2, <1>3 DEF Listed, rest
<1>4. CASE ~(Len(lines) <= ListLimit)
  <2>1. SubSeq(lines, 1, ListLimit) \in Seq(T \cup {rest})
    BY <1>1, <1>2, <1>4
  <2>2. Append(SubSeq(lines, 1, ListLimit), rest) \in Seq(T \cup {rest})
    BY <2>1
  <2> QED
    BY <1>4, <2>2 DEF Listed, rest
<1> QED
  BY <1>3, <1>4 DEF rest

\* One finding per group: its lines are some of the group, and say so when they are not all of it.
IsGroup(f, d, what, S, tag, certainty) ==
    /\ IsFlag(f, d) /\ f.what = what /\ f.certainty = certainty
    /\ f.evidence \in Seq(Range(f.evidence))
    /\ Named(f.evidence, tag) \subseteq S
    /\ \A t : t \notin {tag, "more"} => Named(f.evidence, t) = {}
    /\ Named(f.evidence, tag) = S \/ Named(f.evidence, "more") # {}

LEMMA OneGroup ==
    ASSUME NEW d, NEW what, NEW k, NEW S \in SUBSET Nat, IsFiniteSet(S), NEW tag, tag # "more", NEW certainty
    PROVE  IsGroup(Flag(d, what, k, Listed(LinesOf(tag, S)), certainty), d, what, S, tag, certainty)
<1> DEFINE lines == LinesOf(tag, S)
           f == Flag(d, what, k, Listed(lines), certainty)
           T == {{<<tag, x>>} : x \in S}
           more == T \cup {{<<"more", Len(lines) - ListLimit>>}}
<1>1. IsFlag(f, d) /\ f.what = what /\ f.evidence = Listed(lines) /\ f.certainty = certainty
  BY FlagIs
<1>2. lines \in Seq(T)
  BY LinesAre
<1>3. Named(lines, tag) = S /\ \A t : t # tag => Named(lines, t) = {}
  BY LinesName
<1> HIDE DEF T, lines, f
<1>4. Listed(lines) \in Seq(more)
  BY <1>2, ListedIs
<1>5. \A t : t # "more" => Named(Listed(lines), t) \subseteq Named(lines, t)
  BY <1>2, ListedName
<1>6. Named(Listed(lines), tag) = Named(lines, tag) \/ Named(Listed(lines), "more") # {}
  BY <1>2, ListedName
<1> HIDE DEF more
<1>7. Listed(lines) \in Seq(Range(Listed(lines)))
  BY <1>4 DEF Range
<1>8. \A t : t \notin {tag, "more"} => Named(f.evidence, t) = {}
  BY <1>1, <1>3, <1>5
<1> QED
  BY <1>1, <1>3, <1>5, <1>6, <1>7, <1>8 DEF IsGroup, f, lines

LEMMA GroupsAre ==
    ASSUME NEW d, NEW what, NEW key, DOMAIN key \in SUBSET Nat, IsFiniteSet(DOMAIN key), NEW tag, tag # "more",
           NEW certainty
    PROVE  /\ \A f \in Grouped(d, what, key, tag, certainty) :
                 \E S \in SUBSET DOMAIN key : IsGroup(f, d, what, S, tag, certainty)
           /\ \A x \in DOMAIN key : \E f \in Grouped(d, what, key, tag, certainty) :
                 \E S \in SUBSET DOMAIN key : x \in S /\ IsGroup(f, d, what, S, tag, certainty)
<1> DEFINE In(k) == {x \in DOMAIN key : key[x] = k}
           made(k) == Flag(d, what, k, Listed(LinesOf(tag, In(k))), certainty)
           G == Grouped(d, what, key, tag, certainty)
<1>1. G = {made(k) : k \in Range(key)}
  BY DEF Grouped
<1>2. ASSUME NEW k PROVE In(k) \in SUBSET DOMAIN key /\ IsGroup(made(k), d, what, In(k), tag, certainty)
  <2>1. In(k) \in SUBSET DOMAIN key /\ In(k) \in SUBSET Nat /\ IsFiniteSet(In(k))
    BY FS_Subset
  <2> HIDE DEF In
  <2> QED
    BY <2>1, OneGroup
<1>3. \A x \in DOMAIN key : x \in In(key[x]) /\ key[x] \in Range(key)
  BY DEF Range
<1> HIDE DEF G, In, made
<1>4. ASSUME NEW f \in G PROVE \E S \in SUBSET DOMAIN key : IsGroup(f, d, what, S, tag, certainty)
  BY <1>1, <1>2
<1>5. ASSUME NEW x \in DOMAIN key
      PROVE  \E f \in G : \E S \in SUBSET DOMAIN key : x \in S /\ IsGroup(f, d, what, S, tag, certainty)
  <2>1. made(key[x]) \in G
    BY <1>1, <1>3
  <2>2. x \in In(key[x]) /\ In(key[x]) \in SUBSET DOMAIN key /\ IsGroup(made(key[x]), d, what, In(key[x]), tag, certainty)
    BY <1>2, <1>3
  <2> QED
    BY <2>1, <2>2
<1> QED
  BY <1>4, <1>5 DEF G

LEMMA OneFlagIs ==
    ASSUME NEW d, NEW what, NEW S \in SUBSET Nat, IsFiniteSet(S), NEW tag, tag # "more", NEW certainty,
           NEW f \in OneFlag(d, what, S, tag, certainty)
    PROVE  \E U \in SUBSET S : IsGroup(f, d, what, U, tag, certainty)
<1> DEFINE key == [x \in S |-> <<>>]
<1>1. DOMAIN key = S /\ OneFlag(d, what, S, tag, certainty) = Grouped(d, what, key, tag, certainty)
  BY DEF OneFlag
<1> HIDE DEF key
<1> QED
  BY <1>1, GroupsAre

-----------------------------------------------------------------------------
(***************************************************************************)
(* The usage rules, each by the rows it reads.                             *)
(***************************************************************************)
RowsOf(bundle, r, usages) == {row[1] : row \in {row \in UsageRows(bundle, r) : row[2] \in usages}}

LEMMA UsageRowsAre ==
    ASSUME NEW bundle, NEW n \in Nat, DOMAIN bundle.events = 1..n, NEW r, NEW row \in UsageRows(bundle, r)
    PROVE  row[1] \in 0..(2 * n)
<1>1. CASE bundle.collected
  <2> DEFINE events == bundle.events
             early(i) == {u \in events[i].before : u[1] = r}
             late(i) == {u \in events[i].uses : u[1] = r}
  <2>1. UsageRows(bundle, r) = UNION {{<<EventId(i) - 1, u[2]>> : u \in early(i)}
                                         \cup {<<EventId(i), u[2]>> : u \in late(i)} : i \in DOMAIN events}
    BY <1>1 DEF UsageRows
  <2>2. PICK i \in 1..n : row \in {<<EventId(i) - 1, u[2]>> : u \in early(i)} \cup {<<EventId(i), u[2]>> : u \in late(i)}
    BY <2>1
  <2> HIDE DEF early, late
  <2>3. row[1] = EventId(i) - 1 \/ row[1] = EventId(i)
    BY <2>2
  <2> QED
    BY <2>3 DEF EventId
<1>2. CASE ~bundle.collected
  BY <1>2 DEF UsageRows
<1> QED
  BY <1>1, <1>2

LEMMA ChainIs ==
    ASSUME NEW bundle, NEW n \in Nat, DOMAIN bundle.events = 1..n, NEW r, NEW usages
    PROVE  /\ At_As(UsageChain(bundle, r), usages) = RowsOf(bundle, r, usages)
           /\ RowsOf(bundle, r, usages) \in SUBSET (0..(2 * n))
<1> DEFINE rows == UsageRows(bundle, r)
           chain == UsageChain(bundle, r)
           at(e) == {row[2] : row \in {row \in rows : row[1] = e}}
<1>1. DOMAIN chain = {row[1] : row \in rows} /\ \A e \in DOMAIN chain : chain[e] = at(e)
  BY DEF UsageChain
<1>2. \A row \in rows : row[1] \in 0..(2 * n)
  BY UsageRowsAre
<1> HIDE DEF chain, rows
<1>3. ASSUME NEW e \in At_As(chain, usages) PROVE e \in RowsOf(bundle, r, usages)
  <2>1. PICK u : u \in at(e) /\ u \in usages
    BY <1>1, <1>3 DEF At_As
  <2>2. PICK row \in rows : row[1] = e /\ row[2] \in usages
    BY <2>1
  <2> QED
    BY <2>2 DEF RowsOf, rows
<1>4. ASSUME NEW e \in RowsOf(bundle, r, usages) PROVE e \in At_As(chain, usages)
  <2>1. PICK row \in rows : row[1] = e /\ row[2] \in usages
    BY <1>4 DEF RowsOf, rows
  <2>2. e \in DOMAIN chain /\ row[2] \in at(e)
    BY <1>1, <2>1
  <2> HIDE DEF at
  <2> QED
    BY <1>1, <2>1, <2>2 DEF At_As
<1>5. RowsOf(bundle, r, usages) \in SUBSET (0..(2 * n))
  BY <1>2 DEF RowsOf, rows
<1> QED
  BY <1>3, <1>4, <1>5 DEF chain

ReadFirst(bundle) ==
    {r \in UsageJudged(bundle) : /\ RowsOf(bundle, r, UsageReads) # {}
                                 /\ \A w \in RowsOf(bundle, r, UsageWrites) : w > Min(RowsOf(bundle, r, UsageReads))}
WrittenLast(bundle) ==
    {r \in UsageJudged(bundle) : /\ RowsOf(bundle, r, UsageWrites) # {}
                                 /\ \A e \in RowsOf(bundle, r, UsageReads) : e <= Max(RowsOf(bundle, r, UsageWrites))}
TargetFirst(bundle) ==
    {r \in UsageJudged(bundle) : /\ RowsOf(bundle, r, UsageTargets) # {}
                                 /\ \A w \in RowsOf(bundle, r, UsageWrites) : w >= Min(RowsOf(bundle, r, UsageTargets))}
DeadAfter(bundle, entry) ==
    {r \in UsageJudged(bundle) :
        /\ \E e \in RowsOf(bundle, r, {"CS_RWResource"}) : EventId(entry.first) <= e /\ e <= EventId(entry.last)
        /\ \A e \in RowsOf(bundle, r, UsageReads) : e <= EventId(entry.last)}
Untouched(bundle) ==
    {r \in DOMAIN Inventory : /\ Inventory[r].kind \in {"texture", "buffer"}
                              /\ \A row \in UsageRows(bundle, r) : row[2] = "Unused"}

LEMMA JudgedIs ==
    ASSUME NEW bundle, NEW S \in SUBSET UsageJudged(bundle)
    PROVE  S \in SUBSET Nat /\ IsFiniteSet(S)
<1>1. S \in SUBSET DOMAIN Inventory
  BY DEF UsageJudged
<1> QED
  BY <1>1, DetectorsAssumption, FS_Subset

LEMMA ReadsAreGrouped ==
    ASSUME NEW bundle, NEW n \in Nat, DOMAIN bundle.events = 1..n
    PROVE  \E key : /\ DOMAIN key = ReadFirst(bundle)
                    /\ DetectReadBeforeWrite(bundle) =
                         Grouped("read-before-write", "first use is a read", key, "res", "question")
<1> DEFINE J == UsageJudged(bundle)
           chain == [r \in J |-> UsageChain(bundle, r)]
           reads(r) == At_As(chain[r], UsageReads)
           found == {r \in DOMAIN chain : reads(r) # {} /\ \A w \in At_As(chain[r], UsageWrites) : w > Min(reads(r))}
           key == [r \in found |-> <<Inventory[r].kind, chain[r][Min(reads(r))] \cap UsageReads>>]
<1>1. DetectReadBeforeWrite(bundle) = Grouped("read-before-write", "first use is a read", key, "res", "question")
  BY DEF DetectReadBeforeWrite
<1>2. DOMAIN key = found /\ DOMAIN chain = J
  OBVIOUS
<1>3. \A r \in J : \A usages : At_As(chain[r], usages) = RowsOf(bundle, r, usages)
  BY ChainIs
<1> HIDE DEF chain, J, key
<1>4. found = ReadFirst(bundle)
  BY <1>2, <1>3 DEF ReadFirst, J
<1> QED
  BY <1>1, <1>2, <1>4

LEMMA WritesAreGrouped ==
    ASSUME NEW bundle, NEW n \in Nat, DOMAIN bundle.events = 1..n
    PROVE  \E key : /\ DOMAIN key = WrittenLast(bundle)
                    /\ DetectWriteNeverRead(bundle) = Grouped("write-never-read", "last write", key, "res", "question")
<1> DEFINE J == UsageJudged(bundle)
           chain == [r \in J |-> UsageChain(bundle, r)]
           writes(r) == At_As(chain[r], UsageWrites)
           found == {r \in DOMAIN chain : writes(r) # {} /\ \A e \in At_As(chain[r], UsageReads) : e <= Max(writes(r))}
           key == [r \in found |-> chain[r][Max(writes(r))] \cap UsageWrites]
<1>1. DetectWriteNeverRead(bundle) = Grouped("write-never-read", "last write", key, "res", "question")
  BY DEF DetectWriteNeverRead
<1>2. DOMAIN key = found /\ DOMAIN chain = J
  OBVIOUS
<1>3. \A r \in J : \A usages : At_As(chain[r], usages) = RowsOf(bundle, r, usages)
  BY ChainIs
<1> HIDE DEF chain, J, key
<1>4. found = WrittenLast(bundle)
  BY <1>2, <1>3 DEF WrittenLast, J
<1> QED
  BY <1>1, <1>2, <1>4

LEMMA TargetsAreGrouped ==
    ASSUME NEW bundle, NEW n \in Nat, DOMAIN bundle.events = 1..n
    PROVE  \E key : /\ DOMAIN key = TargetFirst(bundle)
                    /\ DetectLoadInsteadOfClear(bundle) =
                         Grouped("load-instead-of-clear", "first target use", key, "res", "question")
<1> DEFINE J == UsageJudged(bundle)
           chain == [r \in J |-> UsageChain(bundle, r)]
           targets(r) == At_As(chain[r], UsageTargets)
           found == {r \in DOMAIN chain : targets(r) # {} /\ \A w \in At_As(chain[r], UsageWrites) : w >= Min(targets(r))}
           key == [r \in found |-> r]
<1>1. DetectLoadInsteadOfClear(bundle) = Grouped("load-instead-of-clear", "first target use", key, "res", "question")
  BY DEF DetectLoadInsteadOfClear
<1>2. DOMAIN key = found /\ DOMAIN chain = J
  OBVIOUS
<1>3. \A r \in J : \A usages : At_As(chain[r], usages) = RowsOf(bundle, r, usages)
  BY ChainIs
<1> HIDE DEF chain, J, key
<1>4. found = TargetFirst(bundle)
  BY <1>2, <1>3 DEF TargetFirst, J
<1> QED
  BY <1>1, <1>2, <1>4

LEMMA DeadAreGrouped ==
    ASSUME NEW bundle, NEW n \in Nat, DOMAIN bundle.events = 1..n, NEW structure
    PROVE  DetectDeadCompute(bundle, structure) =
             {Flag("dead-compute", "nothing after reads", p, Listed(LinesOf("res", DeadAfter(bundle, structure[p]))), "question") :
                 p \in {p \in DOMAIN structure : structure[p].kind = "compute" /\ DeadAfter(bundle, structure[p]) # {}}}
<1> DEFINE J == UsageJudged(bundle)
           chain == [r \in J |-> UsageChain(bundle, r)]
           dead(p) == {r \in DOMAIN chain :
                        /\ \E e \in At_As(chain[r], {"CS_RWResource"}) : EventId(structure[p].first) <= e /\ e <= EventId(structure[p].last)
                        /\ \A e \in At_As(chain[r], UsageReads) : e <= EventId(structure[p].last)}
<1>1. DetectDeadCompute(bundle, structure) =
        {Flag("dead-compute", "nothing after reads", p, Listed(LinesOf("res", dead(p))), "question") :
            p \in {p \in DOMAIN structure : structure[p].kind = "compute" /\ dead(p) # {}}}
  BY DEF DetectDeadCompute
<1>2. DOMAIN chain = J
  OBVIOUS
<1>3. \A r \in J : \A usages : At_As(chain[r], usages) = RowsOf(bundle, r, usages)
  BY ChainIs
<1> HIDE DEF chain, J
<1>4. ASSUME NEW p PROVE dead(p) = DeadAfter(bundle, structure[p])
  BY <1>2, <1>3 DEF DeadAfter, J
<1> HIDE DEF dead
<1> QED
  BY <1>1, <1>4

\* What the findings of a set name.
NamedBy(F, tag) == UNION {Named(f.evidence, tag) : f \in F}

LEMMA GroupsName ==
    ASSUME NEW d, NEW what, NEW key, DOMAIN key \in SUBSET Nat, IsFiniteSet(DOMAIN key), NEW tag, tag # "more",
           NEW certainty
    PROVE  /\ NamedBy(Grouped(d, what, key, tag, certainty), tag) \subseteq DOMAIN key
           /\ \A x \in DOMAIN key : \/ x \in NamedBy(Grouped(d, what, key, tag, certainty), tag)
                                    \/ NamedBy(Grouped(d, what, key, tag, certainty), "more") # {}
<1> DEFINE G == Grouped(d, what, key, tag, certainty)
<1>1. \A f \in G : \E S \in SUBSET DOMAIN key : IsGroup(f, d, what, S, tag, certainty)
  BY GroupsAre
<1>2. \A x \in DOMAIN key : \E f \in G : \E S \in SUBSET DOMAIN key : x \in S /\ IsGroup(f, d, what, S, tag, certainty)
  BY GroupsAre
<1> HIDE DEF G
<1>3. ASSUME NEW f \in G PROVE Named(f.evidence, tag) \subseteq DOMAIN key
  <2>1. PICK S \in SUBSET DOMAIN key : IsGroup(f, d, what, S, tag, certainty)
    BY <1>1
  <2> QED
    BY <2>1 DEF IsGroup
<1>4. ASSUME NEW x \in DOMAIN key PROVE x \in NamedBy(G, tag) \/ NamedBy(G, "more") # {}
  <2>1. PICK f \in G : \E S \in SUBSET DOMAIN key : x \in S /\ IsGroup(f, d, what, S, tag, certainty)
    BY <1>2
  <2>2. PICK S \in SUBSET DOMAIN key : x \in S /\ IsGroup(f, d, what, S, tag, certainty)
    BY <2>1
  <2>3. x \in Named(f.evidence, tag) \/ Named(f.evidence, "more") # {}
    BY <2>2 DEF IsGroup
  <2> QED
    BY <2>3 DEF NamedBy
<1> QED
  BY <1>3, <1>4 DEF NamedBy, G

LEMMA ReadsName ==
    ASSUME NEW bundle, NEW n \in Nat, DOMAIN bundle.events = 1..n
    PROVE  /\ NamedBy(DetectReadBeforeWrite(bundle), "res") \subseteq ReadFirst(bundle)
           /\ \A r \in ReadFirst(bundle) : \/ r \in NamedBy(DetectReadBeforeWrite(bundle), "res")
                                           \/ NamedBy(DetectReadBeforeWrite(bundle), "more") # {}
<1>1. PICK key : /\ DOMAIN key = ReadFirst(bundle)
                 /\ DetectReadBeforeWrite(bundle) = Grouped("read-before-write", "first use is a read", key, "res", "question")
  BY ReadsAreGrouped
<1>2. DOMAIN key \in SUBSET Nat /\ IsFiniteSet(DOMAIN key)
  <2>1. ReadFirst(bundle) \in SUBSET UsageJudged(bundle)
    BY DEF ReadFirst
  <2> QED
    BY <1>1, <2>1, JudgedIs
<1> QED
  BY <1>1, <1>2, GroupsName

LEMMA WritesName ==
    ASSUME NEW bundle, NEW n \in Nat, DOMAIN bundle.events = 1..n
    PROVE  /\ NamedBy(DetectWriteNeverRead(bundle), "res") \subseteq WrittenLast(bundle)
           /\ \A r \in WrittenLast(bundle) : \/ r \in NamedBy(DetectWriteNeverRead(bundle), "res")
                                             \/ NamedBy(DetectWriteNeverRead(bundle), "more") # {}
<1>1. PICK key : /\ DOMAIN key = WrittenLast(bundle)
                 /\ DetectWriteNeverRead(bundle) = Grouped("write-never-read", "last write", key, "res", "question")
  BY WritesAreGrouped
<1>2. DOMAIN key \in SUBSET Nat /\ IsFiniteSet(DOMAIN key)
  <2>1. WrittenLast(bundle) \in SUBSET UsageJudged(bundle)
    BY DEF WrittenLast
  <2> QED
    BY <1>1, <2>1, JudgedIs
<1> QED
  BY <1>1, <1>2, GroupsName

LEMMA TargetsName ==
    ASSUME NEW bundle, NEW n \in Nat, DOMAIN bundle.events = 1..n
    PROVE  NamedBy(DetectLoadInsteadOfClear(bundle), "res") \subseteq TargetFirst(bundle)
<1>1. PICK key : /\ DOMAIN key = TargetFirst(bundle)
                 /\ DetectLoadInsteadOfClear(bundle) = Grouped("load-instead-of-clear", "first target use", key, "res", "question")
  BY TargetsAreGrouped
<1>2. DOMAIN key \in SUBSET Nat /\ IsFiniteSet(DOMAIN key)
  <2>1. TargetFirst(bundle) \in SUBSET UsageJudged(bundle)
    BY DEF TargetFirst
  <2> QED
    BY <1>1, <2>1, JudgedIs
<1> QED
  BY <1>1, <1>2, GroupsName

LEMMA DeadName ==
    ASSUME NEW bundle, NEW n \in Nat, DOMAIN bundle.events = 1..n, NEW structure,
           NEW r \in NamedBy(DetectDeadCompute(bundle, structure), "res")
    PROVE  \E p \in DOMAIN structure : structure[p].kind = "compute" /\ r \in DeadAfter(bundle, structure[p])
<1> DEFINE D == DetectDeadCompute(bundle, structure)
           made(p) == Flag("dead-compute", "nothing after reads", p, Listed(LinesOf("res", DeadAfter(bundle, structure[p]))), "question")
<1>0. D = {made(p) : p \in {p \in DOMAIN structure : structure[p].kind = "compute" /\ DeadAfter(bundle, structure[p]) # {}}}
  BY DeadAreGrouped
<1>1. \A f \in D : \E p \in DOMAIN structure : structure[p].kind = "compute" /\ f = made(p)
  <2> HIDE DEF D, made
  <2> QED
    BY <1>0
<1>2. PICK f \in D : r \in Named(f.evidence, "res")
  BY DEF NamedBy
<1> HIDE DEF D
<1>3. PICK p \in DOMAIN structure : structure[p].kind = "compute" /\ f = made(p)
  BY <1>1
<1> DEFINE S == DeadAfter(bundle, structure[p])
<1>4. S \in SUBSET UsageJudged(bundle)
  BY DEF DeadAfter
<1>5. S \in SUBSET Nat /\ IsFiniteSet(S)
  BY <1>4, JudgedIs
<1>6. f = Flag("dead-compute", "nothing after reads", p, Listed(LinesOf("res", S)), "question")
  BY <1>3
<1> HIDE DEF S, made
<1>7. IsGroup(f, "dead-compute", "nothing after reads", S, "res", "question")
  BY <1>5, <1>6, OneGroup
<1>8. r \in S
  BY <1>2, <1>7 DEF IsGroup
<1> QED
  BY <1>3, <1>8 DEF S

LEMMA MinOfTwo ==
    ASSUME NEW a \in Nat, NEW b \in Nat
    PROVE  Min({a, b}) \in Nat /\ Min({a, b}) <= a /\ Min({a, b}) <= b /\ Min({a, b}) \in {a, b}
<1> DEFINE T == {a, b}
<1>1. T \in SUBSET Nat /\ T # {} /\ a \in T /\ b \in T
  OBVIOUS
<1> HIDE DEF T
<1>2. Min(T) \in T /\ \A y \in T : Min(T) <= y
  BY <1>1, NatMinIs
<1> QED
  BY <1>1, <1>2 DEF T

LEMMA AllocationsName ==
    ASSUME NEW bundle
    PROVE  NamedBy(DetectDeadAllocations(bundle), "res") \subseteq Untouched(bundle)
<1> DEFINE dead == Untouched(bundle)
           weight == [r \in dead |-> Inventory[r].bytes]
           largest == HeaviestFirst(weight)
           shown == Min({AllocationLimit, Len(largest)})
           one(i) == Flag("dead-allocation", "never used", largest[i], <<{<<"res", largest[i]>>}>>, "certain")
           rest == Flag("dead-allocation", "not listed", <<>>, <<{<<"unused", Len(largest)>>}>>, "certain")
           D == DetectDeadAllocations(bundle)
<1>1. D = {one(i) : i \in 1..shown} \cup (IF Len(largest) = shown THEN {} ELSE {rest})
  BY DEF DetectDeadAllocations, Untouched
<1>2. dead \in SUBSET DOMAIN Inventory
  BY DEF Untouched
<1>3. dead \in SUBSET Nat /\ IsFiniteSet(dead)
  BY <1>2, DetectorsAssumption, FS_Subset
<1>4. weight \in [dead -> Nat]
  BY <1>2, DetectorsAssumption
<1> HIDE DEF dead, weight
<1>5. largest \in Seq(dead)
  BY <1>3, <1>4, HeaviestIs
<1> HIDE DEF largest
<1>6. Len(largest) \in Nat /\ \A i \in 1..Len(largest) : largest[i] \in dead
  BY <1>5
<1>7. shown \in Nat /\ shown <= Len(largest)
  BY <1>6, DetectorsAssumption, MinOfTwo
<1> HIDE DEF shown
<1>8. \A i \in 1..shown : largest[i] \in dead
  BY <1>6, <1>7
<1>9. ASSUME NEW x, NEW y, x \in Named(<<{y}>>, "res") PROVE y[1] = "res" /\ x = y[2]
  <2> DEFINE lines == <<{y}>>
  <2>1. \A k \in DOMAIN lines : lines[k] = {y}
    OBVIOUS
  <2> HIDE DEF lines
  <2>2. x \in Named(lines, "res")
    BY <1>9 DEF lines
  <2>3. PICK k \in DOMAIN lines : \E m \in lines[k] : m[1] = "res" /\ m[2] = x
    BY <2>2, NamedIs
  <2> QED
    BY <2>1, <2>3
<1> HIDE DEF D, one, rest
<1>10. ASSUME NEW f \in D, NEW x \in Named(f.evidence, "res") PROVE x \in dead
  <2>1. CASE \E i \in 1..shown : f = one(i)
    <3>1. PICK i \in 1..shown : f = one(i)
      BY <2>1
    <3>2. f.evidence = <<{<<"res", largest[i]>>}>>
      BY <3>1 DEF one, Flag
    <3> DEFINE y == <<"res", largest[i]>>
    <3>3. x \in Named(<<{y}>>, "res")
      BY <1>10, <3>2
    <3> HIDE DEF y
    <3>4. x = y[2]
      BY <1>9, <3>3
    <3>5. x = largest[i]
      BY <3>4 DEF y
    <3> QED
      BY <1>8, <3>5
  <2>2. CASE f = rest
    <3>1. f.evidence = <<{<<"unused", Len(largest)>>}>>
      BY <2>2 DEF rest, Flag
    <3> DEFINE y == <<"unused", Len(largest)>>
    <3>2. x \in Named(<<{y}>>, "res")
      BY <1>10, <3>1
    <3> HIDE DEF y
    <3>3. y[1] = "res"
      BY <1>9, <3>2
    <3> QED
      BY <3>3 DEF y
  <2> QED
    BY <1>1, <2>1, <2>2
<1> QED
  BY <1>10 DEF NamedBy, D, dead

-----------------------------------------------------------------------------
(***************************************************************************)
(* From what the detectors found to what the document says.                *)
(***************************************************************************)
\* The same finding, whatever was learnt of it since.
Follows(g, f) ==
    /\ DOMAIN g = FlagFields /\ g.detector = f.detector /\ g.what = f.what /\ g.certainty = f.certainty /\ g.key = f.key
    /\ f.detector # "read-before-write" => g.evidence = f.evidence
    /\ \A t : t # "provenance" => Named(g.evidence, t) = Named(f.evidence, t)

LEMMA FollowsOn ==
    ASSUME NEW f, NEW g, NEW h, Follows(g, f), Follows(h, g)
    PROVE  Follows(h, f)
BY DEF Follows

LEMMA FollowsItself == ASSUME NEW f, NEW d, IsFlag(f, d) PROVE Follows(f, f)
BY DEF Follows, IsFlag

Questioned(f) == {r \in Used : Reads(r) # {} /\ \E k \in DOMAIN f.evidence : <<"res", r>> \in f.evidence[k]}
VerdictOn(r) == {<<"res", r>>, <<"provenance", WalkProvenance(r, Min(Eids(Reads(r))))[1]>>}
Verdicts(f) == [k \in 1..Cardinality(Questioned(f)) |-> VerdictOn(InOrder(Questioned(f))[k])]
Extended(f) == [f EXCEPT !.evidence = @ \o Verdicts(f)]
Explained(f) == IF f.detector = "read-before-write" THEN Extended(f) ELSE f

LEMMA ProvenanceDef ==
    ASSUME NEW bundle, NEW flags
    PROVE  AddProvenanceVerdicts(bundle, flags) =
             IF bundle.path # "read" \/ ~bundle.map THEN flags ELSE {Explained(f) : f \in flags}
BY DEF AddProvenanceVerdicts, Explained, Extended, Verdicts, VerdictOn, Questioned

LEMMA NamedOn ==
    ASSUME NEW S, NEW a \in Seq(S), NEW b \in Seq(S), NEW t
    PROVE  Named(a \o b, t) = Named(a, t) \cup Named(b, t)
<1>1. Range(a \o b) = Range(a) \cup Range(b)
  BY RangeOfConcat
<1> QED
  BY <1>1 DEF Named

LEMMA ExtendedIs ==
    ASSUME NEW f, IsFlag(f, "read-before-write"), f.evidence \in Seq(Range(f.evidence)),
           Named(f.evidence, "res") \in SUBSET Nat, IsFiniteSet(Named(f.evidence, "res"))
    PROVE  IsFlag(Extended(f), "read-before-write") /\ Follows(Extended(f), f)
<1> DEFINE A == Questioned(f)
           V == Verdicts(f)
           e == f.evidence
           g == Extended(f)
<1>1. A \subseteq Named(e, "res")
  <2> SUFFICES ASSUME NEW r \in A PROVE r \in Named(e, "res")
    OBVIOUS
  <2>1. PICK k \in DOMAIN e : <<"res", r>> \in e[k]
    BY DEF Questioned
  <2>2. <<"res", r>>[1] = "res" /\ <<"res", r>>[2] = r
    OBVIOUS
  <2> QED
    BY <2>1, <2>2, NamedIs
<1>2. A \in SUBSET Nat /\ IsFiniteSet(A)
  BY <1>1, FS_Subset
<1> HIDE DEF A
<1>3. InOrder(A) \in Seq(A) /\ Len(InOrder(A)) = Cardinality(A) /\ Cardinality(A) \in Nat
  BY <1>2, InOrderIs, FS_CardinalityType
<1>4. DOMAIN V = 1..Cardinality(A) /\ \A k \in 1..Cardinality(A) : \E r \in A : V[k] = VerdictOn(r)
  <2>1. V = [k \in 1..Cardinality(A) |-> VerdictOn(InOrder(A)[k])]
    BY DEF Verdicts, A
  <2>2. \A k \in 1..Cardinality(A) : InOrder(A)[k] \in A
    BY <1>3
  <2> QED
    BY <2>1, <2>2
<1>5. V = [k \in 1..Cardinality(A) |-> V[k]]
  BY DEF Verdicts, A
<1> HIDE DEF V
<1>6. V \in Seq(Range(V))
  <2>1. \A k \in 1..Cardinality(A) : V[k] \in Range(V)
    BY <1>4 DEF Range
  <2> DEFINE c == Cardinality(A)
             R == Range(V)
  <2>2. c \in Nat /\ V = [k \in 1..c |-> V[k]] /\ \A k \in 1..c : V[k] \in R
    BY <1>3, <1>5, <2>1
  <2> HIDE DEF c, R
  <2>3. V \in [1..c -> R]
    BY <2>2
  <2>4. V \in Seq(R)
    BY <2>2, <2>3
  <2> QED
    BY <2>4 DEF R
<1>7. ASSUME NEW t, t # "provenance", NEW x \in Named(V, t) PROVE x \in Named(e, t)
  <2>1. PICK k \in DOMAIN V : \E m \in V[k] : m[1] = t /\ m[2] = x
    BY <1>7, NamedIs
  <2>2. PICK r \in A : V[k] = VerdictOn(r)
    BY <1>4
  <2>3. PICK m \in VerdictOn(r) : m[1] = t /\ m[2] = x
    BY <2>1, <2>2
  <2>4. m = <<"res", r>>
    <3>1. m = <<"res", r>> \/ m[1] = "provenance"
      BY <2>3 DEF VerdictOn
    <3> QED
      BY <1>7, <2>3, <3>1
  <2>5. t = "res" /\ x = r
    BY <2>3, <2>4
  <2> QED
    BY <1>1, <2>5
<1> DEFINE S == Range(e) \cup Range(V)
<1>8. e \in Seq(S) /\ V \in Seq(S)
  <2>1. e \in Seq(Range(e)) /\ V \in Seq(Range(V))
    BY <1>6
  <2> HIDE DEF e
  <2> DEFINE X == Range(e)
             Y == Range(V)
  <2> HIDE DEF X, Y
  <2>2. e \in Seq(X \cup Y) /\ V \in Seq(X \cup Y)
    BY <2>1 DEF X, Y
  <2> QED
    BY <2>2 DEF X, Y
<1>9. \A t : t # "provenance" => Named(e \o V, t) = Named(e, t)
  <2> HIDE DEF S, e
  <2>1. \A t : Named(e \o V, t) = Named(e, t) \cup Named(V, t)
    BY <1>8, NamedOn
  <2> QED
    BY <1>7, <2>1
<1>10. DOMAIN g = FlagFields /\ g.detector = f.detector /\ g.what = f.what /\ g.certainty = f.certainty /\ g.key = f.key
       /\ g.evidence = e \o V
  BY DEF Extended, IsFlag, FlagFields, V
<1>11. g.unproven
  BY DEF Extended, IsFlag, FlagFields
<1>12. f.detector = "read-before-write"
  BY DEF IsFlag
<1> HIDE DEF g
<1>13. Follows(g, f)
  BY <1>9, <1>10, <1>12 DEF Follows
<1>14. IsFlag(g, "read-before-write")
  BY <1>10, <1>11, <1>12 DEF IsFlag
<1> QED
  BY <1>13, <1>14 DEF g

LEMMA ReadsHold ==
    ASSUME NEW bundle, NEW n \in Nat, DOMAIN bundle.events = 1..n, NEW f \in DetectReadBeforeWrite(bundle)
    PROVE  /\ f.evidence \in Seq(Range(f.evidence))
           /\ Named(f.evidence, "res") \in SUBSET Nat /\ IsFiniteSet(Named(f.evidence, "res"))
<1> DEFINE D == DetectReadBeforeWrite(bundle)
<1>1. PICK key : /\ DOMAIN key = ReadFirst(bundle)
                 /\ D = Grouped("read-before-write", "first use is a read", key, "res", "question")
  BY ReadsAreGrouped
<1>2. DOMAIN key \in SUBSET Nat /\ IsFiniteSet(DOMAIN key)
  <2>1. ReadFirst(bundle) \in SUBSET UsageJudged(bundle)
    BY DEF ReadFirst
  <2> QED
    BY <1>1, <2>1, JudgedIs
<1>3. f \in D
  OBVIOUS
<1> HIDE DEF D
<1>4. PICK S \in SUBSET DOMAIN key : IsGroup(f, "read-before-write", "first use is a read", S, "res", "question")
  BY <1>1, <1>2, <1>3, GroupsAre
<1>5. f.evidence \in Seq(Range(f.evidence)) /\ Named(f.evidence, "res") \subseteq S
  BY <1>4 DEF IsGroup
<1>6. Named(f.evidence, "res") \in SUBSET DOMAIN key
  BY <1>5
<1> QED
  BY <1>2, <1>5, <1>6, FS_Subset

Ran(bundle) == {d \in Detectors_ : WhyNot(bundle, d) = ""}
\* Flags that are the findings of the detectors that ran, one for one.
Carries(flags, bundle, structure) ==
    /\ \A g \in flags : \E d \in Ran(bundle) : \E f \in Found(bundle, d, structure) : g.detector = d /\ Follows(g, f)
    /\ \A d \in Ran(bundle) : \A f \in Found(bundle, d, structure) : \E g \in flags : g.detector = d /\ Follows(g, f)
AreFlags(flags) == \A g \in flags : IsFlag(g, g.detector)

LEMMA ExplainedIs ==
    ASSUME NEW bundle, NEW n \in Nat, DOMAIN bundle.events = 1..n, NEW structure, NEW d \in Detectors_,
           NEW f \in Found(bundle, d, structure)
    PROVE  IsFlag(Explained(f), d) /\ Follows(Explained(f), f)
<1>1. IsFlag(f, d)
  BY FoundFlags
<1>2. f.detector = d
  BY <1>1 DEF IsFlag
<1>3. CASE d = "read-before-write"
  <2>1. f \in DetectReadBeforeWrite(bundle)
    BY <1>3, FoundAre
  <2>2. /\ f.evidence \in Seq(Range(f.evidence))
        /\ Named(f.evidence, "res") \in SUBSET Nat /\ IsFiniteSet(Named(f.evidence, "res"))
    BY <2>1, ReadsHold
  <2>3. IsFlag(f, "read-before-write")
    BY <1>1, <1>3
  <2>4. IsFlag(Extended(f), "read-before-write") /\ Follows(Extended(f), f)
    BY <2>2, <2>3, ExtendedIs
  <2>5. Explained(f) = Extended(f)
    BY <1>2, <1>3 DEF Explained
  <2> QED
    BY <1>3, <2>4, <2>5
<1>4. CASE d # "read-before-write"
  <2>1. Explained(f) = f
    BY <1>2, <1>4 DEF Explained
  <2>2. Follows(f, f)
    BY <1>1, FollowsItself
  <2> QED
    BY <1>1, <2>1, <2>2
<1> QED
  BY <1>3, <1>4

LEMMA AllCarries ==
    ASSUME NEW bundle, NEW n \in Nat, DOMAIN bundle.events = 1..n, NEW structure
    PROVE  /\ Carries(DetectAll(bundle, structure).flags, bundle, structure)
           /\ AreFlags(DetectAll(bundle, structure).flags)
           /\ DetectAll(bundle, structure).runs = [d \in Detectors_ |-> WhyNot(bundle, d)]
<1> DEFINE raw == UNION {Found(bundle, d, structure) : d \in Ran(bundle)}
           all == DetectAll(bundle, structure)
           F == all.flags
<1>1. F = AddProvenanceVerdicts(bundle, raw) /\ all.runs = [d \in Detectors_ |-> WhyNot(bundle, d)]
  BY DEF DetectAll, Ran
<1>2. F = raw \/ F = {Explained(f) : f \in raw}
  BY <1>1, ProvenanceDef
<1>3. \A d \in Ran(bundle) : d \in Detectors_
  BY DEF Ran
<1>4. ASSUME NEW d \in Ran(bundle), NEW f \in Found(bundle, d, structure)
      PROVE  /\ IsFlag(f, d) /\ Follows(f, f) /\ f.detector = d
             /\ IsFlag(Explained(f), d) /\ Follows(Explained(f), f) /\ Explained(f).detector = d
  <2>1. d \in Detectors_
    BY <1>3
  <2>2. IsFlag(f, d)
    BY <2>1, FoundFlags
  <2>3. IsFlag(Explained(f), d) /\ Follows(Explained(f), f)
    BY <2>1, ExplainedIs
  <2> QED
    BY <2>2, <2>3, FollowsItself DEF IsFlag
<1>5. \A f \in raw : \E d \in Ran(bundle) : f \in Found(bundle, d, structure)
  OBVIOUS
<1>6. \A d \in Ran(bundle) : \A f \in Found(bundle, d, structure) : f \in raw
  OBVIOUS
<1> HIDE DEF raw, F
<1>7. ASSUME NEW g \in F
      PROVE  \E d \in Ran(bundle) : \E f \in Found(bundle, d, structure) : IsFlag(g, d) /\ Follows(g, f) /\ g.detector = d
  <2>1. PICK f \in raw : g = f \/ g = Explained(f)
    BY <1>2
  <2>2. PICK d \in Ran(bundle) : f \in Found(bundle, d, structure)
    BY <1>5
  <2> QED
    BY <1>4, <2>1, <2>2
<1>8. ASSUME NEW d \in Ran(bundle), NEW f \in Found(bundle, d, structure)
      PROVE  \E g \in F : g.detector = d /\ Follows(g, f)
  <2>1. f \in F \/ Explained(f) \in F
    BY <1>2, <1>6
  <2> QED
    BY <1>4, <2>1
<1>9. \A g \in F : \E d \in Ran(bundle) : \E f \in Found(bundle, d, structure) : g.detector = d /\ Follows(g, f)
  BY <1>7
<1>10. Carries(F, bundle, structure)
  BY <1>8, <1>9 DEF Carries
<1>11. AreFlags(F)
  <2> SUFFICES ASSUME NEW g \in F PROVE IsFlag(g, g.detector)
    BY DEF AreFlags
  <2>1. PICK d \in Ran(bundle) : \E f \in Found(bundle, d, structure) : IsFlag(g, d) /\ g.detector = d
    BY <1>7
  <2> QED
    BY <2>1
<1> QED
  BY <1>1, <1>10, <1>11 DEF F

(***************************************************************************)
(* The corpus's causes.                                                    *)
(***************************************************************************)
CauseOf(f, known) == {k \in Causes(known) : KnownMatches(f, known[k])}
Chosen(f, known) == known[Max(CauseOf(f, known))]
Proven(f, known) ==
    IF CauseOf(f, known) = {} THEN f
    ELSE [f EXCEPT !.unproven = FALSE, !.cause = Chosen(f, known).cause, !.verdict = Chosen(f, known).verdict]
ArePlaces(known) == DOMAIN known \in SUBSET Nat /\ IsFiniteSet(DOMAIN known)

LEMMA KnownDef ==
    ASSUME NEW flags, NEW known
    PROVE  /\ ApplyKnown(flags, known).flags = {Proven(f, known) : f \in flags}
           /\ ApplyKnown(flags, known).stale = {k \in Causes(known) : ~\E f \in flags : KnownMatches(f, known[k])}
BY DEF ApplyKnown, Proven, Chosen, CauseOf

LEMMA MatchesFit ==
    ASSUME NEW f, NEW k
    PROVE  KnownMatches(f, k) <=> Fits(k, f)
<1>1. k.evidence \cap UNION Range(f.evidence) # {} <=> \E i \in DOMAIN f.evidence : f.evidence[i] \cap k.evidence # {}
  BY DEF Range
<1> QED
  BY <1>1 DEF KnownMatches, Fits

FitsAt(f, known) == {k \in Causes(known) : Fits(known[k], f)}

LEMMA ProvenIs ==
    ASSUME NEW f, IsFlag(f, f.detector), NEW known, ArePlaces(known)
    PROVE  /\ Follows(Proven(f, known), f) /\ Proven(f, known).detector = f.detector
           /\ FitsAt(Proven(f, known), known) = FitsAt(f, known)
           /\ ~Proven(f, known).unproven <=> FitsAt(f, known) # {}
           /\ \A k \in FitsAt(f, known) : (\A j \in FitsAt(f, known) : j <= k) =>
                 Proven(f, known).cause = known[k].cause /\ Proven(f, known).verdict = known[k].verdict
<1> DEFINE g == Proven(f, known)
           C == CauseOf(f, known)
<1>1. DOMAIN f = FlagFields /\ f.unproven
  BY DEF IsFlag
<1>2. C = FitsAt(f, known)
  BY MatchesFit DEF CauseOf, FitsAt
<1>3. CASE C = {}
  <2>1. g = f
    BY <1>3 DEF Proven
  <2> HIDE DEF g
  <2>2. Follows(f, f)
    BY FollowsItself
  <2> QED
    BY <1>1, <1>2, <1>3, <2>1, <2>2 DEF g
<1>4. CASE C # {}
  <2>1. g = [f EXCEPT !.unproven = FALSE, !.cause = Chosen(f, known).cause, !.verdict = Chosen(f, known).verdict]
    BY <1>4 DEF Proven
  <2> HIDE DEF g
  <2>2. /\ DOMAIN g = FlagFields /\ g.detector = f.detector /\ g.what = f.what /\ g.certainty = f.certainty
        /\ g.evidence = f.evidence /\ g.key = f.key
    BY <1>1, <2>1 DEF FlagFields
  <2>3. ~g.unproven /\ g.cause = Chosen(f, known).cause /\ g.verdict = Chosen(f, known).verdict
    BY <1>1, <2>1 DEF FlagFields
  <2>4. Follows(g, f)
    BY <2>2 DEF Follows
  <2>5. FitsAt(g, known) = FitsAt(f, known)
    BY <2>2 DEF FitsAt, Fits
  <2>6. C \in SUBSET DOMAIN known /\ DOMAIN known \in SUBSET Nat
    BY DEF CauseOf, Causes, ArePlaces
  <2>7. Max(C) \in C /\ \A y \in C : y <= Max(C)
    <3> HIDE DEF C
    <3> QED
      BY <1>4, <2>6, FiniteMax DEF ArePlaces
  <2>8. ASSUME NEW k \in C, \A j \in C : j <= k PROVE g.cause = known[k].cause /\ g.verdict = known[k].verdict
    <3> HIDE DEF C
    <3>1. Max(C) \in Nat /\ k \in Nat /\ k <= Max(C) /\ Max(C) <= k
      BY <2>6, <2>7, <2>8
    <3>2. k = Max(C)
      BY <3>1
    <3> QED
      BY <2>3, <3>2 DEF Chosen, C
  <2> QED
    BY <1>2, <1>4, <2>2, <2>3, <2>4, <2>5, <2>8 DEF g
<1> QED
  BY <1>3, <1>4

(***************************************************************************)
(* The document of a bundle.                                               *)
(***************************************************************************)
PassesIn(bundle) == ReconstructPasses(bundle)
AllOf(bundle) == DetectAll(bundle, PassesIn(bundle))
CorpusKnows == KnownForCapture(Corpus, TheCapture)

LEMMA KnownPlaces == ArePlaces(CorpusKnows)
<1> DEFINE captures == Corpus.captures
           n == Len(captures)
           same == {k \in DOMAIN captures : captures[k].bytes = TheCapture.bytes /\ captures[k].sha = TheCapture.sha}
<1>1. n \in Nat /\ DOMAIN captures = 1..n
  <2>1. captures \in Seq(Range(captures))
    BY ReportAssumption
  <2> DEFINE S == Range(captures)
  <2> HIDE DEF captures, S
  <2>2. captures \in Seq(S)
    BY <2>1 DEF S
  <2> QED
    BY <2>2
<1>2. CorpusKnows = IF Corpus.loads /\ TheCapture.there /\ same # {} THEN captures[Min(same)].known ELSE <<>>
  BY DEF CorpusKnows, KnownForCapture
<1>3. same # {} => Min(same) \in DOMAIN captures
  <2>1. same \in SUBSET DOMAIN captures /\ same \in SUBSET Nat
    BY <1>1
  <2> HIDE DEF same
  <2> QED
    BY <2>1, NatMinIs
<1> DEFINE c == captures[Min(same)]
<1>4. same # {} => c.known \in Seq(Range(c.known))
  <2> SUFFICES ASSUME same # {} PROVE c.known \in Seq(Range(c.known))
    OBVIOUS
  <2>1. c \in Range(captures)
    BY <1>3 DEF Range
  <2> HIDE DEF c
  <2> QED
    BY <2>1, ReportAssumption
<1>5. \A known, S : known \in Seq(S) => ArePlaces(known)
  <2> SUFFICES ASSUME NEW S, NEW known \in Seq(S) PROVE ArePlaces(known)
    OBVIOUS
  <2>1. DOMAIN known = 1..Len(known) /\ Len(known) \in Nat
    OBVIOUS
  <2>2. IsFiniteSet(1..Len(known)) /\ 1..Len(known) \in SUBSET Nat
    BY <2>1, FS_Interval
  <2> QED
    BY <2>1, <2>2 DEF ArePlaces
<1>6. <<>> \in Seq({})
  OBVIOUS
<1> HIDE DEF same, captures, c
<1>7. CASE Corpus.loads /\ TheCapture.there /\ same # {}
  <2>1. CorpusKnows = c.known
    BY <1>2, <1>7 DEF c
  <2> QED
    BY <1>4, <1>5, <1>7, <2>1
<1>8. CASE ~(Corpus.loads /\ TheCapture.there /\ same # {})
  <2>1. CorpusKnows = <<>>
    BY <1>2, <1>8
  <2> QED
    BY <1>5, <1>6, <2>1
<1> QED
  BY <1>7, <1>8

LEMMA DocumentIs_ ==
    ASSUME NEW bundle
    PROVE  /\ Document_(bundle).flags = {Proven(f, CorpusKnows) : f \in AllOf(bundle).flags}
           /\ Document_(bundle).stale = {k \in Causes(CorpusKnows) : ~\E f \in AllOf(bundle).flags : KnownMatches(f, CorpusKnows[k])}
           /\ Document_(bundle).detectors = AllOf(bundle).runs /\ Document_(bundle).passes = PassesIn(bundle)
           /\ Document_(bundle).recommendations =
                Recommendations(bundle, Document_(bundle).flags, AllOf(bundle).runs,
                                NotablePasses(bundle, PassesIn(bundle)), NotableResources(bundle))
<1> DEFINE known == ApplyKnown(AllOf(bundle).flags, CorpusKnows)
           P == NotablePasses(bundle, PassesIn(bundle))
           R == NotableResources(bundle)
           doc == Document_(bundle)
<1>1. /\ doc.flags = known.flags /\ doc.stale = known.stale /\ doc.detectors = AllOf(bundle).runs
      /\ doc.passes = PassesIn(bundle)
      /\ doc.recommendations = Recommendations(bundle, known.flags, AllOf(bundle).runs, P, R)
  BY DEF Document_, Assembled, AllOf, PassesIn, CorpusKnows
<1> QED
  BY <1>1, KnownDef

LEMMA DocumentCarries ==
    ASSUME NEW bundle, NEW n \in Nat, DOMAIN bundle.events = 1..n
    PROVE  Carries(Document_(bundle).flags, bundle, PassesIn(bundle))
<1> DEFINE F == AllOf(bundle).flags
           D == Document_(bundle).flags
<1>1. D = {Proven(f, CorpusKnows) : f \in F}
  BY DocumentIs_
<1>2. Carries(F, bundle, PassesIn(bundle)) /\ AreFlags(F)
  BY AllCarries DEF AllOf
<1> HIDE DEF F, D
<1>3. ASSUME NEW f \in F PROVE Follows(Proven(f, CorpusKnows), f) /\ Proven(f, CorpusKnows).detector = f.detector
  BY <1>2, KnownPlaces, ProvenIs DEF AreFlags
<1>4. ASSUME NEW g \in D
      PROVE  \E d \in Ran(bundle) : \E f \in Found(bundle, d, PassesIn(bundle)) : g.detector = d /\ Follows(g, f)
  <2>1. PICK h \in F : g = Proven(h, CorpusKnows)
    BY <1>1
  <2>2. PICK d \in Ran(bundle) : \E f \in Found(bundle, d, PassesIn(bundle)) : h.detector = d /\ Follows(h, f)
    BY <1>2 DEF Carries
  <2>3. PICK f \in Found(bundle, d, PassesIn(bundle)) : h.detector = d /\ Follows(h, f)
    BY <2>2
  <2>4. Follows(g, f) /\ g.detector = d
    BY <1>3, <2>1, <2>3, FollowsOn
  <2> QED
    BY <2>4
<1>5. ASSUME NEW d \in Ran(bundle), NEW f \in Found(bundle, d, PassesIn(bundle))
      PROVE  \E g \in D : g.detector = d /\ Follows(g, f)
  <2>1. PICK h \in F : h.detector = d /\ Follows(h, f)
    BY <1>2 DEF Carries
  <2>2. Proven(h, CorpusKnows) \in D
    BY <1>1
  <2>3. Follows(Proven(h, CorpusKnows), f) /\ Proven(h, CorpusKnows).detector = d
    BY <1>3, <2>1, FollowsOn
  <2> QED
    BY <2>2, <2>3
<1>6. Carries(D, bundle, PassesIn(bundle))
  BY <1>4, <1>5 DEF Carries
<1> QED
  BY <1>6 DEF D

\* What the document names for a detector is what the detector found.
LEMMA NamesAre ==
    ASSUME NEW bundle, NEW n \in Nat, DOMAIN bundle.events = 1..n, NEW d \in Detectors_, NEW t, t # "provenance"
    PROVE  /\ d \in Ran(bundle) => NamesOf(Document_(bundle), d, t) = NamedBy(Found(bundle, d, PassesIn(bundle)), t)
           /\ d \notin Ran(bundle) => /\ FlagsOf(Document_(bundle), d) = {}
                                      /\ NamesOf(Document_(bundle), d, t) = {}
<1> DEFINE D == Document_(bundle).flags
           G == FlagsOf(Document_(bundle), d)
           F == Found(bundle, d, PassesIn(bundle))
<1>1. Carries(D, bundle, PassesIn(bundle))
  BY DocumentCarries
<1>2. G = {f \in D : f.detector = d}
  BY DEF FlagsOf
<1>3. NamesOf(Document_(bundle), d, t) = NamedBy(G, t)
  BY DEF NamesOf, NamedBy, Named
<1> HIDE DEF G, D, F
<1>4. ASSUME NEW g \in G PROVE d \in Ran(bundle) /\ \E f \in F : Follows(g, f)
  <2>1. g \in D /\ g.detector = d
    BY <1>2
  <2>2. PICK e \in Ran(bundle) : \E f \in Found(bundle, e, PassesIn(bundle)) : g.detector = e /\ Follows(g, f)
    BY <1>1, <2>1 DEF Carries
  <2>3. e = d
    BY <2>1, <2>2
  <2> QED
    BY <2>2, <2>3 DEF F
<1>5. ASSUME d \in Ran(bundle), NEW f \in F PROVE \E g \in G : Follows(g, f)
  <2>1. PICK g \in D : g.detector = d /\ Follows(g, f)
    BY <1>1, <1>5 DEF Carries, F
  <2> QED
    BY <1>2, <2>1
<1>6. \A g, f : Follows(g, f) => Named(g.evidence, t) = Named(f.evidence, t)
  BY DEF Follows
<1>7. ASSUME d \in Ran(bundle) PROVE NamedBy(G, t) = NamedBy(F, t)
  <2>1. ASSUME NEW x \in NamedBy(G, t) PROVE x \in NamedBy(F, t)
    <3>1. PICK g \in G : x \in Named(g.evidence, t)
      BY <2>1 DEF NamedBy
    <3>2. PICK f \in F : Follows(g, f)
      BY <1>4
    <3>3. x \in Named(f.evidence, t)
      BY <1>6, <3>1, <3>2
    <3> QED
      BY <3>3 DEF NamedBy
  <2>2. ASSUME NEW x \in NamedBy(F, t) PROVE x \in NamedBy(G, t)
    <3>1. PICK f \in F : x \in Named(f.evidence, t)
      BY <2>2 DEF NamedBy
    <3>2. PICK g \in G : Follows(g, f)
      BY <1>5, <1>7
    <3>3. x \in Named(g.evidence, t)
      BY <1>6, <3>1, <3>2
    <3> QED
      BY <3>3 DEF NamedBy
  <2> QED
    BY <2>1, <2>2
<1>8. ASSUME d \notin Ran(bundle) PROVE G = {} /\ NamedBy(G, t) = {}
  <2>1. G = {}
    BY <1>4, <1>8
  <2> QED
    BY <2>1 DEF NamedBy
<1> QED
  BY <1>3, <1>7, <1>8 DEF G, F

LEMMA CausesSpent ==
    ASSUME NEW bundle, NEW n \in Nat, DOMAIN bundle.events = 1..n
    PROVE  CausesAreSpent(Document_(bundle))
<1> DEFINE F == AllOf(bundle).flags
           D == Document_(bundle).flags
           known == CorpusKnows
           stale == Document_(bundle).stale
<1>1. D = {Proven(f, known) : f \in F} /\ stale = {k \in Causes(known) : ~\E f \in F : KnownMatches(f, known[k])}
  BY DocumentIs_
<1>2. AreFlags(F)
  BY AllCarries DEF AllOf
<1>3. ArePlaces(known)
  BY KnownPlaces
<1> HIDE DEF F, D, known, stale
<1>4. ASSUME NEW f \in F
      PROVE  /\ FitsAt(Proven(f, known), known) = FitsAt(f, known)
             /\ ~Proven(f, known).unproven <=> FitsAt(f, known) # {}
             /\ \A k \in FitsAt(f, known) : (\A j \in FitsAt(f, known) : j <= k) =>
                   Proven(f, known).cause = known[k].cause /\ Proven(f, known).verdict = known[k].verdict
  BY <1>2, <1>3, ProvenIs DEF AreFlags
<1>5. ASSUME NEW g \in D
      PROVE  /\ ~g.unproven <=> FitsAt(g, known) # {}
             /\ \A k \in FitsAt(g, known) : (\A j \in FitsAt(g, known) : j <= k) =>
                   g.cause = known[k].cause /\ g.verdict = known[k].verdict
  <2>1. PICK f \in F : g = Proven(f, known)
    BY <1>1
  <2> QED
    BY <1>4, <2>1
<1>6. ASSUME NEW k \in Causes(known) PROVE (\A g \in D : k \notin FitsAt(g, known)) <=> ~\E f \in F : KnownMatches(f, known[k])
  <2>1. \A f \in F : k \in FitsAt(f, known) <=> KnownMatches(f, known[k])
    BY MatchesFit DEF FitsAt
  <2>2. \A f \in F : k \in FitsAt(Proven(f, known), known) <=> KnownMatches(f, known[k])
    BY <1>4, <2>1
  <2> QED
    BY <1>1, <2>2
<1>7. \A k \in Causes(known) : k \in stale <=> \A g \in D : k \notin FitsAt(g, known)
  BY <1>1, <1>6
<1>8. CausesAreSpent(Document_(bundle)) =
        (/\ \A f \in D :
              /\ ~f.unproven <=> FitsAt(f, known) # {}
              /\ \A k \in FitsAt(f, known) : (\A j \in FitsAt(f, known) : j <= k) =>
                    f.cause = known[k].cause /\ f.verdict = known[k].verdict
         /\ \A k \in Causes(known) : k \in stale <=> \A f \in D : k \notin FitsAt(f, known))
  BY DEF CausesAreSpent, D, known, stale, CorpusKnows, FitsAt
<1> QED
  BY <1>5, <1>7, <1>8

(***************************************************************************)
(* Rules over the same rows do not contradict each other.                  *)
(***************************************************************************)
LEMMA UsageRulesRun ==
    ASSUME NEW bundle, NEW d \in UsageRules
    PROVE  d \in Detectors_ /\ WhyNot(bundle, d) = UsageReason(bundle)
<1>1. d \in Detectors_
  BY DEF Detectors_
<1>2. d \notin TableRules
  BY DEF UsageRules, TableRules
<1>3. WhyNot(bundle, d) = UsageReason(bundle)
  <2>1. CASE d = "dead-allocation"
    BY <2>1 DEF WhyNot, UsageRules, TableRules, StateRules, StreamRules
  <2>2. CASE d = "read-before-write"
    BY <2>2 DEF WhyNot, UsageRules, TableRules, StateRules, StreamRules
  <2>3. CASE d = "write-never-read"
    BY <2>3 DEF WhyNot, UsageRules, TableRules, StateRules, StreamRules
  <2>4. CASE d = "load-instead-of-clear"
    BY <2>4 DEF WhyNot, UsageRules, TableRules, StateRules, StreamRules
  <2>5. CASE d = "dead-compute"
    BY <2>5 DEF WhyNot, UsageRules, TableRules, StateRules, StreamRules
  <2> QED
    BY <2>1, <2>2, <2>3, <2>4, <2>5 DEF UsageRules
<1> QED
  BY <1>1, <1>3

LEMMA RowsHold ==
    ASSUME NEW bundle, NEW n \in Nat, DOMAIN bundle.events = 1..n, NEW r, NEW usages, RowsOf(bundle, r, usages) # {}
    PROVE  /\ RowsOf(bundle, r, usages) \in SUBSET Nat
           /\ Min(RowsOf(bundle, r, usages)) \in RowsOf(bundle, r, usages)
           /\ Max(RowsOf(bundle, r, usages)) \in RowsOf(bundle, r, usages)
           /\ \A e \in RowsOf(bundle, r, usages) :
                 Min(RowsOf(bundle, r, usages)) <= e /\ e <= Max(RowsOf(bundle, r, usages))
<1> DEFINE S == RowsOf(bundle, r, usages)
<1>1. S \in SUBSET (0..(2 * n)) /\ S # {} /\ 2 * n \in Nat
  BY ChainIs
<1> HIDE DEF S
<1>2. S \in SUBSET Nat
  BY <1>1
<1>3. Min(S) \in S /\ \A e \in S : Min(S) <= e
  BY <1>1, <1>2, NatMinIs
<1>4. Max(S) \in S /\ \A e \in S : e <= Max(S)
  <2> DEFINE m == 2 * n
  <2>1. m \in Nat /\ S \in SUBSET (0..m)
    BY <1>1
  <2> HIDE DEF m
  <2> QED
    BY <1>1, <2>1, NatMaxIs
<1> QED
  BY <1>2, <1>3, <1>4 DEF S

\* A row some rule is about is not the row of a resource nothing ever used.
LEMMA TouchedIs ==
    ASSUME NEW bundle, NEW r, NEW usages, "Unused" \notin usages, RowsOf(bundle, r, usages) # {}
    PROVE  r \notin Untouched(bundle)
<1>1. PICK row \in UsageRows(bundle, r) : row[2] \in usages
  BY DEF RowsOf
<1> QED
  BY <1>1 DEF Untouched

LEMMA UsagesAre ==
    /\ "Unused" \notin UsageReads /\ "Unused" \notin UsageWrites /\ "Unused" \notin UsageTargets
    /\ "Unused" \notin {"CS_RWResource"} /\ "CS_RWResource" \in UsageWrites
BY DEF UsageReads, UsageWrites, UsageTargets

LEMMA NotUntouched ==
    ASSUME NEW bundle, NEW n \in Nat, DOMAIN bundle.events = 1..n, NEW d \in UsageRules \ {"dead-allocation"},
           NEW structure, NEW r \in NamedBy(Found(bundle, d, structure), "res")
    PROVE  r \notin Untouched(bundle)
<1>1. CASE d = "read-before-write"
  <2>1. r \in ReadFirst(bundle)
    <3>1. r \in NamedBy(DetectReadBeforeWrite(bundle), "res")
      BY <1>1, FoundAre
    <3> QED
      BY <3>1, ReadsName
  <2> QED
    BY <2>1, TouchedIs, UsagesAre DEF ReadFirst
<1>2. CASE d = "write-never-read"
  <2>1. r \in WrittenLast(bundle)
    <3>1. r \in NamedBy(DetectWriteNeverRead(bundle), "res")
      BY <1>2, FoundAre
    <3> QED
      BY <3>1, WritesName
  <2> QED
    BY <2>1, TouchedIs, UsagesAre DEF WrittenLast
<1>3. CASE d = "load-instead-of-clear"
  <2>1. r \in TargetFirst(bundle)
    <3>1. r \in NamedBy(DetectLoadInsteadOfClear(bundle), "res")
      BY <1>3, FoundAre
    <3> QED
      BY <3>1, TargetsName
  <2> QED
    BY <2>1, TouchedIs, UsagesAre DEF TargetFirst
<1>4. CASE d = "dead-compute"
  <2>1. r \in NamedBy(DetectDeadCompute(bundle, structure), "res")
    BY <1>4, FoundAre
  <2>2. PICK p \in DOMAIN structure : r \in DeadAfter(bundle, structure[p])
    BY <2>1, DeadName
  <2>3. RowsOf(bundle, r, {"CS_RWResource"}) # {}
    BY <2>2 DEF DeadAfter
  <2> QED
    BY <2>3, TouchedIs, UsagesAre
<1> QED
  BY <1>1, <1>2, <1>3, <1>4 DEF UsageRules

\* Last written by a compute pass nothing reads after: nothing reads it at all since, or the pass does itself.
LEMMA DeadOrRead ==
    ASSUME NEW bundle, NEW n \in Nat, DOMAIN bundle.events = 1..n, NEW entry, entry.first \in Nat, entry.last \in Nat,
           NEW r \in DeadAfter(bundle, entry), r \notin WrittenLast(bundle)
    PROVE  \E e \in RowsOf(bundle, r, UsageReads) : e \in EidsOf(entry) /\ e > Max(RowsOf(bundle, r, UsageWrites))
<1> DEFINE W == RowsOf(bundle, r, UsageWrites)
           R == RowsOf(bundle, r, UsageReads)
<1>1. PICK e \in RowsOf(bundle, r, {"CS_RWResource"}) : EventId(entry.first) <= e /\ e <= EventId(entry.last)
  BY DEF DeadAfter
<1>2. e \in W
  BY <1>1, UsagesAre DEF RowsOf
<1>3. W \in SUBSET Nat /\ Max(W) \in Nat /\ e <= Max(W) /\ e \in Nat
  <2>1. W # {}
    BY <1>2
  <2> QED
    BY <1>2, <2>1, RowsHold
<1>4. PICK x \in R : ~(x <= Max(W))
  BY <1>2 DEF WrittenLast, DeadAfter
<1>5. x \in Nat
  <2>1. R # {}
    BY <1>4
  <2> QED
    BY <1>4, <2>1, RowsHold
<1>6. x <= EventId(entry.last)
  BY <1>4 DEF DeadAfter
<1> HIDE DEF W, R
<1>7. EventId(entry.first) \in Nat /\ EventId(entry.last) \in Nat
  BY DEF EventId
<1>8. x \in EventId(entry.first)..EventId(entry.last) /\ x > Max(W)
  BY <1>1, <1>3, <1>4, <1>5, <1>6, <1>7
<1> QED
  BY <1>4, <1>8 DEF EidsOf, W, R

\* First used as a target, and read before even that: read before any write.
LEMMA LoadedIsRead ==
    ASSUME NEW bundle, NEW n \in Nat, DOMAIN bundle.events = 1..n, NEW r \in TargetFirst(bundle),
           NEW e \in RowsOf(bundle, r, UsageReads), e < Min(RowsOf(bundle, r, UsageTargets))
    PROVE  r \in ReadFirst(bundle)
<1> DEFINE W == RowsOf(bundle, r, UsageWrites)
           R == RowsOf(bundle, r, UsageReads)
           T == RowsOf(bundle, r, UsageTargets)
<1>1. r \in UsageJudged(bundle) /\ T # {} /\ \A w \in W : w >= Min(T)
  BY DEF TargetFirst
<1>2. R # {} /\ e \in R
  OBVIOUS
<1>3. Min(R) \in Nat /\ Min(R) <= e /\ e \in Nat
  BY <1>2, RowsHold
<1>4. Min(T) \in Nat
  BY <1>1, RowsHold
<1>5. \A w \in W : w \in Nat
  BY RowsHold
<1>6. e < Min(T)
  OBVIOUS
<1> HIDE DEF W, R, T
<1>7. \A w \in W : w > Min(R)
  BY <1>1, <1>3, <1>4, <1>5, <1>6
<1> QED
  BY <1>1, <1>2, <1>7 DEF ReadFirst, W, R

LEMMA PassEnds ==
    ASSUME NEW bundle, NEW n \in Nat, DOMAIN bundle.events = 1..n, Len(bundle.events) = n,
           NEW p \in DOMAIN PassesIn(bundle)
    PROVE  PassesIn(bundle)[p].first \in Nat /\ PassesIn(bundle)[p].last \in Nat
<1> DEFINE P == PassesIn(bundle)
           N == PassCount(bundle.events)
<1>1. Spans(P, n, N)
  BY PassesSpan DEF PassesIn
<1> HIDE DEF P, N
<1>2. p \in 1..N /\ P[p].first \in 1..n /\ P[p].last \in 1..n
  BY <1>1 DEF Spans, P
<1> QED
  BY <1>2 DEF P

LEMMA UsagesAgree ==
    ASSUME NEW n \in Nat, DOMAIN report.events = 1..n, Len(report.events) = n
    PROVE  UsageRulesAgree(Document_(report))
<1> DEFINE doc == Document_(report)
           P == PassesIn(report)
           names(d, t) == NamesOf(doc, d, t)
           found(d, t) == NamedBy(Found(report, d, P), t)
<1>1. ASSUME NEW d \in UsageRules, NEW t, t # "provenance"
      PROVE  names(d, t) = IF UsageReason(report) = "" THEN found(d, t) ELSE {}
  <2>1. d \in Detectors_ /\ (d \in Ran(report) <=> UsageReason(report) = "")
    BY UsageRulesRun DEF Ran
  <2> QED
    BY <1>1, <2>1, NamesAre
<1>2. doc.passes = P
  BY DocumentIs_
<1>3. /\ found("read-before-write", "res") = NamedBy(DetectReadBeforeWrite(report), "res")
      /\ found("read-before-write", "more") = NamedBy(DetectReadBeforeWrite(report), "more")
      /\ found("write-never-read", "res") = NamedBy(DetectWriteNeverRead(report), "res")
      /\ found("write-never-read", "more") = NamedBy(DetectWriteNeverRead(report), "more")
      /\ found("load-instead-of-clear", "res") = NamedBy(DetectLoadInsteadOfClear(report), "res")
      /\ found("dead-compute", "res") = NamedBy(DetectDeadCompute(report, P), "res")
      /\ found("dead-allocation", "res") = NamedBy(DetectDeadAllocations(report), "res")
  BY FoundAre
<1>4. \A d \in UsageRules \ {"dead-allocation"} : \A r \in found(d, "res") : r \notin Untouched(report)
  BY NotUntouched
<1>5. \A r \in WrittenLast(report) : r \in found("write-never-read", "res") \/ found("write-never-read", "more") # {}
  BY <1>3, WritesName
<1>6. \A r \in ReadFirst(report) : r \in found("read-before-write", "res") \/ found("read-before-write", "more") # {}
  BY <1>3, ReadsName
<1>7. \A p \in DOMAIN P : P[p].first \in Nat /\ P[p].last \in Nat
  BY PassEnds
<1>8. \A r, usages : RowsAs(r, usages) = RowsOf(report, r, usages)
  BY DEF RowsAs, RowsOf
<1>9. {"dead-allocation", "read-before-write", "write-never-read", "load-instead-of-clear", "dead-compute"} = UsageRules
      /\ "res" # "provenance" /\ "more" # "provenance"
  BY DEF UsageRules
<1>10. found("dead-allocation", "res") \subseteq Untouched(report)
  BY <1>3, AllocationsName
<1>11. \A r \in found("dead-compute", "res") : \E p \in DOMAIN P : P[p].kind = "compute" /\ r \in DeadAfter(report, P[p])
  BY <1>3, DeadName
<1>12. found("load-instead-of-clear", "res") \subseteq TargetFirst(report)
  BY <1>3, TargetsName
<1>20. \A r, d : IsListed(doc, r, d) <=> r \in names(d, "res") \/ names(d, "more") # {}
  BY DEF IsListed
<1> HIDE DEF doc, P, names, found
<1>13. ASSUME NEW d \in UsageRules \ {"dead-allocation"}
       PROVE  names("dead-allocation", "res") \cap names(d, "res") = {}
  <2>1. d \in UsageRules /\ "dead-allocation" \in UsageRules
    BY <1>9
  <2>2. names(d, "res") \subseteq found(d, "res") /\ names("dead-allocation", "res") \subseteq found("dead-allocation", "res")
    BY <1>1, <1>9, <2>1
  <2> QED
    BY <1>4, <1>10, <2>2
<1>14. ASSUME NEW r \in names("dead-compute", "res")
       PROVE  \/ IsListed(doc, r, "write-never-read")
              \/ \E p \in DOMAIN P, e \in RowsAs(r, UsageReads) :
                    e \in EidsOf(P[p]) /\ P[p].kind = "compute" /\ e > Max(RowsAs(r, UsageWrites))
  <2>1. UsageReason(report) = "" /\ r \in found("dead-compute", "res")
    BY <1>1, <1>9, <1>14
  <2>2. PICK p \in DOMAIN P : P[p].kind = "compute" /\ r \in DeadAfter(report, P[p])
    BY <1>11, <2>1
  <2>3. CASE r \in WrittenLast(report)
    <3>1. /\ names("write-never-read", "res") = found("write-never-read", "res")
          /\ names("write-never-read", "more") = found("write-never-read", "more")
      BY <1>1, <1>9, <2>1
    <3> QED
      BY <1>5, <1>20, <2>3, <3>1
  <2>4. CASE r \notin WrittenLast(report)
    <3> DEFINE entry == P[p]
    <3>1. entry.first \in Nat /\ entry.last \in Nat /\ r \in DeadAfter(report, entry)
      BY <1>7, <2>2
    <3> HIDE DEF entry
    <3>2. \E e \in RowsOf(report, r, UsageReads) : e \in EidsOf(entry) /\ e > Max(RowsOf(report, r, UsageWrites))
      BY <2>4, <3>1, DeadOrRead
    <3> QED
      BY <1>8, <2>2, <3>2 DEF entry
  <2> QED
    BY <2>3, <2>4
<1>15. ASSUME NEW r \in names("load-instead-of-clear", "res"),
              NEW e \in RowsAs(r, UsageReads), e < Min(RowsAs(r, UsageTargets))
       PROVE  IsListed(doc, r, "read-before-write")
  <2>1. UsageReason(report) = "" /\ r \in found("load-instead-of-clear", "res")
    BY <1>1, <1>9, <1>15
  <2>2. r \in TargetFirst(report)
    BY <1>12, <2>1
  <2>3. e \in RowsOf(report, r, UsageReads) /\ e < Min(RowsOf(report, r, UsageTargets))
    BY <1>8, <1>15
  <2>4. r \in ReadFirst(report)
    BY <2>2, <2>3, LoadedIsRead
  <2>5. /\ names("read-before-write", "res") = found("read-before-write", "res")
        /\ names("read-before-write", "more") = found("read-before-write", "more")
    BY <1>1, <1>9, <2>1
  <2> QED
    BY <1>6, <1>20, <2>4, <2>5
<1>16. \A d \in UsageRules \ {"dead-allocation"} : NamesOf(doc, "dead-allocation", "res") \cap NamesOf(doc, d, "res") = {}
  BY <1>13 DEF names
<1>17. \A r \in NamesOf(doc, "dead-compute", "res") :
          \/ IsListed(doc, r, "write-never-read")
          \/ \E p \in DOMAIN P, e \in RowsAs(r, UsageReads) :
                e \in EidsOf(P[p]) /\ P[p].kind = "compute" /\ e > Max(RowsAs(r, UsageWrites))
  BY <1>14 DEF names
<1>18. \A r \in NamesOf(doc, "load-instead-of-clear", "res") :
          (\E e \in RowsAs(r, UsageReads) : e < Min(RowsAs(r, UsageTargets))) => IsListed(doc, r, "read-before-write")
  BY <1>15 DEF names
<1>19. UsageRulesAgree(doc)
  BY <1>2, <1>16, <1>17, <1>18 DEF UsageRulesAgree
<1> QED
  BY <1>19 DEF doc

(***************************************************************************)
(* What to look at first: every row, or as many as the list may hold and   *)
(* none it leaves out ranked before one it holds.                          *)
(***************************************************************************)
RankOf(row) == 3 * row.severity + row.kind
Advice(rows) ==
    LET ranked == Ranked(rows, {q \in rows \X rows : RankOf(q[1]) < RankOf(q[2])})
    IN  SubSeq(ranked, 1, Min({RecommendationLimit, Len(ranked)}))
ArePlaced(rows) == IsFiniteSet(rows) /\ \A row \in rows : row.severity \in 1..3 /\ row.kind \in 1..3

LEMMA AdviceIs ==
    ASSUME NEW rows, ArePlaced(rows)
    PROVE  /\ Range(Advice(rows)) \subseteq rows
           /\ \/ Range(Advice(rows)) = rows
              \/ /\ Len(Advice(rows)) = RecommendationLimit
                 /\ \A x \in rows \ Range(Advice(rows)), y \in Range(Advice(rows)) : RankOf(y) <= RankOf(x)
<1> DEFINE order == {q \in rows \X rows : RankOf(q[1]) < RankOf(q[2])}
           s == Ranked(rows, order)
           l == Len(s)
           m == Min({RecommendationLimit, l})
           t == SubSeq(s, 1, m)
           rank == [row \in rows |-> RankOf(row)]
<1>1. \A row \in rows : RankOf(row) \in Nat
  BY DEF ArePlaced, RankOf
<1>2. Orderable(rows, order)
  <2>1. rank \in [rows -> Nat] /\ \A x \in rows, y \in rows : <<y, x>> \in order => rank[y] < rank[x]
    BY <1>1
  <2> HIDE DEF rank, order
  <2> QED
    BY <2>1, Measured DEF ArePlaced
<1>3. IsRanked(s, rows, order)
  BY <1>2, RankedIs
<1>4. s \in Seq(rows) /\ l \in Nat /\ DOMAIN s = 1..l /\ \A i \in 1..l : s[i] \in rows
  <2>1. s \in Seq(rows)
    BY <1>3 DEF IsRanked
  <2> HIDE DEF s
  <2> QED
    BY <2>1
<1>5. RecommendationLimit \in Nat
  BY ReportAssumption
<1>6. m \in Nat /\ m <= l /\ m <= RecommendationLimit /\ m \in {RecommendationLimit, l}
  BY <1>4, <1>5, MinOfTwo
<1>7. \A i \in 1..l, j \in 1..l : i < j => RankOf(s[i]) <= RankOf(s[j])
  <2> SUFFICES ASSUME NEW i \in 1..l, NEW j \in 1..l, i < j PROVE RankOf(s[i]) <= RankOf(s[j])
    OBVIOUS
  <2>1. <<s[j], s[i]>> \notin order /\ s[i] \in rows /\ s[j] \in rows
    BY <1>3, <1>4 DEF IsRanked
  <2> DEFINE a == s[i]
             b == s[j]
  <2>2. ~(RankOf(b) < RankOf(a)) /\ RankOf(a) \in Nat /\ RankOf(b) \in Nat
    BY <1>1, <2>1
  <2> HIDE DEF a, b
  <2>3. RankOf(a) <= RankOf(b)
    BY <2>2
  <2> QED
    BY <2>3 DEF a, b
<1>8. \A x \in rows : \E j \in 1..l : s[j] = x
  BY <1>3, <1>4 DEF IsRanked, Range
<1> HIDE DEF s, l, m, order
<1>9. t \in Seq(rows) /\ Len(t) = m /\ DOMAIN t = 1..m /\ \A i \in 1..m : t[i] = s[i]
  BY <1>4, <1>6
<1> HIDE DEF t
<1>10. Range(t) = {s[i] : i \in 1..m}
  BY <1>9 DEF Range
<1>11. Range(t) \subseteq rows
  BY <1>4, <1>6, <1>10
<1>12. \/ Range(t) = rows
       \/ Len(t) = RecommendationLimit /\ \A x \in rows \ Range(t), y \in Range(t) : RankOf(y) <= RankOf(x)
  <2>1. CASE m = l
    BY <1>8, <1>10, <1>11, <2>1
  <2>2. CASE m = RecommendationLimit
    <3> SUFFICES ASSUME NEW x \in rows \ Range(t), NEW y \in Range(t) PROVE RankOf(y) <= RankOf(x)
      BY <1>9, <2>2
    <3>1. PICK j \in 1..l : s[j] = x
      BY <1>8
    <3>2. PICK i \in 1..m : s[i] = y
      BY <1>10
    <3>3. j \notin 1..m
      BY <1>10, <3>1
    <3>4. i < j /\ i \in 1..l
      BY <1>4, <1>6, <3>3
    <3> QED
      BY <1>7, <3>1, <3>2, <3>4
  <2> QED
    BY <1>6, <2>1, <2>2
<1>13. t = Advice(rows)
  BY DEF Advice, t, s, m, l, order
<1> QED
  BY <1>11, <1>12, <1>13

OddWords == {"depth only", "a single event", "no marker", "dead", "the only pass touching"}
SpecialWords == {"never read at all", "an unusual format", "could not decode"}
GapWords == {"no counters", "no shader debugging"}
AdviceWords == Detectors_ \cup OddWords \cup SpecialWords \cup GapWords

LEMMA UpToFive == ASSUME NEW a, NEW b, NEW c, NEW d, NEW e PROVE IsFiniteSet({a, b, c, d, e})
<1>1. IsFiniteSet({a}) /\ IsFiniteSet({b}) /\ IsFiniteSet({c}) /\ IsFiniteSet({d}) /\ IsFiniteSet({e})
  BY FS_Singleton
<1>2. IsFiniteSet({a} \cup {b}) /\ IsFiniteSet({c} \cup {d})
  BY <1>1, FS_Union
<1>3. IsFiniteSet(({a} \cup {b}) \cup ({c} \cup {d}))
  BY <1>2, FS_Union
<1>4. IsFiniteSet((({a} \cup {b}) \cup ({c} \cup {d})) \cup {e})
  BY <1>1, <1>3, FS_Union
<1>5. (({a} \cup {b}) \cup ({c} \cup {d})) \cup {e} = {a, b, c, d, e}
  OBVIOUS
<1> QED
  BY <1>4, <1>5

LEMMA WordsAreFinite == IsFiniteSet(AdviceWords)
<1>1. IsFiniteSet(UsageRules) /\ IsFiniteSet(StateRules) /\ IsFiniteSet(StreamRules) /\ IsFiniteSet(AlwaysRules)
  BY UpToFive DEF UsageRules, StateRules, StreamRules, AlwaysRules
<1>2. IsFiniteSet(OddWords)
  BY UpToFive DEF OddWords
<1>3. IsFiniteSet(TableRules \cup {"geometry-offscreen"} \cup GapWords)
  <2>1. IsFiniteSet({"unbound-table-slot", "binding-kind-mismatch", "geometry-offscreen", "no counters", "no shader debugging"})
    BY UpToFive
  <2>2. {"unbound-table-slot", "binding-kind-mismatch", "geometry-offscreen", "no counters", "no shader debugging"} =
          TableRules \cup {"geometry-offscreen"} \cup GapWords
    BY DEF TableRules, GapWords
  <2> QED
    BY <2>1, <2>2
<1>4. IsFiniteSet(SpecialWords)
  <2>1. IsFiniteSet({"never read at all", "an unusual format", "could not decode", "could not decode", "could not decode"})
    BY UpToFive
  <2>2. {"never read at all", "an unusual format", "could not decode", "could not decode", "could not decode"} = SpecialWords
    BY DEF SpecialWords
  <2> QED
    BY <2>1, <2>2
<1> DEFINE A == UsageRules \cup StateRules
           B == StreamRules \cup AlwaysRules
           C == (TableRules \cup {"geometry-offscreen"} \cup GapWords) \cup (OddWords \cup SpecialWords)
<1>5. IsFiniteSet(A) /\ IsFiniteSet(B) /\ IsFiniteSet(OddWords \cup SpecialWords)
  BY <1>1, <1>2, <1>4, FS_Union
<1>6. IsFiniteSet(C)
  BY <1>3, <1>5, FS_Union
<1>7. AdviceWords = (A \cup B) \cup C
  BY DEF AdviceWords, Detectors_
<1> HIDE DEF A, B, C
<1>8. IsFiniteSet((A \cup B) \cup C)
  <2>1. IsFiniteSet(A \cup B)
    BY <1>5, FS_Union
  <2> QED
    BY <1>6, <2>1, FS_Union
<1> QED
  BY <1>7, <1>8

AdviceRows(bundle, flags, runs, passRows, resourceRows) ==
    FindingRows(flags) \cup NotableRows(passRows) \cup ResourceRows(resourceRows) \cup GapRows(bundle, runs)
PlacedRow(severity, kind, do) == [severity |-> severity, kind |-> kind, do |-> do]
RowsAt(severity, kind) == {PlacedRow(severity, kind, do) : do \in AdviceWords}

LEMMA AdviceDef ==
    ASSUME NEW bundle, NEW flags, NEW runs, NEW passRows, NEW resourceRows
    PROVE  Recommendations(bundle, flags, runs, passRows, resourceRows) =
             Advice(AdviceRows(bundle, flags, runs, passRows, resourceRows))
BY DEF Recommendations, Advice, AdviceRows, RankOf

LEMMA RowsAtFinite ==
    ASSUME NEW severity, NEW kind
    PROVE  IsFiniteSet(RowsAt(severity, kind))
<1> DEFINE row == [do \in AdviceWords |-> PlacedRow(severity, kind, do)]
<1>1. row \in Surjection(AdviceWords, RowsAt(severity, kind))
  BY DEF RowsAt, Surjection
<1> QED
  BY <1>1, WordsAreFinite, FS_Surjection

\* The reasons a pass or a resource is odd for are these, whatever the bundle.
LEMMA OddReasons ==
    ASSUME NEW bundle, NEW structure
    PROVE  /\ UNION Range(NotablePasses(bundle, structure)) \subseteq OddWords
           /\ UNION Range(NotableResources(bundle)) \subseteq SpecialWords
<1>1. \A p : PassOddities(bundle, structure, p) \subseteq OddWords
  BY DEF PassOddities, OddWords
<1>2. \A r : ResourceSpecials(bundle, r) \subseteq SpecialWords
  BY DEF ResourceSpecials, SpecialWords
<1>3. \A x \in DOMAIN NotablePasses(bundle, structure) :
         NotablePasses(bundle, structure)[x] = PassOddities(bundle, structure, x)
  BY DEF NotablePasses
<1>4. \A x \in DOMAIN NotableResources(bundle) :
         NotableResources(bundle)[x] = ResourceSpecials(bundle, x)
  BY DEF NotableResources
<1> QED
  BY <1>1, <1>2, <1>3, <1>4 DEF Range

LEMMA AdvicePlaced ==
    ASSUME NEW bundle, NEW structure, NEW flags, \A f \in flags : f.detector \in Detectors_,
           NEW runs, DOMAIN runs = Detectors_
    PROVE  ArePlaced(AdviceRows(bundle, flags, runs, NotablePasses(bundle, structure), NotableResources(bundle)))
<1> DEFINE P == NotablePasses(bundle, structure)
           R == NotableResources(bundle)
           rows == AdviceRows(bundle, flags, runs, P, R)
           all == ((RowsAt(1, 1) \cup RowsAt(2, 1)) \cup (RowsAt(3, 1) \cup RowsAt(3, 2))) \cup RowsAt(3, 3)
<1>1. FindingRows(flags) \subseteq all
  <2> SUFFICES ASSUME NEW f \in flags
               PROVE  [severity |-> SeverityOf(f.detector), kind |-> 1, do |-> f.detector] \in all
    BY DEF FindingRows
  <2>1. f.detector \in AdviceWords /\ SeverityOf(f.detector) \in {1, 2, 3}
    BY DEF AdviceWords, SeverityOf
  <2> QED
    BY <2>1 DEF RowsAt, PlacedRow
<1>2. NotableRows(P) \subseteq all /\ ResourceRows(R) \subseteq all
  <2>1. UNION Range(P) \subseteq AdviceWords /\ UNION Range(R) \subseteq AdviceWords
    BY OddReasons DEF AdviceWords
  <2> HIDE DEF P, R
  <2> QED
    BY <2>1 DEF NotableRows, ResourceRows, RowsAt, PlacedRow
<1>3. GapRows(bundle, runs) \subseteq all
  <2>1. \A d \in DOMAIN runs : d \in AdviceWords
    BY DEF AdviceWords
  <2>2. "no counters" \in AdviceWords /\ "no shader debugging" \in AdviceWords
    BY DEF AdviceWords, GapWords
  <2> QED
    BY <2>1, <2>2 DEF GapRows, RowsAt, PlacedRow
<1>4. IsFiniteSet(all)
  <2>1. IsFiniteSet(RowsAt(1, 1) \cup RowsAt(2, 1)) /\ IsFiniteSet(RowsAt(3, 1) \cup RowsAt(3, 2))
    BY RowsAtFinite, FS_Union
  <2>2. IsFiniteSet((RowsAt(1, 1) \cup RowsAt(2, 1)) \cup (RowsAt(3, 1) \cup RowsAt(3, 2)))
    BY <2>1, FS_Union
  <2> QED
    BY <2>2, RowsAtFinite, FS_Union
<1>5. \A row \in all : row.severity \in 1..3 /\ row.kind \in 1..3
  BY DEF RowsAt, PlacedRow
<1>6. rows \subseteq all
  BY <1>1, <1>2, <1>3 DEF AdviceRows
<1> HIDE DEF all, P, R, rows
<1>7. ArePlaced(rows)
  BY <1>4, <1>5, <1>6, FS_Subset DEF ArePlaced
<1> QED
  BY <1>7 DEF rows, P, R

\* The rows of a document: its findings', its gaps', and what the list shows of them.
LEMMA DocumentAdvises ==
    ASSUME NEW bundle, NEW n \in Nat, DOMAIN bundle.events = 1..n
    PROVE  \E rows :
             /\ ArePlaced(rows) /\ Document_(bundle).recommendations = Advice(rows)
             /\ \A f \in Document_(bundle).flags : PlacedRow(SeverityOf(f.detector), 1, f.detector) \in rows
             /\ \A d \in Detectors_ : WhyNot(bundle, d) # "" => PlacedRow(3, 3, d) \in rows
<1> DEFINE doc == Document_(bundle)
           S == PassesIn(bundle)
           runs == AllOf(bundle).runs
           P == NotablePasses(bundle, S)
           R == NotableResources(bundle)
           rows == AdviceRows(bundle, doc.flags, runs, P, R)
<1>1. runs = [d \in Detectors_ |-> WhyNot(bundle, d)]
  BY AllCarries DEF AllOf
<1>2. \A f \in doc.flags : f.detector \in Detectors_
  <2>1. Carries(doc.flags, bundle, S)
    BY DocumentCarries
  <2> QED
    BY <2>1 DEF Carries, Ran
<1>3. ArePlaced(rows)
  <2>1. DOMAIN runs = Detectors_
    BY <1>1
  <2> HIDE DEF runs, doc, S
  <2> QED
    BY <1>2, <2>1, AdvicePlaced
<1>4. doc.recommendations = Advice(rows)
  BY DocumentIs_, AdviceDef
<1>5. \A f \in doc.flags : PlacedRow(SeverityOf(f.detector), 1, f.detector) \in rows
  BY DEF AdviceRows, FindingRows, PlacedRow
<1>6. \A d \in Detectors_ : WhyNot(bundle, d) # "" => PlacedRow(3, 3, d) \in rows
  BY <1>1 DEF AdviceRows, GapRows, PlacedRow
<1> QED
  BY <1>3, <1>4, <1>5, <1>6

LEMMA GapsTold ==
    ASSUME NEW bundle, NEW n \in Nat, DOMAIN bundle.events = 1..n
    PROVE  GapsAreTold(Document_(bundle)) /\ WorstComeFirst(Document_(bundle))
<1> DEFINE doc == Document_(bundle)
<1>1. PICK rows :
        /\ ArePlaced(rows) /\ doc.recommendations = Advice(rows)
        /\ \A f \in doc.flags : PlacedRow(SeverityOf(f.detector), 1, f.detector) \in rows
        /\ \A d \in Detectors_ : WhyNot(bundle, d) # "" => PlacedRow(3, 3, d) \in rows
  BY DocumentAdvises
<1> DEFINE shown == Range(doc.recommendations)
<1>2. /\ shown \subseteq rows
      /\ \/ shown = rows
         \/ IsFull(doc) /\ \A x \in rows \ shown, y \in shown : RankOf(y) <= RankOf(x)
  <2>1. /\ Range(Advice(rows)) \subseteq rows
        /\ \/ Range(Advice(rows)) = rows
           \/ /\ Len(Advice(rows)) = RecommendationLimit
              /\ \A x \in rows \ Range(Advice(rows)), y \in Range(Advice(rows)) : RankOf(y) <= RankOf(x)
    BY <1>1, AdviceIs
  <2> HIDE DEF doc
  <2> QED
    BY <1>1, <2>1 DEF IsFull
<1>3. \A d : Advises(doc, d) <=> \E row \in shown : row.do = d
  BY DEF Advises
<1>4. doc.detectors = [d \in Detectors_ |-> WhyNot(bundle, d)]
  BY DocumentIs_, AllCarries DEF AllOf
<1>5. ASSUME NEW d \in Detectors_, doc.detectors[d] # ""
      PROVE  FlagsOf(doc, d) = {} /\ (IsFull(doc) \/ Advises(doc, d))
  <2>1. WhyNot(bundle, d) # ""
    BY <1>4, <1>5
  <2>2. FlagsOf(doc, d) = {}
    BY <2>1, NamesAre DEF Ran
  <2>3. PlacedRow(3, 3, d) \in rows /\ PlacedRow(3, 3, d).do = d
    BY <1>1, <2>1 DEF PlacedRow
  <2> HIDE DEF shown, doc
  <2> QED
    BY <1>2, <1>3, <2>2, <2>3
<1>6. ASSUME NEW f \in doc.flags, SeverityOf(f.detector) = 1
      PROVE  \/ Advises(doc, f.detector)
             \/ IsFull(doc) /\ \A row \in shown : row.severity = 1
  <2> DEFINE x == PlacedRow(1, 1, f.detector)
  <2>1. x \in rows /\ x.do = f.detector /\ RankOf(x) = 4
    <3>1. x \in rows
      BY <1>1, <1>6
    <3>2. x.do = f.detector /\ x.severity = 1 /\ x.kind = 1
      BY DEF PlacedRow
    <3> HIDE DEF x
    <3> QED
      BY <3>1, <3>2 DEF RankOf
  <2>2. CASE x \in shown
    BY <1>3, <2>1, <2>2
  <2>3. CASE x \notin shown
    <3>1. IsFull(doc) /\ \A y \in shown : RankOf(y) <= 4
      <4> HIDE DEF shown, x, doc
      <4> QED
        BY <1>2, <2>1, <2>3
    <3>2. \A y \in shown : y.severity \in 1..3 /\ y.kind \in 1..3
      <4> HIDE DEF shown, x, doc
      <4> QED
        BY <1>1, <1>2 DEF ArePlaced
    <3> HIDE DEF shown, doc
    <3>3. \A y \in shown : y.severity = 1
      BY <3>1, <3>2 DEF RankOf
    <3> QED
      BY <3>1, <3>3
  <2> QED
    BY <2>2, <2>3
<1>7. GapsAreTold(doc)
  BY <1>5 DEF GapsAreTold
<1>8. WorstComeFirst(doc)
  BY <1>6 DEF WorstComeFirst
<1> QED
  BY <1>7, <1>8

(***************************************************************************)
(* A draw that cannot be on the screen: what its boxes say, each vertex    *)
(* says of itself.                                                         *)
(***************************************************************************)
LEMMA IntEnds ==
    ASSUME NEW S \in SUBSET Int, IsFiniteSet(S), S # {}
    PROVE  /\ Min(S) \in S /\ Max(S) \in S
           /\ \A y \in S : Min(S) <= y /\ y <= Max(S)
<1> DEFINE size == [x \in S |-> IF x < 0 THEN -x ELSE x]
           sizes == {size[x] : x \in S}
<1>1. sizes \in SUBSET Nat /\ IsFiniteSet(sizes)
  <2>1. size \in Surjection(S, sizes)
    BY DEF Surjection
  <2> QED
    BY <2>1, FS_Surjection
<1>2. PICK k \in Nat : \A z \in sizes : z <= k
  <2> HIDE DEF sizes
  <2>1. sizes # {} => Max(sizes) \in sizes /\ \A z \in sizes : z <= Max(sizes)
    BY <1>1, FiniteMax
  <2>2. CASE sizes = {}
    BY <2>2
  <2>3. CASE sizes # {}
    <3>1. Max(sizes) \in Nat
      BY <1>1, <2>1, <2>3
    <3> QED
      BY <2>1, <2>3, <3>1
  <2> QED
    BY <2>2, <2>3
<1>3. \A x \in S : x + k \in 0..(2 * k)
  <2> SUFFICES ASSUME NEW x \in S PROVE x + k \in 0..(2 * k)
    OBVIOUS
  <2>1. x \in Int /\ size[x] <= k
    BY <1>2
  <2> QED
    BY <2>1
<1> DEFINE T == {x + k : x \in S}
<1>4. T \in SUBSET (0..(2 * k)) /\ T # {} /\ T \in SUBSET Nat /\ 2 * k \in Nat
  <2>1. 2 * k \in Nat /\ T # {}
    <3>1. PICK x : x \in S
      OBVIOUS
    <3>2. x + k \in T
      BY <3>1
    <3> HIDE DEF T
    <3> QED
      BY <3>2
  <2>2. T \in SUBSET (0..(2 * k))
    BY <1>3
  <2> HIDE DEF T
  <2> QED
    BY <2>1, <2>2
<1>5. \A x \in S : x + k \in T
  OBVIOUS
<1>6. \A z \in T : z - k \in S /\ z \in Int
  BY <1>4
<1> HIDE DEF T, size, sizes
<1>7. Min(T) \in T /\ \A z \in T : Min(T) <= z
  BY <1>4, NatMinIs
<1>8. Max(T) \in T /\ \A z \in T : z <= Max(T)
  BY <1>4, NatMaxIs
<1>9. \E m \in S : \A y \in S : m <= y
  <2>1. Min(T) - k \in S /\ \A y \in S : Min(T) - k <= y
    BY <1>5, <1>6, <1>7
  <2> QED
    BY <2>1
<1>10. \E m \in S : \A y \in S : m >= y
  <2>1. Max(T) - k \in S /\ \A y \in S : Max(T) - k >= y
    BY <1>5, <1>6, <1>8
  <2> QED
    BY <2>1
<1>11. Min(S) \in S /\ \A y \in S : Min(S) <= y
  BY <1>9 DEF Min
<1>12. Max(S) \in S /\ \A y \in S : Max(S) >= y
  BY <1>10 DEF Max
<1> QED
  BY <1>11, <1>12

\* One axis of a box: `at` gives the place of each member of a finite set.
LEMMA AxisIs ==
    ASSUME NEW S, IsFiniteSet(S), S # {}, NEW at \in [S -> Int]
    PROVE  LET places == {at[v] : v \in S}
           IN  /\ Min(places) \in Int /\ Max(places) \in Int
               /\ \A v \in S : Min(places) <= at[v] /\ at[v] <= Max(places)
<1> DEFINE places == {at[v] : v \in S}
<1>1. places \in SUBSET Int /\ places # {} /\ IsFiniteSet(places)
  <2>1. at \in Surjection(S, places)
    BY DEF Surjection
  <2> QED
    BY <2>1, FS_Surjection
<1>2. \A v \in S : at[v] \in places
  OBVIOUS
<1> HIDE DEF places
<1>3. /\ Min(places) \in places /\ Max(places) \in places
      /\ \A y \in places : Min(places) <= y /\ y <= Max(places)
  BY <1>1, IntEnds
<1>4. Min(places) \in Int /\ Max(places) \in Int /\ \A v \in S : Min(places) <= at[v] /\ at[v] <= Max(places)
  BY <1>1, <1>2, <1>3
<1> QED
  BY <1>4 DEF places

Vertices(mesh) == Range(mesh.vertices)
IsPlaced(v) == v.x \in Int /\ v.y \in Int /\ v.z \in Int /\ v.w \in Int
FiniteOf(mesh) == {k \in DOMAIN mesh.vertices : mesh.vertices[k].finite}
SeenOf(mesh) == {k \in FiniteOf(mesh) : mesh.vertices[k].w > 0}
OnScreen(v) == [x |-> (2 * v.x) \div v.w, y |-> (2 * v.y) \div v.w, z |-> (2 * v.z) \div v.w]

LEMMA BoundsDef ==
    ASSUME NEW mesh
    PROVE  /\ BoundsOf(mesh).vertices = Len(mesh.vertices)
           /\ BoundsOf(mesh).finite = Cardinality(FiniteOf(mesh))
           /\ BoundsOf(mesh).projected = Cardinality(SeenOf(mesh))
           /\ FiniteOf(mesh) # {} =>
                BoundsOf(mesh).clip = Box({mesh.vertices[k] : k \in FiniteOf(mesh)}, {"x", "y", "z", "w"})
           /\ SeenOf(mesh) # {} =>
                BoundsOf(mesh).ndc = Box({OnScreen(mesh.vertices[k]) : k \in SeenOf(mesh)}, {"x", "y", "z"})
BY DEF BoundsOf, FiniteOf, SeenOf, OnScreen

\* Every vertex counted: the boxes are of them all.
LEMMA CountedAll ==
    ASSUME NEW mesh, mesh.vertices \in Seq(Vertices(mesh))
    PROVE  /\ Len(mesh.vertices) # 0 => Vertices(mesh) # {}
           /\ Cardinality(FiniteOf(mesh)) = Len(mesh.vertices) =>
                FiniteOf(mesh) = DOMAIN mesh.vertices /\ \A v \in Vertices(mesh) : v.finite
           /\ Cardinality(SeenOf(mesh)) = 0 => SeenOf(mesh) = {}
           /\ Cardinality(SeenOf(mesh)) = Cardinality(FiniteOf(mesh)) => SeenOf(mesh) = FiniteOf(mesh)
<1> DEFINE vs == mesh.vertices
           l == Len(vs)
<1>1. l \in Nat /\ DOMAIN vs = 1..l
  <2> DEFINE V == Vertices(mesh)
  <2>1. vs \in Seq(V)
    OBVIOUS
  <2> HIDE DEF vs, V
  <2> QED
    BY <2>1
<1>2. IsFiniteSet(1..l) /\ Cardinality(1..l) = l
  <2> HIDE DEF l
  <2>1. l \in Nat /\ l \in Int /\ 1 \in Int /\ l - 1 + 1 = l /\ (1 > l <=> l = 0)
    BY <1>1
  <2>2. IsFiniteSet(1..l) /\ Cardinality(1..l) = IF 1 > l THEN 0 ELSE l - 1 + 1
    BY <2>1, FS_Interval
  <2> QED
    BY <2>1, <2>2
<1>3. FiniteOf(mesh) \in SUBSET (1..l) /\ SeenOf(mesh) \in SUBSET FiniteOf(mesh)
  BY <1>1 DEF FiniteOf, SeenOf
<1> HIDE DEF l
<1>4. IsFiniteSet(FiniteOf(mesh)) /\ (Cardinality(FiniteOf(mesh)) = l => FiniteOf(mesh) = 1..l)
  BY <1>2, <1>3, FS_Subset
<1>5. IsFiniteSet(SeenOf(mesh)) /\ (Cardinality(SeenOf(mesh)) = Cardinality(FiniteOf(mesh)) => SeenOf(mesh) = FiniteOf(mesh))
  BY <1>3, <1>4, FS_Subset
<1>6. Cardinality(SeenOf(mesh)) = 0 => SeenOf(mesh) = {}
  BY <1>5, FS_EmptySet
<1>7. l # 0 => Vertices(mesh) # {}
  BY <1>1 DEF Vertices, Range
<1>8. FiniteOf(mesh) = DOMAIN vs => \A v \in Vertices(mesh) : v.finite
  BY DEF Vertices, Range, FiniteOf
<1> QED
  BY <1>1, <1>4, <1>5, <1>6, <1>7, <1>8 DEF l

LEMMA VerticesFinite ==
    ASSUME NEW mesh, mesh.vertices \in Seq(Vertices(mesh))
    PROVE  IsFiniteSet(Vertices(mesh)) /\ Vertices(mesh) = {mesh.vertices[k] : k \in DOMAIN mesh.vertices}
<1> DEFINE vs == mesh.vertices
           l == Len(vs)
           V == Vertices(mesh)
<1>1. l \in Nat /\ DOMAIN vs = 1..l /\ vs \in [1..l -> V]
  <2>1. vs \in Seq(V)
    OBVIOUS
  <2> HIDE DEF vs, V
  <2> QED
    BY <2>1
<1>2. V = {vs[k] : k \in DOMAIN vs}
  BY DEF Vertices, Range
<1>3. vs \in Surjection(1..l, V)
  BY <1>1, <1>2 DEF Surjection
<1> HIDE DEF vs, l, V
<1>4. IsFiniteSet(1..l)
  BY <1>1, FS_Interval
<1>5. IsFiniteSet(V)
  BY <1>3, <1>4, FS_Surjection
<1> QED
  BY <1>2, <1>5 DEF V, vs

LEMMA BoxIs ==
    ASSUME NEW S, IsFiniteSet(S), S # {}, NEW axes, NEW axis \in axes, \A v \in S : v[axis] \in Int
    PROVE  /\ Box(S, axes)[axis].min \in Int /\ Box(S, axes)[axis].max \in Int
           /\ \A v \in S : Box(S, axes)[axis].min <= v[axis] /\ v[axis] <= Box(S, axes)[axis].max
<1> DEFINE at == [v \in S |-> v[axis]]
           places == {at[v] : v \in S}
<1>1. at \in [S -> Int]
  OBVIOUS
<1>2. /\ Min(places) \in Int /\ Max(places) \in Int
      /\ \A v \in S : Min(places) <= at[v] /\ at[v] <= Max(places)
  <2> HIDE DEF at
  <2> QED
    BY <1>1, AxisIs
<1>3. places = {v[axis] : v \in S}
  OBVIOUS
<1>4. Box(S, axes)[axis].min = Min(places) /\ Box(S, axes)[axis].max = Max(places)
  BY <1>3 DEF Box
<1>5. \A v \in S : at[v] = v[axis]
  OBVIOUS
<1> HIDE DEF at, places
<1> QED
  BY <1>2, <1>4, <1>5

LEMMA PlaneBeyond ==
    ASSUME NEW V, IsFiniteSet(V), V # {}, \A v \in V : IsPlaced(v), OutsidePlane(Box(V, {"x", "y", "z", "w"}))
    PROVE  \/ \A v \in V : v.x < -v.w
           \/ \A v \in V : v.x > v.w
           \/ \A v \in V : v.y < -v.w
           \/ \A v \in V : v.y > v.w
           \/ \A v \in V : v.z < 0
           \/ \A v \in V : v.z > v.w
<1> DEFINE axes == {"x", "y", "z", "w"}
           box == Box(V, axes)
<1>1. \A axis \in axes : \A v \in V : v[axis] \in Int
  BY DEF IsPlaced
<1>2. \A axis \in axes : /\ box[axis].min \in Int /\ box[axis].max \in Int
                         /\ \A v \in V : box[axis].min <= v[axis] /\ v[axis] <= box[axis].max
  BY <1>1, BoxIs
<1>3. OutsidePlane(box)
  OBVIOUS
<1>4. "x" \in axes /\ "y" \in axes /\ "z" \in axes /\ "w" \in axes
  OBVIOUS
<1> HIDE DEF axes, box
<1> DEFINE x == box["x"]
           y == box["y"]
           z == box["z"]
           w == box["w"]
<1>5. /\ x.min \in Int /\ x.max \in Int /\ y.min \in Int /\ y.max \in Int /\ z.min \in Int /\ z.max \in Int
      /\ w.min \in Int /\ w.max \in Int
  BY <1>2, <1>4
<1>6. \A v \in V : /\ v.x \in Int /\ v.y \in Int /\ v.z \in Int /\ v.w \in Int
                   /\ x.min <= v.x /\ v.x <= x.max /\ y.min <= v.y /\ v.y <= y.max
                   /\ z.min <= v.z /\ v.z <= z.max /\ v.w <= w.max
  BY <1>1, <1>2, <1>4
<1>7. \/ x.max + w.max < 0 \/ x.min - w.max > 0
      \/ y.max + w.max < 0 \/ y.min - w.max > 0
      \/ z.max < 0 \/ z.min - w.max > 0
  BY <1>3 DEF OutsidePlane
<1> HIDE DEF x, y, z, w
<1>8. CASE x.max + w.max < 0
  BY <1>5, <1>6, <1>8
<1>9. CASE x.min - w.max > 0
  BY <1>5, <1>6, <1>9
<1>10. CASE y.max + w.max < 0
  BY <1>5, <1>6, <1>10
<1>11. CASE y.min - w.max > 0
  BY <1>5, <1>6, <1>11
<1>12. CASE z.max < 0
  BY <1>5, <1>6, <1>12
<1>13. CASE z.min - w.max > 0
  BY <1>5, <1>6, <1>13
<1> QED
  BY <1>7, <1>8, <1>9, <1>10, <1>11, <1>12, <1>13

LEMMA Widens ==
    ASSUME NEW a \in Int, NEW b \in Int, a <= b, NEW w \in Nat
    PROVE  a * w \in Int /\ b * w \in Int /\ a * w <= b * w
<1>1. b - a \in Nat
  OBVIOUS
<1>2. (b - a) * w \in Nat /\ (b - a) * w = b * w - a * w /\ a * w \in Int /\ b * w \in Int
  BY <1>1
<1> QED
  BY <1>2

LEMMA Quotient ==
    ASSUME NEW a \in Int, NEW b \in Int, b > 0
    PROVE  a \div b \in Int
OBVIOUS

\* Whole places and extents, and no place before the target's own corner.
IsView(r) == r.x \in Int /\ r.y \in Int /\ r.w \in Nat /\ r.h \in Nat
IsTarget(r) == r.x = 0 /\ r.y = 0 /\ r.w \in Nat /\ r.h \in Nat
Across(v, view) == 4 * view.x + (((2 * v.x) \div v.w) + 2) * view.w
Down(v, view) == 4 * view.y + (2 - ((2 * v.y) \div v.w)) * view.h

LEMMA TargetBeyond ==
    ASSUME NEW V, IsFiniteSet(V), V # {}, \A v \in V : IsPlaced(v) /\ v.w > 0,
           NEW view, IsView(view), NEW rect, IsTarget(rect),
           OutsideRect(PixelBox(Box({OnScreen(v) : v \in V}, {"x", "y", "z"}), view), rect)
    PROVE  \/ \A v \in V : Across(v, view) <= 0
           \/ \A v \in V : Across(v, view) >= 4 * rect.w
           \/ \A v \in V : Down(v, view) <= 0
           \/ \A v \in V : Down(v, view) >= 4 * rect.h
<1> DEFINE axes == {"x", "y", "z"}
           S == {OnScreen(v) : v \in V}
           box == Box(S, axes)
           pixels == PixelBox(box, view)
           qx(v) == (2 * v.x) \div v.w
           qy(v) == (2 * v.y) \div v.w
<1>1. \A v \in V : qx(v) \in Int /\ qy(v) \in Int /\ (2 * v.z) \div v.w \in Int
  <2> SUFFICES ASSUME NEW v \in V PROVE qx(v) \in Int /\ qy(v) \in Int /\ (2 * v.z) \div v.w \in Int
    OBVIOUS
  <2>1. v.x \in Int /\ v.y \in Int /\ v.z \in Int /\ v.w \in Int /\ v.w > 0
    BY DEF IsPlaced
  <2>2. 2 * v.x \in Int /\ 2 * v.y \in Int /\ 2 * v.z \in Int
    BY <2>1
  <2> QED
    BY <2>1, <2>2, Quotient
<1>2. IsFiniteSet(S) /\ S # {}
  <2> DEFINE on == [v \in V |-> OnScreen(v)]
  <2>1. on \in Surjection(V, S)
    BY DEF Surjection
  <2> HIDE DEF on
  <2>2. IsFiniteSet(S)
    BY <2>1, FS_Surjection
  <2> QED
    BY <2>2
<1>3. \A axis \in axes : \A u \in S : u[axis] \in Int
  BY <1>1 DEF OnScreen
<1>4. \A axis \in axes : /\ box[axis].min \in Int /\ box[axis].max \in Int
                         /\ \A u \in S : box[axis].min <= u[axis] /\ u[axis] <= box[axis].max
  <2> HIDE DEF S, axes
  <2> QED
    BY <1>2, <1>3, BoxIs
<1>5. \A v \in V : OnScreen(v) \in S /\ OnScreen(v)["x"] = qx(v) /\ OnScreen(v)["y"] = qy(v)
  BY DEF OnScreen
<1>6. "x" \in axes /\ "y" \in axes
  OBVIOUS
<1>7. OutsideRect(pixels, rect)
  OBVIOUS
<1> HIDE DEF axes, S, box, qx, qy, pixels
<1> DEFINE x == box["x"]
           y == box["y"]
<1>8. /\ x.min \in Int /\ x.max \in Int /\ y.min \in Int /\ y.max \in Int
      /\ \A v \in V : x.min <= qx(v) /\ qx(v) <= x.max /\ y.min <= qy(v) /\ qy(v) <= y.max
  BY <1>4, <1>5, <1>6
<1>9. /\ pixels.left = 4 * view.x + (x.min + 2) * view.w /\ pixels.right = 4 * view.x + (x.max + 2) * view.w
      /\ pixels.top = 4 * view.y + (2 - y.max) * view.h /\ pixels.bottom = 4 * view.y + (2 - y.min) * view.h
  BY DEF pixels, PixelBox
<1> HIDE DEF x, y
<1>10. view.x \in Int /\ view.y \in Int /\ view.w \in Nat /\ view.h \in Nat
  BY DEF IsView
<1>11. ASSUME NEW v \in V
       PROVE  /\ pixels.left <= Across(v, view) /\ Across(v, view) <= pixels.right
              /\ pixels.top <= Down(v, view) /\ Down(v, view) <= pixels.bottom
              /\ pixels.left \in Int /\ pixels.right \in Int /\ pixels.top \in Int /\ pixels.bottom \in Int
              /\ Across(v, view) \in Int /\ Down(v, view) \in Int
  <2> DEFINE a == x.min + 2
             b == qx(v) + 2
             c == x.max + 2
             p == 2 - y.max
             q == 2 - qy(v)
             r == 2 - y.min
             w == view.w
             h == view.h
             wx == 4 * view.x
             wy == 4 * view.y
  <2>1. /\ a \in Int /\ b \in Int /\ c \in Int /\ a <= b /\ b <= c
        /\ p \in Int /\ q \in Int /\ r \in Int /\ p <= q /\ q <= r
    BY <1>1, <1>8
  <2>2. w \in Nat /\ h \in Nat /\ wx \in Int /\ wy \in Int
    BY <1>10
  <2>3. /\ pixels.left = wx + a * w /\ Across(v, view) = wx + b * w /\ pixels.right = wx + c * w
        /\ pixels.top = wy + p * h /\ Down(v, view) = wy + q * h /\ pixels.bottom = wy + r * h
    BY <1>9 DEF Across, Down, qx, qy
  <2> HIDE DEF a, b, c, p, q, r, w, h, wx, wy
  <2>4. a * w \in Int /\ b * w \in Int /\ c * w \in Int /\ a * w <= b * w /\ b * w <= c * w
    BY <2>1, <2>2, Widens
  <2>5. p * h \in Int /\ q * h \in Int /\ r * h \in Int /\ p * h <= q * h /\ q * h <= r * h
    BY <2>1, <2>2, Widens
  <2> DEFINE aw == a * w
             bw == b * w
             cw == c * w
             ph == p * h
             qh == q * h
             rh == r * h
  <2> HIDE DEF aw, bw, cw, ph, qh, rh
  <2>6. /\ aw \in Int /\ bw \in Int /\ cw \in Int /\ aw <= bw /\ bw <= cw
        /\ ph \in Int /\ qh \in Int /\ rh \in Int /\ ph <= qh /\ qh <= rh
    BY <2>4, <2>5 DEF aw, bw, cw, ph, qh, rh
  <2>7. /\ pixels.left = wx + aw /\ Across(v, view) = wx + bw /\ pixels.right = wx + cw
        /\ pixels.top = wy + ph /\ Down(v, view) = wy + qh /\ pixels.bottom = wy + rh
    BY <2>3 DEF aw, bw, cw, ph, qh, rh
  <2> QED
    BY <2>2, <2>6, <2>7
<1>12. rect.x = 0 /\ rect.y = 0 /\ rect.w \in Nat /\ rect.h \in Nat
  BY DEF IsTarget
<1>13. \/ pixels.right <= 0 \/ pixels.left >= 4 * rect.w
       \/ pixels.bottom <= 0 \/ pixels.top >= 4 * rect.h
  BY <1>7, <1>12 DEF OutsideRect
<1>14. CASE pixels.right <= 0
  BY <1>11, <1>14
<1>15. CASE pixels.left >= 4 * rect.w
  BY <1>11, <1>12, <1>15
<1>16. CASE pixels.bottom <= 0
  BY <1>11, <1>16
<1>17. CASE pixels.top >= 4 * rect.h
  BY <1>11, <1>12, <1>17
<1> QED
  BY <1>13, <1>14, <1>15, <1>16, <1>17

AreEvents(bundle, n) == DOMAIN bundle.events = 1..n /\ \A i \in 1..n : bundle.events[i] \in ReportEvents

LEMMA ViewIs ==
    ASSUME NEW bundle, NEW n \in Nat, AreEvents(bundle, n), NEW i, RectsInForce(bundle, i, "viewports") # <<>>
    PROVE  IsView(RectsInForce(bundle, i, "viewports")[1])
<1> DEFINE before == {j \in Documented_(bundle) : j <= i}
           doc == DocOf(bundle, Max(before))
           rects == IF before = {} THEN <<>> ELSE DocOf(bundle, Max(before))["viewports"]
           usable == {k \in DOMAIN rects : rects[k].on /\ rects[k].w > 0 /\ rects[k].h > 0}
           rect == rects[Min(usable)]
           found == RectsInForce(bundle, i, "viewports")
<1>1. found = IF usable = {} THEN <<>> ELSE <<[x |-> rect.x, y |-> rect.y, w |-> rect.w, h |-> rect.h]>>
  BY DEF RectsInForce
<1>2. usable # {}
  BY <1>1
<1>3. before # {}
  <2> SUFFICES ASSUME before = {} PROVE FALSE
    OBVIOUS
  <2>1. rects = <<>>
    OBVIOUS
  <2> HIDE DEF rects, before
  <2>2. usable = {}
    BY <2>1
  <2> QED
    BY <1>2, <2>2
<1>4. before \in SUBSET (1..n)
  BY DEF Documented_, AreEvents
<1> HIDE DEF before
<1>5. Max(before) \in before
  <2>1. before \in SUBSET (0..n)
    BY <1>4
  <2> QED
    BY <1>3, <2>1, NatMaxIs
<1>6. doc.there /\ rects = doc.viewports /\ \E e \in ReportEvents : doc = e.doc
  <2>1. Max(before) \in Documented_(bundle) /\ Max(before) \in 1..n
    BY <1>4, <1>5 DEF before
  <2> QED
    BY <1>3, <2>1 DEF Documented_, DocOf, AreEvents
<1> HIDE DEF doc
<1>7. doc.viewports \in Seq(Range(doc.viewports))
      /\ \A r \in Range(doc.viewports) : r.x \in Int /\ r.y \in Int /\ r.w \in Int /\ r.h \in Int
  BY <1>6, ReportAssumption
<1> HIDE DEF rects
<1>8. /\ rects \in Seq(Range(rects))
      /\ \A r \in Range(rects) : r.x \in Int /\ r.y \in Int /\ r.w \in Int /\ r.h \in Int
  BY <1>6, <1>7
<1>9. usable \in SUBSET Nat /\ \A k \in usable : rects[k] \in Range(rects) /\ rects[k].w > 0 /\ rects[k].h > 0
  BY <1>8 DEF Range
<1> HIDE DEF usable
<1>10. Min(usable) \in usable
  BY <1>2, <1>9, NatMinIs
<1>11. rect.x \in Int /\ rect.y \in Int /\ rect.w \in Int /\ rect.h \in Int /\ rect.w > 0 /\ rect.h > 0
  BY <1>8, <1>9, <1>10
<1> HIDE DEF rect
<1>12. found[1] = [x |-> rect.x, y |-> rect.y, w |-> rect.w, h |-> rect.h]
  BY <1>1, <1>2
<1> HIDE DEF found
<1>13. IsView(found[1])
  BY <1>11, <1>12 DEF IsView
<1> QED
  BY <1>13 DEF found

LEMMA WidestIs ==
    ASSUME NEW S \in SUBSET DOMAIN Inventory, NEW side \in {"width", "height"}
    PROVE  Max({0} \cup {Inventory[r][side] : r \in S}) \in Nat
<1> DEFINE sides == {Inventory[r][side] : r \in S}
           all == {0} \cup sides
           size == [r \in S |-> Inventory[r][side]]
<1>1. IsFiniteSet(S) /\ \A r \in S : Inventory[r][side] \in Nat
  BY DetectorsAssumption, FS_Subset
<1>2. size \in Surjection(S, sides)
  BY DEF Surjection
<1>3. all \in SUBSET Nat
  BY <1>1
<1> HIDE DEF size, sides
<1>4. IsFiniteSet(sides) /\ IsFiniteSet({0})
  BY <1>1, <1>2, FS_Surjection, FS_Singleton
<1>5. IsFiniteSet(all)
  BY <1>4, FS_Union
<1>6. all # {}
  OBVIOUS
<1> HIDE DEF all
<1>7. Max(all) \in all
  BY <1>3, <1>5, <1>6, FiniteMax
<1>8. Max(all) \in Nat
  BY <1>3, <1>7
<1> QED
  BY <1>8 DEF all, sides

LEMMA TargetIs ==
    ASSUME NEW bundle, NEW i
    PROVE  IsTarget(TargetRect(bundle, i))
<1> DEFINE event == bundle.events[i]
           sized(S) == [x |-> 0, y |-> 0, w |-> Max({0} \cup {Inventory[r].width : r \in S}),
                        h |-> Max({0} \cup {Inventory[r].height : r \in S})]
           C == Range(event.targets) \cap DOMAIN Inventory
           D == {r \in DOMAIN Inventory \cap {event.depth} : Inventory[r].kind = "texture"}
<1>1. ASSUME NEW S \in SUBSET DOMAIN Inventory PROVE IsTarget(sized(S))
  <2>1. Max({0} \cup {Inventory[r]["width"] : r \in S}) \in Nat /\ Max({0} \cup {Inventory[r]["height"] : r \in S}) \in Nat
    BY WidestIs
  <2> QED
    BY <2>1 DEF IsTarget
<1>2. TargetRect(bundle, i) = IF sized(C).w > 0 /\ sized(C).h > 0 THEN sized(C) ELSE sized(D)
  BY DEF TargetRect
<1>3. IsTarget(sized(C)) /\ IsTarget(sized(D))
  <2>1. C \in SUBSET DOMAIN Inventory /\ D \in SUBSET DOMAIN Inventory
    OBVIOUS
  <2> HIDE DEF C, D, sized
  <2> QED
    BY <1>1, <2>1
<1> HIDE DEF C, D, sized
<1> QED
  BY <1>2, <1>3

ViewOf(i) ==
    IF RectsInForce(report, i, "viewports") = <<>> THEN TargetRect(report, i)
    ELSE RectsInForce(report, i, "viewports")[1]
MeshOf(i) == report.events[i].mesh

\* What each verdict of a draw needs.
LEMMA OffscreenNeeds ==
    ASSUME NEW i, NEW how \in {"behind", "plane", "target"}, Offscreen(report, i) = how
    PROVE  /\ BoundsOf(MeshOf(i)).vertices # 0 /\ BoundsOf(MeshOf(i)).finite = BoundsOf(MeshOf(i)).vertices
           /\ \/ BoundsOf(MeshOf(i)).projected = 0
              \/ OutsidePlane(BoundsOf(MeshOf(i)).clip)
              \/ /\ BoundsOf(MeshOf(i)).projected = BoundsOf(MeshOf(i)).finite
                 /\ OutsideRect(PixelBox(BoundsOf(MeshOf(i)).ndc, ViewOf(i)), TargetRect(report, i))
<1> DEFINE bounds == BoundsOf(MeshOf(i))
           target == TargetRect(report, i)
           viewport == RectsInForce(report, i, "viewports")
           box == PixelBox(bounds.ndc, ViewOf(i))
           clips == viewport \o RectsInForce(report, i, "scissors")
           out == OutsidePlane(bounds.clip)
           off == OutsideRect(box, target)
           clipped == \E k \in DOMAIN clips : OutsideRect(box, clips[k])
<1>1. Offscreen(report, i) =
        CASE bounds.vertices = 0 \/ bounds.finite # bounds.vertices -> "on"
          [] bounds.vertices # 0 /\ bounds.finite = bounds.vertices /\ bounds.projected = 0 -> "behind"
          [] bounds.vertices # 0 /\ bounds.finite = bounds.vertices /\ bounds.projected # 0 /\ out -> "plane"
          [] OTHER -> IF bounds.projected # bounds.finite \/ target.w = 0 \/ target.h = 0 THEN "on"
                      ELSE IF off THEN "target"
                      ELSE IF clipped THEN "clipped" ELSE "on"
  BY DEF Offscreen, ViewOf, MeshOf
<1> HIDE DEF bounds, target, viewport, box, clips, out, off, clipped
<1>2. CASE bounds.vertices = 0 \/ bounds.finite # bounds.vertices
  <2>1. Offscreen(report, i) = "on"
    BY <1>1, <1>2
  <2> QED
    BY <2>1
<1>3. CASE bounds.vertices # 0 /\ bounds.finite = bounds.vertices
  <2>1. bounds.projected = 0 \/ out \/ (bounds.projected = bounds.finite /\ off)
    BY <1>1, <1>3
  <2> QED
    BY <1>3, <2>1 DEF bounds, target, box, out, off
<1> QED
  BY <1>2, <1>3

LEMMA OffscreenBeyond ==
    ASSUME NEW n \in Nat, AreEvents(report, n), NEW i \in 1..n, MeshOf(i).there,
           NEW how \in {"behind", "plane", "target"}, Offscreen(report, i) = how
    PROVE  IsBeyond(i)
<1> DEFINE mesh == MeshOf(i)
           V == Vertices(mesh)
           bounds == BoundsOf(mesh)
           F == FiniteOf(mesh)
           N == SeenOf(mesh)
           vs == mesh.vertices
           rect == TargetRect(report, i)
           view == ViewOf(i)
<1>1. vs \in Seq(V) /\ \A v \in V : IsPlaced(v)
  <2>1. \E e \in ReportEvents : mesh = e.mesh /\ e.mesh.there
    BY DEF AreEvents, MeshOf
  <2> HIDE DEF mesh
  <2> QED
    BY <2>1, ReportAssumption DEF Vertices, IsPlaced
<1>2. /\ bounds.vertices # 0 /\ bounds.finite = bounds.vertices
      /\ bounds.projected = 0 \/ OutsidePlane(bounds.clip)
           \/ (bounds.projected = bounds.finite /\ OutsideRect(PixelBox(bounds.ndc, view), rect))
  BY OffscreenNeeds
<1>3. /\ bounds.vertices = Len(vs) /\ bounds.finite = Cardinality(F) /\ bounds.projected = Cardinality(N)
      /\ F # {} => bounds.clip = Box({vs[k] : k \in F}, {"x", "y", "z", "w"})
      /\ N # {} => bounds.ndc = Box({OnScreen(vs[k]) : k \in N}, {"x", "y", "z"})
  BY BoundsDef
<1>4. /\ Len(vs) # 0 => V # {}
      /\ Cardinality(F) = Len(vs) => F = DOMAIN vs /\ \A v \in V : v.finite
      /\ Cardinality(N) = 0 => N = {}
      /\ Cardinality(N) = Cardinality(F) => N = F
  BY <1>1, CountedAll
<1>5. IsFiniteSet(V) /\ V = {vs[k] : k \in DOMAIN vs}
  BY <1>1, VerticesFinite
<1>6. N = {k \in F : vs[k].w > 0}
  BY DEF SeenOf
<1>7. IsTarget(rect) /\ IsView(view)
  <2>1. IsTarget(rect)
    BY TargetIs
  <2>2. CASE RectsInForce(report, i, "viewports") = <<>>
    <3>1. view = rect
      BY <2>2 DEF ViewOf
    <3> QED
      BY <2>1, <3>1 DEF IsTarget, IsView
  <2>3. CASE RectsInForce(report, i, "viewports") # <<>>
    <3>1. view = RectsInForce(report, i, "viewports")[1]
      BY <2>3 DEF ViewOf
    <3> QED
      BY <2>1, <2>3, <3>1, ViewIs
  <2> QED
    BY <2>2, <2>3
<1>8. V = Range(report.events[i].mesh.vertices)
  BY DEF Vertices, MeshOf
<1> HIDE DEF mesh, V, bounds, F, N, vs, rect, view
<1>9. V # {} /\ F = DOMAIN vs /\ \A v \in V : v.finite
  BY <1>2, <1>3, <1>4
<1>10. {vs[k] : k \in F} = V
  BY <1>5, <1>9
<1>11. \/ \A v \in V : v.w <= 0
       \/ \A v \in V : v.x < -v.w
       \/ \A v \in V : v.x > v.w
       \/ \A v \in V : v.y < -v.w
       \/ \A v \in V : v.y > v.w
       \/ \A v \in V : v.z < 0
       \/ \A v \in V : v.z > v.w
       \/ /\ \A v \in V : v.w > 0
          /\ \/ \A v \in V : Across(v, view) <= 0
             \/ \A v \in V : Across(v, view) >= 4 * rect.w
             \/ \A v \in V : Down(v, view) <= 0
             \/ \A v \in V : Down(v, view) >= 4 * rect.h
  <2>1. CASE bounds.projected = 0
    <3>1. N = {}
      BY <1>3, <1>4, <2>1
    <3>2. \A v \in V : ~(v.w > 0) /\ v.w \in Int
      BY <1>1, <1>5, <1>6, <1>9, <3>1 DEF IsPlaced
    <3>3. \A v \in V : v.w <= 0
      BY <3>2
    <3> QED
      BY <3>3
  <2>2. CASE OutsidePlane(bounds.clip)
    <3>1. F # {}
      BY <1>9, <1>10
    <3>2. OutsidePlane(Box(V, {"x", "y", "z", "w"}))
      BY <1>3, <1>10, <2>2, <3>1
    <3> QED
      BY <1>1, <1>5, <1>9, <3>2, PlaneBeyond
  <2>3. CASE bounds.projected = bounds.finite /\ OutsideRect(PixelBox(bounds.ndc, view), rect)
    <3>1. N = F
      BY <1>3, <1>4, <2>3
    <3>2. \A v \in V : v.w > 0
      BY <1>6, <1>10, <3>1
    <3>3. N # {}
      BY <1>9, <1>10, <3>1
    <3>4. {OnScreen(vs[k]) : k \in N} = {OnScreen(v) : v \in V}
      BY <1>10, <3>1
    <3>5. OutsideRect(PixelBox(Box({OnScreen(v) : v \in V}, {"x", "y", "z"}), view), rect)
      BY <1>3, <2>3, <3>3, <3>4
    <3>6. \A v \in V : IsPlaced(v) /\ v.w > 0
      BY <1>1, <3>2
    <3>7. \/ \A v \in V : Across(v, view) <= 0
          \/ \A v \in V : Across(v, view) >= 4 * rect.w
          \/ \A v \in V : Down(v, view) <= 0
          \/ \A v \in V : Down(v, view) >= 4 * rect.h
      BY <1>5, <1>7, <1>9, <3>5, <3>6, TargetBeyond
    <3> QED
      BY <3>2, <3>7
  <2> QED
    BY <1>2, <2>1, <2>2, <2>3
<1>12. IsBeyond(i) <=>
         /\ V # {} /\ \A v \in V : v.finite
         /\ \/ \A v \in V : v.w <= 0
            \/ \A v \in V : v.x < -v.w
            \/ \A v \in V : v.x > v.w
            \/ \A v \in V : v.y < -v.w
            \/ \A v \in V : v.y > v.w
            \/ \A v \in V : v.z < 0
            \/ \A v \in V : v.z > v.w
            \/ /\ \A v \in V : v.w > 0
               /\ \/ \A v \in V : Across(v, view) <= 0
                  \/ \A v \in V : Across(v, view) >= 4 * rect.w
                  \/ \A v \in V : Down(v, view) <= 0
                  \/ \A v \in V : Down(v, view) >= 4 * rect.h
  BY <1>8 DEF IsBeyond, Across, Down, view, rect, ViewOf
<1> QED
  BY <1>9, <1>11, <1>12

\* The flags of a draw off screen, and the draws their lines are about.
LEMMA OffscreenNames ==
    ASSUME NEW verdicts, DOMAIN verdicts \in SUBSET Nat, IsFiniteSet(DOMAIN verdicts),
           NEW f \in OffscreenFlags(verdicts), f.certainty = "certain"
    PROVE  \A i \in Named(f.evidence, "eid") : i \in DOMAIN verdicts /\ verdicts[i] \in {"behind", "plane", "target"}
<1> DEFINE of(how, certainty) ==
             OneFlag("geometry-offscreen", how, {i \in DOMAIN verdicts : verdicts[i] = how}, "eid", certainty)
<1>1. f \in of("behind", "certain") \cup of("plane", "certain") \cup of("target", "certain") \cup of("clipped", "question")
  BY DEF OffscreenFlags
<1>2. ASSUME NEW how, NEW certainty, f \in of(how, certainty)
      PROVE  f.certainty = certainty /\ \A i \in Named(f.evidence, "eid") : i \in DOMAIN verdicts /\ verdicts[i] = how
  <2> DEFINE S == {i \in DOMAIN verdicts : verdicts[i] = how}
  <2>1. S \in SUBSET Nat /\ IsFiniteSet(S)
    <3>1. S \in SUBSET DOMAIN verdicts
      OBVIOUS
    <3> HIDE DEF S
    <3> QED
      BY <3>1, FS_Subset
  <2>2. f \in OneFlag("geometry-offscreen", how, S, "eid", certainty)
    BY <1>2
  <2> HIDE DEF S
  <2>3. PICK U \in SUBSET S : IsGroup(f, "geometry-offscreen", how, U, "eid", certainty)
    BY <2>1, <2>2, OneFlagIs
  <2>4. f.certainty = certainty /\ Named(f.evidence, "eid") \subseteq S
    BY <2>3 DEF IsGroup
  <2> QED
    BY <2>4 DEF S
<1> HIDE DEF of
<1>3. f \notin of("clipped", "question")
  BY <1>2
<1> QED
  BY <1>1, <1>2, <1>3

LEMMA BeyondCertain ==
    ASSUME NEW n \in Nat, AreEvents(report, n)
    PROVE  CertainIsBeyond(Document_(report))
<1> DEFINE doc == Document_(report)
           d == "geometry-offscreen"
           drawn == {i \in DOMAIN report.events : report.events[i].kind # "compute" /\ report.events[i].mesh.there}
           verdicts == [i \in drawn |-> Offscreen(report, i)]
<1>1. DOMAIN report.events = 1..n
  BY DEF AreEvents
<1>2. Carries(doc.flags, report, PassesIn(report))
  BY <1>1, DocumentCarries
<1>3. Found(report, d, PassesIn(report)) = OffscreenFlags(verdicts)
  BY FoundAre DEF DetectGeometryOffscreen
<1>4. DOMAIN verdicts \in SUBSET Nat /\ IsFiniteSet(DOMAIN verdicts) /\ DOMAIN verdicts = drawn
  <2>1. drawn \in SUBSET (1..n) /\ IsFiniteSet(1..n)
    BY <1>1, FS_Interval
  <2>2. drawn \in SUBSET Nat
    BY <2>1
  <2>3. DOMAIN verdicts = drawn
    OBVIOUS
  <2> HIDE DEF drawn, verdicts
  <2> QED
    BY <2>1, <2>2, <2>3, FS_Subset
<1>5. ASSUME NEW f \in FlagsOf(doc, d), f.certainty = "certain", NEW line \in Range(f.evidence), NEW m \in line, m[1] = "eid"
      PROVE  IsBeyond(m[2])
  <2>1. f \in doc.flags /\ f.detector = d
    BY <1>5 DEF FlagsOf
  <2>2. PICK g \in Found(report, d, PassesIn(report)) : Follows(f, g)
    <3> HIDE DEF doc, d
    <3> QED
      BY <1>2, <2>1 DEF Carries
  <2>3. g \in OffscreenFlags(verdicts) /\ g.certainty = "certain"
    BY <1>3, <1>5, <2>2 DEF Follows
  <2>4. Named(g.evidence, "eid") = Named(f.evidence, "eid")
    BY <2>2 DEF Follows
  <2>5. m[2] \in Named(f.evidence, "eid")
    BY <1>5 DEF Named
  <2> DEFINE i == m[2]
  <2>6. i \in DOMAIN verdicts /\ verdicts[i] \in {"behind", "plane", "target"}
    <3> HIDE DEF verdicts, i
    <3>1. \A j \in Named(g.evidence, "eid") : j \in DOMAIN verdicts /\ verdicts[j] \in {"behind", "plane", "target"}
      BY <1>4, <2>3, OffscreenNames
    <3> QED
      BY <2>4, <2>5, <3>1 DEF i
  <2> HIDE DEF i
  <2>7. i \in 1..n /\ MeshOf(i).there /\ Offscreen(report, i) \in {"behind", "plane", "target"}
    BY <1>1, <2>6 DEF MeshOf
  <2>8. IsBeyond(i)
    BY <2>7, OffscreenBeyond
  <2> QED
    BY <2>8 DEF i
<1>6. CertainIsBeyond(doc)
  BY <1>5 DEF CertainIsBeyond
<1> QED
  BY <1>6

(***************************************************************************)
(* The draws outside any marker: the walk of the open markers leaves as    *)
(* many as the nesting is deep, and a draw nothing is open around is the   *)
(* one no scope holds.                                                     *)
(***************************************************************************)
Walks == [open : Seq(Nat), extra : SUBSET Nat, bare : SUBSET Nat]
Unmarked == [open |-> <<>>, extra |-> {}, bare |-> {}]
Marked(s, acc, i) ==
    CASE s[i].op = "push" -> [acc EXCEPT !.open = Append(@, i)]
      [] s[i].op = "pop" /\ acc.open # <<>> -> [acc EXCEPT !.open = SubSeq(@, 1, Len(@) - 1)]
      [] s[i].op = "pop" /\ acc.open = <<>> -> [acc EXCEPT !.extra = @ \cup {i}]
      [] s[i].op = "draw" /\ acc.open = <<>> -> [acc EXCEPT !.bare = @ \cup {i}]
      [] OTHER -> acc
MarkedFrom(f, s) ==
    [t \in SUBSET DOMAIN Ids(s) |->
        IF t = {} THEN Unmarked
        ELSE LET x == Max(t) IN Marked(s, f[t \ {x}], Ids(s)[x])]

LEMMA MarkedDef == MarkerDepths = (CHOOSE f : f = MarkedFrom(f, stream))[DOMAIN Ids(stream)]
BY DEF MarkerDepths, FoldLeft, MapThenFoldSet, MarkedFrom, Marked, Unmarked, Ids

LEMMA OpenOrNot ==
    ASSUME NEW open \in Seq(Nat)
    PROVE  /\ Len(open) \in Nat /\ (open = <<>> <=> Len(open) = 0)
           /\ \A i \in Nat : Append(open, i) \in Seq(Nat) /\ Len(Append(open, i)) = Len(open) + 1
           /\ open # <<>> => /\ SubSeq(open, 1, Len(open) - 1) \in Seq(Nat)
                             /\ Len(SubSeq(open, 1, Len(open) - 1)) = Len(open) - 1
<1>1. Len(open) \in Nat /\ (open = <<>> <=> Len(open) = 0)
  OBVIOUS
<1>2. ASSUME NEW i \in Nat PROVE Append(open, i) \in Seq(Nat) /\ Len(Append(open, i)) = Len(open) + 1
  OBVIOUS
<1>3. ASSUME open # <<>>
      PROVE  SubSeq(open, 1, Len(open) - 1) \in Seq(Nat) /\ Len(SubSeq(open, 1, Len(open) - 1)) = Len(open) - 1
  <2> DEFINE m == Len(open) - 1
  <2>1. m \in Nat /\ m <= Len(open)
    BY <1>1, <1>3
  <2> HIDE DEF m
  <2>2. SubSeq(open, 1, m) \in Seq(Nat) /\ Len(SubSeq(open, 1, m)) = m
    BY <2>1
  <2> QED
    BY <2>2 DEF m
<1> QED
  BY <1>1, <1>2, <1>3

\* One chunk: how many are open after it, and whether it is a draw nothing is open around.
LEMMA MarkedIs ==
    ASSUME NEW s, NEW acc \in Walks, NEW i \in Nat
    PROVE  /\ Marked(s, acc, i) \in Walks
           /\ Len(Marked(s, acc, i).open) = Deeper(s[i], Len(acc.open))
           /\ Marked(s, acc, i).bare = acc.bare \cup (IF s[i].op = "draw" /\ Len(acc.open) = 0 THEN {i} ELSE {})
<1> DEFINE open == acc.open
           d == Len(open)
           to == Marked(s, acc, i)
           op == s[i].op
<1>1. open \in Seq(Nat) /\ acc = [open |-> open, extra |-> acc.extra, bare |-> acc.bare]
      /\ acc.extra \in SUBSET Nat /\ acc.bare \in SUBSET Nat
  BY DEF Walks
<1>2. d \in Nat /\ (open = <<>> <=> d = 0)
  BY <1>1, OpenOrNot
<1>3. /\ Append(open, i) \in Seq(Nat) /\ Len(Append(open, i)) = d + 1
      /\ open # <<>> => SubSeq(open, 1, d - 1) \in Seq(Nat) /\ Len(SubSeq(open, 1, d - 1)) = d - 1
  BY <1>1, OpenOrNot
<1>4. CASE op = "push"
  <2>1. to = [open |-> Append(open, i), extra |-> acc.extra, bare |-> acc.bare]
    BY <1>1, <1>4 DEF Marked
  <2>2. Deeper(s[i], d) = d + 1
    BY <1>4 DEF Deeper
  <2> QED
    BY <1>1, <1>3, <1>4, <2>1, <2>2 DEF Walks
<1>5. CASE op = "pop" /\ open # <<>>
  <2>1. to = [open |-> SubSeq(open, 1, d - 1), extra |-> acc.extra, bare |-> acc.bare]
    BY <1>1, <1>5 DEF Marked
  <2>2. Deeper(s[i], d) = d - 1
    BY <1>2, <1>5 DEF Deeper
  <2> QED
    BY <1>1, <1>3, <1>5, <2>1, <2>2 DEF Walks
<1>6. CASE op = "pop" /\ open = <<>>
  <2>1. to = [open |-> open, extra |-> acc.extra \cup {i}, bare |-> acc.bare]
    BY <1>1, <1>6 DEF Marked
  <2>2. Deeper(s[i], d) = d
    BY <1>2, <1>6 DEF Deeper
  <2> QED
    BY <1>1, <1>6, <2>1, <2>2 DEF Walks
<1>7. CASE op = "draw" /\ open = <<>>
  <2>1. to = [open |-> open, extra |-> acc.extra, bare |-> acc.bare \cup {i}]
    BY <1>1, <1>7 DEF Marked
  <2>2. Deeper(s[i], d) = d
    BY <1>7 DEF Deeper
  <2> QED
    BY <1>1, <1>2, <1>7, <2>1, <2>2 DEF Walks
<1>8. CASE op \notin {"push", "pop"} /\ ~(op = "draw" /\ open = <<>>)
  <2>1. to = acc
    BY <1>8 DEF Marked
  <2>2. Deeper(s[i], d) = d
    BY <1>8 DEF Deeper
  <2>3. ~(s[i].op = "draw" /\ Len(acc.open) = 0)
    BY <1>2, <1>8
  <2> QED
    BY <2>1, <2>2, <2>3
<1> QED
  BY <1>4, <1>5, <1>6, <1>7, <1>8

Bare(s, D, k) == {i \in 1..k : s[i].op = "draw" /\ D[i] = 0}

LEMMA MarkedExists ==
    ASSUME NEW s, NEW n \in Nat, Len(s) = n, DOMAIN s = 1..n
    PROVE  \E f : f = MarkedFrom(f, s)
<1> DEFINE G == [k \in 1..n |-> [acc \in Walks |-> Marked(s, acc, k)]]
<1>1. \A k \in 1..n, acc \in Walks : Marked(s, acc, k) \in Walks
  <2>1. \A k \in 1..n : k \in Nat
    OBVIOUS
  <2> QED
    BY <2>1, MarkedIs
<1>2. G \in [1..n -> [Walks -> Walks]] /\ \A k \in 1..n, acc \in Walks : G[k][acc] = Marked(s, acc, k)
  BY <1>1
<1>3. Unmarked \in Walks
  BY DEF Unmarked, Walks
<1>4. DOMAIN Ids(s) = 1..n /\ \A k \in 1..n : Ids(s)[k] = k
  BY DEF Ids
<1> HIDE DEF G
<1>5. Chainable(n, Walks, Unmarked, G)
  BY <1>2, <1>3 DEF Chainable
<1>6. PICK f : Rungs(f, n, Walks, Unmarked, G)
  BY <1>5, RungsExist
<1>7. f \in [SUBSET (1..n) -> Walks] /\ f[{}] = Unmarked
  BY <1>6 DEF Rungs
<1>8. ASSUME NEW t \in SUBSET (1..n), t # {}
      PROVE  f[t] = Marked(s, f[t \ {Max(t)}], Ids(s)[Max(t)])
  <2>1. Max(t) \in t /\ f[t] = G[Max(t)][f[t \ {Max(t)}]]
    BY <1>6, <1>8 DEF Rungs
  <2>2. f[t \ {Max(t)}] \in Walks /\ Max(t) \in 1..n
    BY <1>7, <2>1
  <2> QED
    BY <1>2, <1>4, <2>1, <2>2
<1>9. f = MarkedFrom(f, s)
  BY <1>4, <1>7, <1>8 DEF MarkedFrom
<1> QED
  BY <1>9

LEMMA BareIs ==
    ASSUME NEW n \in Nat, Len(stream) = n, DOMAIN stream = 1..n, NEW D, Depths(D, stream, n)
    PROVE  MarkerDepths.bare = Bare(stream, D, n)
<1> DEFINE s == stream
           f == CHOOSE f : f = MarkedFrom(f, s)
           good == {k \in 0..n : /\ f[1..k] \in Walks /\ Len(f[1..k].open) = D[k] /\ f[1..k].bare = Bare(s, D, k)}
<1>1. f = MarkedFrom(f, s)
  BY MarkedExists
<1>2. DOMAIN Ids(s) = 1..n /\ \A k \in 1..n : Ids(s)[k] = k
  BY DEF Ids
<1>3. MarkerDepths = f[1..n]
  BY <1>2, MarkedDef
<1> HIDE DEF f, s
<1>4. f[{}] = Unmarked
  BY <1>1 DEF MarkedFrom
<1>5. ASSUME NEW k \in 1..n PROVE f[1..k] = Marked(s, f[1..(k - 1)], k)
  <2> DEFINE t == 1..k
  <2>1. t \in SUBSET (1..n) /\ t # {} /\ Max(t) = k /\ t \ {k} = 1..(k - 1)
    BY Rung
  <2> HIDE DEF t
  <2>2. f[t] = Marked(s, f[t \ {Max(t)}], Ids(s)[Max(t)])
    BY <1>1, <1>2, <2>1 DEF MarkedFrom
  <2>3. f[t] = Marked(s, f[1..(k - 1)], k)
    BY <1>2, <2>1, <2>2
  <2> QED
    BY <2>3 DEF t
<1>6. D[0] = 0 /\ \A k \in 1..n : D[k] = Deeper(s[k], D[k - 1]) /\ D[k] \in Nat /\ D[k - 1] \in Nat
  BY DEF Depths, s
<1>7. 0 \in good
  <2>1. 1..0 = {} /\ 0 \in 0..n
    OBVIOUS
  <2>2. Bare(s, D, 0) = {} /\ Len(Unmarked.open) = 0 /\ Unmarked.bare = {} /\ Unmarked \in Walks
    BY <2>1 DEF Bare, Unmarked, Walks
  <2> QED
    BY <1>4, <1>6, <2>1, <2>2
<1>8. ASSUME NEW k \in (0 + 1)..n, k - 1 \in good PROVE k \in good
  <2> DEFINE acc == f[1..(k - 1)]
             to == f[1..k]
  <2>1. acc \in Walks /\ Len(acc.open) = D[k - 1] /\ acc.bare = Bare(s, D, k - 1)
    BY <1>8
  <2>2. k \in 1..n /\ k \in 0..n /\ k \in Nat
    OBVIOUS
  <2>3. to = Marked(s, acc, k)
    BY <1>5, <2>2
  <2> HIDE DEF acc, to, good
  <2>4. /\ to \in Walks /\ Len(to.open) = Deeper(s[k], D[k - 1])
        /\ to.bare = Bare(s, D, k - 1) \cup (IF s[k].op = "draw" /\ D[k - 1] = 0 THEN {k} ELSE {})
    <3>1. /\ Marked(s, acc, k) \in Walks
          /\ Len(Marked(s, acc, k).open) = Deeper(s[k], Len(acc.open))
          /\ Marked(s, acc, k).bare = acc.bare \cup (IF s[k].op = "draw" /\ Len(acc.open) = 0 THEN {k} ELSE {})
      <4>1. acc \in Walks /\ k \in Nat
        BY <2>1, <2>2
      <4> HIDE DEF s
      <4> QED
        BY <4>1, MarkedIs
    <3>2. to \in Walks /\ Len(to.open) = Deeper(s[k], D[k - 1])
      BY <2>1, <2>3, <3>1
    <3>3. to.bare = acc.bare \cup (IF s[k].op = "draw" /\ Len(acc.open) = 0 THEN {k} ELSE {})
      BY <2>3, <3>1, Zenon
    <3>4. acc.bare = Bare(s, D, k - 1) /\ Len(acc.open) = D[k - 1]
      BY <2>1
    <3> QED
      BY <3>2, <3>3, <3>4, Zenon
  <2>5. s[k].op = "draw" => D[k] = D[k - 1]
    BY <1>6, <2>2 DEF Deeper
  <2>6. Bare(s, D, k) = Bare(s, D, k - 1) \cup (IF s[k].op = "draw" /\ D[k - 1] = 0 THEN {k} ELSE {})
    <3>1. \A i : i \in 1..k <=> i \in 1..(k - 1) \/ i = k
      BY <2>2
    <3>2. \A i : i \in Bare(s, D, k) <=> i \in 1..k /\ s[i].op = "draw" /\ D[i] = 0
      BY DEF Bare
    <3>3. \A i : i \in Bare(s, D, k - 1) <=> i \in 1..(k - 1) /\ s[i].op = "draw" /\ D[i] = 0
      BY DEF Bare
    <3>4. CASE s[k].op = "draw" /\ D[k - 1] = 0
      BY <2>5, <3>1, <3>2, <3>3, <3>4
    <3>5. CASE ~(s[k].op = "draw" /\ D[k - 1] = 0)
      BY <2>5, <3>1, <3>2, <3>3, <3>5
    <3> QED
      BY <3>4, <3>5
  <2>7. to \in Walks /\ Len(to.open) = D[k] /\ to.bare = Bare(s, D, k)
    BY <1>6, <2>2, <2>4, <2>6
  <2> QED
    BY <2>2, <2>7 DEF good, to
<1>9. \A k \in 0..n : k \in good
  <2> HIDE DEF good
  <2>1. 0 \in Nat
    OBVIOUS
  <2> QED
    BY <1>7, <1>8, <2>1, Climbs
<1>10. f[1..n].bare = Bare(s, D, n)
  <2>1. n \in good
    <3> HIDE DEF good
    <3> QED
      BY <1>9
  <2> QED
    BY <2>1
<1> QED
  BY <1>3, <1>10 DEF s

\* A chunk with something open around it: the last one to have risen to its depth opened it.
LEMMA OpenedBy ==
    ASSUME NEW s, NEW n \in Nat, NEW D, Depths(D, s, n), NEW i \in 1..n, D[i] # 0
    PROVE  \E j \in Pushes(s, n) : j <= i /\ Within(D, j, i)
<1> DEFINE T == {k \in 0..i : D[k] < D[i]}
           m == Max(T)
<1>1. /\ \A k \in 0..n : D[k] \in Nat
      /\ D[0] = 0 /\ \A k \in 1..n : D[k] = Deeper(s[k], D[k - 1])
  BY DEF Depths
<1>2. 0 \in T /\ T \in SUBSET (0..i) /\ i \in Nat
  <2>1. D[i] \in Nat /\ D[i] > 0
    BY <1>1
  <2> QED
    BY <1>1, <2>1
<1>3. m \in T /\ \A k \in T : k <= m
  <2> HIDE DEF T
  <2> QED
    BY <1>2, NatMaxIs
<1>4. m \in 0..i /\ D[m] < D[i]
  BY <1>3
<1>5. \A k \in 0..i : k > m => ~(D[k] < D[i])
  <2> SUFFICES ASSUME NEW k \in 0..i, k > m, D[k] < D[i] PROVE FALSE
    OBVIOUS
  <2>1. k \in T
    OBVIOUS
  <2> HIDE DEF T, m
  <2> QED
    BY <1>3, <1>4, <2>1
<1> HIDE DEF T, m
<1> DEFINE j == m + 1
<1>6. m # i /\ j \in 1..n /\ j <= i /\ j - 1 = m /\ m \in 0..n
  BY <1>1, <1>4
<1>7. \A k \in j..i : D[k] >= D[i] /\ k \in 0..n
  <2> SUFFICES ASSUME NEW k \in j..i PROVE D[k] >= D[i] /\ k \in 0..n
    OBVIOUS
  <2>1. k \in 0..i /\ k > m /\ k \in 0..n /\ i \in 0..n
    BY <1>4
  <2>2. ~(D[k] < D[i])
    BY <1>5, <2>1
  <2> QED
    BY <1>1, <2>1, <2>2
<1>8. D[j] >= D[i] /\ D[j] = Deeper(s[j], D[m]) /\ D[m] \in Nat /\ D[i] \in Nat
  <2>1. j \in j..i /\ j - 1 = m /\ i \in 0..n
    BY <1>6
  <2> QED
    BY <1>1, <1>6, <1>7, <2>1
<1> HIDE DEF j
<1>9. s[j].op = "push" /\ D[j] = D[m] + 1
  <2>1. CASE s[j].op = "push"
    BY <1>8, <2>1 DEF Deeper
  <2>2. CASE s[j].op # "push"
    <3>1. Deeper(s[j], D[m]) \in {D[m], D[m] - 1}
      BY <2>2 DEF Deeper
    <3> QED
      BY <1>4, <1>8, <3>1
  <2> QED
    BY <2>1, <2>2
<1>10. D[j] = D[i]
  BY <1>4, <1>8, <1>9
<1>11. j \in Pushes(s, n) /\ Within(D, j, i)
  BY <1>6, <1>7, <1>9, <1>10 DEF Pushes, Within
<1> QED
  BY <1>6, <1>11

\* The last call of a scope: every chunk from the push to it is within.
LEMMA LastCall ==
    ASSUME NEW s, NEW n \in Nat, NEW D, NEW j \in Pushes(s, n), CallsIn(s, D, n, j) # {}
    PROVE  /\ ScopeOf(s, D, n, j).chunk = j
           /\ ScopeOf(s, D, n, j).last \in CallsIn(s, D, n, j)
           /\ \A y \in CallsIn(s, D, n, j) : y <= ScopeOf(s, D, n, j).last
<1> DEFINE C == CallsIn(s, D, n, j)
           last == CHOOSE x \in C : \A y \in C : y <= x
<1>1. C \in SUBSET (0..n)
  BY DEF CallsIn, Pushes
<1>2. ScopeOf(s, D, n, j).chunk = j /\ ScopeOf(s, D, n, j).last = last
  BY DEF ScopeOf
<1> HIDE DEF C
<1>3. Max(C) \in C /\ \A y \in C : y <= Max(C)
  <2>1. C # {}
    BY DEF C
  <2> QED
    BY <1>1, <2>1, NatMaxIs
<1>4. last \in C /\ \A y \in C : y <= last
  BY <1>3
<1> QED
  BY <1>2, <1>4 DEF C

CalledScopes(s, D, n) == {ScopeOf(s, D, n, j) : j \in {j \in Pushes(s, n) : CallsIn(s, D, n, j) # {}}}

LEMMA OutsideIsBare ==
    ASSUME NEW s, NEW n \in Nat, NEW D, Depths(D, s, n)
    PROVE  Bare(s, D, n) =
             {i \in 1..n : s[i].op = "draw" /\ \A p \in CalledScopes(s, D, n) : i \notin (p.chunk + 1)..p.last}
<1> DEFINE P == CalledScopes(s, D, n)
<1>0. P = {ScopeOf(s, D, n, j) : j \in {j \in Pushes(s, n) : CallsIn(s, D, n, j) # {}}}
  BY DEF CalledScopes
<1> HIDE DEF P
<1>1. ASSUME NEW i \in 1..n, s[i].op = "draw", D[i] = 0, NEW p \in P, i \in (p.chunk + 1)..p.last
      PROVE  FALSE
  <2>1. PICK j \in Pushes(s, n) : CallsIn(s, D, n, j) # {} /\ p = ScopeOf(s, D, n, j)
    BY <1>0
  <2>2. p.chunk = j /\ p.last \in CallsIn(s, D, n, j)
    BY <2>1, LastCall
  <2>3. Within(D, j, p.last) /\ p.last \in j..n
    BY <2>2 DEF CallsIn
  <2>4. j \in 1..n /\ D[j] \in Nat /\ D[j] >= 1
    BY PushDepth
  <2>5. i \in j..p.last
    BY <1>1, <2>2, <2>3, <2>4
  <2>6. D[i] >= D[j]
    BY <2>3, <2>5 DEF Within
  <2> QED
    BY <1>1, <2>4, <2>6
<1>2. ASSUME NEW i \in 1..n, s[i].op = "draw", D[i] # 0
      PROVE  \E p \in P : i \in (p.chunk + 1)..p.last
  <2>1. PICK j \in Pushes(s, n) : j <= i /\ Within(D, j, i)
    BY <1>2, OpenedBy
  <2>2. j \in 1..n /\ s[j].op = "push"
    BY DEF Pushes
  <2>3. i \in CallsIn(s, D, n, j)
    BY <1>2, <2>1, <2>2 DEF CallsIn
  <2> DEFINE p == ScopeOf(s, D, n, j)
  <2>4. p.chunk = j /\ p.last \in CallsIn(s, D, n, j) /\ \A y \in CallsIn(s, D, n, j) : y <= p.last
    BY <2>3, LastCall
  <2>5. p \in P
    BY <1>0, <2>3
  <2>6. p.last \in j..n
    BY <2>4 DEF CallsIn
  <2> HIDE DEF p
  <2>7. i <= p.last /\ j # i
    BY <1>2, <2>2, <2>3, <2>4
  <2>8. i \in (p.chunk + 1)..p.last
    BY <2>1, <2>2, <2>4, <2>6, <2>7
  <2> QED
    BY <2>5, <2>8
<1>3. \A i \in 1..n : s[i].op = "draw" => (D[i] = 0 <=> \A p \in P : i \notin (p.chunk + 1)..p.last)
  BY <1>1, <1>2
<1> QED
  BY <1>3 DEF Bare, P

(***************************************************************************)
(* The draws outside every scope, and the lines that name them.            *)
(***************************************************************************)
\* The findings of a rule nothing is added to: the document has them with their keys and their lines.
LEMMA FoundAsIs ==
    ASSUME NEW bundle, NEW n \in Nat, DOMAIN bundle.events = 1..n, NEW d \in Ran(bundle), d # "read-before-write"
    PROVE  /\ {g.key : g \in FlagsOf(Document_(bundle), d)} = {f.key : f \in Found(bundle, d, PassesIn(bundle))}
           /\ UNION {Range(g.evidence) : g \in FlagsOf(Document_(bundle), d)}
                = UNION {Range(f.evidence) : f \in Found(bundle, d, PassesIn(bundle))}
<1> DEFINE D == Document_(bundle).flags
           G == FlagsOf(Document_(bundle), d)
           F == Found(bundle, d, PassesIn(bundle))
<1>1. Carries(D, bundle, PassesIn(bundle))
  BY DocumentCarries
<1>2. G = {f \in D : f.detector = d}
  BY DEF FlagsOf
<1>3. \A f \in F : f.detector = d
  <2>1. d \in Detectors_
    BY DEF Ran
  <2>2. \A f \in F : IsFlag(f, d)
    BY <2>1, FoundFlags
  <2> HIDE DEF F
  <2> QED
    BY <2>2 DEF IsFlag
<1> HIDE DEF D, G
<1>4. ASSUME NEW g \in G PROVE \E f \in F : g.key = f.key /\ g.evidence = f.evidence
  <2>1. PICK e \in Ran(bundle) : \E f \in Found(bundle, e, PassesIn(bundle)) : g.detector = e /\ Follows(g, f)
    BY <1>1, <1>2 DEF Carries
  <2>2. PICK f \in F : Follows(g, f)
    BY <1>2, <2>1
  <2> HIDE DEF F
  <2>3. f.detector = d
    BY <1>3
  <2> QED
    BY <2>2, <2>3 DEF Follows
<1>5. ASSUME NEW f \in F PROVE \E g \in G : g.key = f.key /\ g.evidence = f.evidence
  <2>1. PICK g \in D : g.detector = d /\ Follows(g, f)
    BY <1>1 DEF Carries
  <2> HIDE DEF F
  <2>2. f.detector = d
    BY <1>3
  <2> QED
    BY <1>2, <2>1, <2>2 DEF Follows
<1> HIDE DEF F
<1>6. {g.key : g \in G} = {f.key : f \in F}
  BY <1>4, <1>5
<1>7. {Range(g.evidence) : g \in G} = {Range(f.evidence) : f \in F}
  BY <1>4, <1>5
<1> QED
  BY <1>6, <1>7 DEF G, F

LEMMA DigitsType == ASSUME NEW x \in Nat PROVE Digits(x) \in Nat \ {0}
<1> DEFINE S == {d \in 1..x : Radix^d <= x}
<1>1. IsFiniteSet(1..x) /\ S \subseteq 1..x
  BY FS_Interval
<1> HIDE DEF S
<1>2. IsFiniteSet(S)
  BY <1>1, FS_Subset
<1>3. Cardinality(S) \in Nat
  BY <1>2, FS_CardinalityType
<1>4. Digits(x) = 1 + Cardinality(S)
  BY DEF Digits, S
<1> QED
  BY <1>3, <1>4

LEMMA NumberEndType ==
    ASSUME NEW S \in SUBSET Nat, IsFiniteSet(S), NEW x \in S
    PROVE  NumberEnd(S, x) \in Int
<1> DEFINE T == {y \in S : y <= x}
           pairs(y) == {y} \X (1..(Digits(y) + 2))
           all == {pairs(y) : y \in T}
<1>1. IsFiniteSet(T)
  BY FS_Subset
<1>2. \A y \in T : IsFiniteSet(pairs(y))
  <2> SUFFICES ASSUME NEW y \in T PROVE IsFiniteSet(pairs(y))
    OBVIOUS
  <2>1. Digits(y) + 2 \in Int
    BY DigitsType
  <2>2. IsFiniteSet({y})
    BY FS_Singleton
  <2>3. IsFiniteSet(1..(Digits(y) + 2))
    BY <2>1, FS_Interval
  <2> QED
    BY <2>2, <2>3, FS_Product
<1>3. NumberEnd(S, x) = Cardinality(UNION all) - 2
  BY DEF NumberEnd
<1> HIDE DEF T, pairs
<1>4. IsFiniteSet(all)
  <2>1. [y \in T |-> pairs(y)] \in Surjection(T, all)
    BY DEF Surjection
  <2> HIDE DEF all
  <2> QED
    BY <1>1, <2>1, FS_Surjection
<1>5. \A U \in all : IsFiniteSet(U)
  BY <1>2
<1> HIDE DEF all
<1>6. IsFiniteSet(UNION all)
  BY <1>4, <1>5, FS_UNION
<1>7. Cardinality(UNION all) \in Nat
  BY <1>6, FS_CardinalityType
<1> QED
  BY <1>3, <1>7

CallNames == {"dispatch", "indexed", "draw", "indirect"}
IsPast(S, call, x) == NumberEnd(S, x) > LineRoom[call]
ShownAs(S, call, x, number) ==
    number = x \/ (IsPast(S, call, x) /\ \E less \in 1..(Digits(x) - 1) : number = Leading(x, less))

LEMMA CutLineIs ==
    ASSUME NEW call \in CallNames, NEW S \in SUBSET Nat, IsFiniteSet(S)
    PROVE  /\ \A c : <<"call", c>> \in CutLine(call, S) <=> c = call
           /\ \A x \in S : IsPast(S, call, x) \/ <<"chunk", x>> \in CutLine(call, S)
           /\ \A m \in CutLine(call, S) : m[1] = "chunk" => \E x \in S : ShownAs(S, call, x, m[2])
<1> DEFINE room == LineRoom[call]
           whole == {x \in S : NumberEnd(S, x) <= room}
           within == {x \in S : NumberEnd(S, x) > room /\ NumberEnd(S, x) - Digits(x) < room}
           line == CutLine(call, S)
<1>1. line = {<<"call", call>>} \cup {<<"chunk", x>> : x \in whole}
               \cup {<<"chunk", Leading(x, NumberEnd(S, x) - room)>> : x \in within}
  BY DEF CutLine
<1>2. room \in Nat
  BY StreamDetectorsAssumption DEF CallNames
<1>3. \A x \in S : NumberEnd(S, x) \in Int /\ Digits(x) \in Nat
  BY NumberEndType, DigitsType
<1>4. \A x \in S : IsPast(S, call, x) <=> NumberEnd(S, x) > room
  BY DEF IsPast
<1> HIDE DEF room, line
<1>5. \A c : <<"call", c>> \in line <=> c = call
  BY <1>1
<1>6. ASSUME NEW x \in S, ~IsPast(S, call, x) PROVE <<"chunk", x>> \in line
  <2>1. x \in whole
    BY <1>2, <1>3, <1>4, <1>6
  <2> HIDE DEF whole, within
  <2> QED
    BY <1>1, <2>1
<1>7. ASSUME NEW m \in line, m[1] = "chunk" PROVE \E x \in S : ShownAs(S, call, x, m[2])
  <2>1. CASE \E x \in whole : m = <<"chunk", x>>
    BY <2>1 DEF ShownAs
  <2>2. CASE \E x \in within : m = <<"chunk", Leading(x, NumberEnd(S, x) - room)>>
    <3>1. PICK x \in within : m = <<"chunk", Leading(x, NumberEnd(S, x) - room)>>
      BY <2>2
    <3> DEFINE less == NumberEnd(S, x) - room
    <3>2. less \in 1..(Digits(x) - 1) /\ x \in S /\ IsPast(S, call, x)
      BY <1>2, <1>3, <1>4
    <3>3. m[2] = Leading(x, less)
      BY <3>1
    <3> HIDE DEF less, within, whole
    <3> QED
      BY <3>2, <3>3 DEF ShownAs
  <2>3. m # <<"call", call>>
    BY <1>7
  <2> HIDE DEF whole, within
  <2> QED
    BY <1>1, <2>1, <2>2, <2>3
<1> QED
  BY <1>5, <1>6, <1>7 DEF line

BareOf(call) == {i \in MarkerDepths.bare : stream[i].call = call}
BareLines == {CutLine(call, BareOf(call)) : call \in {call \in CallNames : BareOf(call) # {}}}

LEMMA UnattributedAre ==
    ASSUME MarkerDepths.bare \in SUBSET Nat, IsFiniteSet(MarkerDepths.bare),
           \A i \in MarkerDepths.bare : stream[i].call \in CallNames
    PROVE  /\ {f.key : f \in DetectUnattributedDraws} = {Cardinality(MarkerDepths.bare)} \ {0}
           /\ UNION {Range(f.evidence) : f \in DetectUnattributedDraws} = BareLines
<1> DEFINE bare == MarkerDepths.bare
           count == Cardinality(bare)
           of(k) == {i \in bare : stream[i].call = CallsByName[k]}
           places == {k \in DOMAIN CallsByName : of(k) # {}}
           named == InOrder(places)
           lines == [k \in DOMAIN named |-> CutLine(CallsByName[named[k]], of(named[k]))]
           flag == Flag("unattributed-draws", "outside any marker", count, lines, "certain")
           F == DetectUnattributedDraws
<1>1. F = IF count = 0 THEN {} ELSE {flag}
  BY DEF DetectUnattributedDraws, Counting_
<1>2. flag.key = count /\ flag.evidence = lines
  BY DEF Flag
<1>3. count = 0 <=> bare = {}
  BY FS_EmptySet
<1>4. DOMAIN CallsByName = 1..4 /\ CallNames = {CallsByName[k] : k \in 1..4}
  BY DEF CallsByName, CallNames
<1>5. \A k : of(k) = BareOf(CallsByName[k])
  BY DEF BareOf
<1>6. Range(named) = places
  <2>1. IsFiniteSet(1..4) /\ places \subseteq 1..4
    <3>1. \A b \in Int : IsFiniteSet(1..b)
      BY FS_Interval
    <3>2. 4 \in Int
      OBVIOUS
    <3>3. IsFiniteSet(1..4)
      BY <3>1, <3>2, Zenon
    <3>4. places \subseteq 1..4
      BY <1>4
    <3> QED
      BY <3>3, <3>4
  <2>2. places \in SUBSET Nat
    BY <2>1
  <2> HIDE DEF places
  <2>3. IsFiniteSet(places)
    BY <2>1, FS_Subset
  <2> QED
    BY <2>2, <2>3, InOrderIs
<1> DEFINE line(k) == CutLine(CallsByName[k], of(k))
<1>7. Range(lines) = {line(k) : k \in places}
  <2> HIDE DEF places, line
  <2>1. lines = [k \in DOMAIN named |-> line(named[k])]
    BY DEF line
  <2> HIDE DEF named, lines
  <2>2. Range(lines) = {line(named[k]) : k \in DOMAIN named}
    BY <2>1 DEF Range
  <2>3. places = {named[k] : k \in DOMAIN named}
    BY <1>6 DEF Range
  <2> QED
    BY <2>2, <2>3
<1>8. {line(k) : k \in places} = BareLines
  <2>1. \A k : line(k) = CutLine(CallsByName[k], BareOf(CallsByName[k]))
    BY <1>5
  <2>2. places = {k \in 1..4 : BareOf(CallsByName[k]) # {}}
    BY <1>4, <1>5
  <2> HIDE DEF line, places, of
  <2> QED
    BY <1>4, <2>1, <2>2 DEF BareLines
<1> HIDE DEF flag, lines, line, named, places, of, count
<1>9. CASE bare = {}
  <2>1. F = {} /\ BareLines = {}
    <3>1. \A call : BareOf(call) = {}
      BY <1>9 DEF BareOf
    <3> QED
      BY <1>1, <1>3, <1>9, <3>1 DEF BareLines
  <2>2. {f.key : f \in {}} = {} /\ UNION {Range(f.evidence) : f \in {}} = {} /\ {count} \ {0} = {}
    BY <1>3, <1>9
  <2> HIDE DEF F, bare, count
  <2>3. {f.key : f \in F} = {count} \ {0} /\ UNION {Range(f.evidence) : f \in F} = BareLines
    BY <2>1, <2>2
  <2> QED
    BY <2>3 DEF F, count, bare
<1>10. CASE bare # {}
  <2>1. F = {flag} /\ count # 0
    BY <1>1, <1>3, <1>10
  <2> HIDE DEF F
  <2>2. {f.key : f \in F} = {count} \ {0}
    BY <1>2, <2>1
  <2>3. UNION {Range(f.evidence) : f \in F} = Range(lines)
    BY <1>2, <2>1
  <2> QED
    BY <1>7, <1>8, <2>2, <2>3 DEF F, count
<1> QED
  BY <1>9, <1>10

LEMMA BareNamed ==
    ASSUME ScopesInv, NEW bundle, NEW n \in Nat, DOMAIN bundle.events = 1..n
    PROVE  BareDrawsAreNamed(Document_(bundle))
<1> DEFINE doc == Document_(bundle)
           d == "unattributed-draws"
           l == Len(stream)
           D == DepthOf(stream)
           P == CalledScopes(stream, D, l)
           bare == MarkerDepths.bare
           keys == {f.key : f \in FlagsOf(doc, d)}
           lines == UNION {Range(f.evidence) : f \in FlagsOf(doc, d)}
<1>1. l \in Nat /\ DOMAIN stream = 1..l
  BY DEF ScopesInv, StreamOK
<1>2. Range(MarkerPasses) = P
  BY PassesFromInv, ScopesDef, ScopeRowsAre DEF CalledScopes, ToSet, Range
<1>3. \A i \in 1..l : stream[i].op = "draw" => stream[i].call \in CallNames
  BY ChunkAt DEF ScopesInv, IsChunk, CallNames
<1> HIDE DEF l
<1>4. Depths(D, stream, l)
  BY <1>1, DepthIs DEF l
<1> HIDE DEF D, P
<1>5. bare = Bare(stream, D, l)
  BY <1>1, <1>4, BareIs DEF l
<1>6. Bare(stream, D, l) = {i \in 1..l : stream[i].op = "draw" /\ \A p \in P : i \notin (p.chunk + 1)..p.last}
  BY <1>1, <1>4, OutsideIsBare DEF P
<1>7. bare \in SUBSET Nat /\ IsFiniteSet(bare)
  <2>1. bare \in SUBSET (1..l)
    BY <1>5 DEF Bare
  <2>2. IsFiniteSet(1..l)
    BY <1>1, FS_Interval
  <2> HIDE DEF bare
  <2>3. bare \in SUBSET Nat
    BY <2>1
  <2> QED
    BY <2>1, <2>2, <2>3, FS_Subset
<1>8. \A i \in bare : stream[i].call \in CallNames
  BY <1>3, <1>5 DEF Bare
<1>9. doc.detectors = [x \in Detectors_ |-> WhyNot(bundle, x)]
  BY DocumentIs_, AllCarries DEF AllOf
<1>10. ASSUME doc.detectors[d] = "" PROVE keys = {Cardinality(bare)} \ {0} /\ lines = BareLines
  <2>1. d \in Detectors_
    BY DEF Detectors_, StreamRules
  <2>2. d \in Ran(bundle)
    BY <1>9, <1>10, <2>1 DEF Ran
  <2> DEFINE F == Found(bundle, d, PassesIn(bundle))
  <2>3. keys = {f.key : f \in F} /\ lines = UNION {Range(f.evidence) : f \in F}
    <3>1. d # "read-before-write"
      OBVIOUS
    <3> HIDE DEF d
    <3> QED
      BY <2>2, <3>1, FoundAsIs
  <2>4. F = DetectUnattributedDraws
    BY FoundAre
  <2> HIDE DEF F
  <2> QED
    BY <1>7, <1>8, <2>3, <2>4, UnattributedAre
<1> DEFINE past(i) == NumberEnd({j \in bare : stream[j].call = stream[i].call}, i) > LineRoom[stream[i].call]
           shown(i, x) == x = i \/ (past(i) /\ \E less \in 1..(Digits(i) - 1) : x = Leading(i, less))
<1>11. \A call : BareOf(call) \in SUBSET Nat /\ IsFiniteSet(BareOf(call))
  <2> SUFFICES ASSUME NEW call PROVE BareOf(call) \in SUBSET Nat /\ IsFiniteSet(BareOf(call))
    OBVIOUS
  <2>1. BareOf(call) \subseteq bare
    BY DEF BareOf
  <2> HIDE DEF bare
  <2>2. BareOf(call) \in SUBSET Nat
    BY <1>7, <2>1
  <2> QED
    BY <1>7, <2>1, <2>2, FS_Subset
<1>12. \A i : past(i) <=> IsPast(BareOf(stream[i].call), stream[i].call, i)
  BY DEF IsPast, BareOf
<1>13. \A i \in bare : i \in BareOf(stream[i].call)
  BY DEF BareOf
<1> HIDE DEF past
<1>14. ASSUME NEW i \in bare
       PROVE  \E line \in BareLines : <<"call", stream[i].call>> \in line /\ (past(i) \/ <<"chunk", i>> \in line)
  <2> DEFINE call == stream[i].call
             S == BareOf(call)
  <2>1. call \in CallNames /\ S \in SUBSET Nat /\ IsFiniteSet(S) /\ i \in S
    BY <1>8, <1>11, <1>13
  <2>2. CutLine(call, S) \in BareLines
    BY <2>1 DEF BareLines
  <2>3. past(i) <=> IsPast(S, call, i)
    BY <1>12
  <2> HIDE DEF S, call
  <2>4. <<"call", call>> \in CutLine(call, S) /\ (IsPast(S, call, i) \/ <<"chunk", i>> \in CutLine(call, S))
    BY <2>1, CutLineIs
  <2> QED
    BY <2>2, <2>3, <2>4 DEF call
<1>15. ASSUME NEW line \in BareLines, NEW m \in line, m[1] = "chunk"
       PROVE  \E i \in bare : <<"call", stream[i].call>> \in line /\ shown(i, m[2])
  <2>1. PICK call \in CallNames : BareOf(call) # {} /\ line = CutLine(call, BareOf(call))
    BY DEF BareLines
  <2> DEFINE S == BareOf(call)
  <2>2. S \in SUBSET Nat /\ IsFiniteSet(S)
    BY <1>11
  <2>3. \A x \in S : x \in bare /\ stream[x].call = call
    BY DEF BareOf
  <2> HIDE DEF S, bare
  <2>4. PICK x \in S : ShownAs(S, call, x, m[2])
    BY <1>15, <2>1, <2>2, CutLineIs DEF S
  <2>5. <<"call", call>> \in line
    BY <2>1, <2>2, CutLineIs DEF S
  <2>6. past(x) <=> IsPast(S, call, x)
    BY <1>12, <2>3 DEF S
  <2>7. shown(x, m[2])
    BY <2>4, <2>6 DEF ShownAs
  <2> HIDE DEF shown
  <2> QED
    BY <2>3, <2>5, <2>7
<1>16. bare = {i \in DOMAIN stream : stream[i].op = "draw" /\ \A p \in Range(MarkerPasses) : i \notin (p.chunk + 1)..p.last}
  BY <1>1, <1>2, <1>5, <1>6
<1> DEFINE named ==
             doc.detectors[d] = "" =>
               /\ keys = {Cardinality(bare)} \ {0}
               /\ \A i \in bare : \E line \in lines : <<"call", stream[i].call>> \in line /\ (past(i) \/ <<"chunk", i>> \in line)
               /\ \A line \in lines : \A m \in line : m[1] = "chunk" =>
                     \E i \in bare : <<"call", stream[i].call>> \in line /\ shown(i, m[2])
<1>17. BareDrawsAreNamed(doc) <=> named
  <2> HIDE DEF doc
  <2> DEFINE outside == {i \in DOMAIN stream : stream[i].op = "draw" /\ \A p \in Range(MarkerPasses) : i \notin (p.chunk + 1)..p.last}
  <2>1. bare = outside
    BY <1>16
  <2> HIDE DEF bare
  <2> QED
    BY <2>1 DEF BareDrawsAreNamed, past
<1>18. named
  <2> HIDE DEF shown, bare, keys, lines, doc, d
  <2> QED
    BY <1>10, <1>14, <1>15
<1> HIDE DEF named
<1> QED
  BY <1>17, <1>18

\* What a rule with nothing to read says, and that it finds nothing.
LEMMA ReasonsAre ==
    ASSUME NEW bundle, NEW d
    PROVE  /\ d \in TableRules => WhyNot(bundle, d) = TablesReason(bundle)
           /\ d \in UsageRules => WhyNot(bundle, d) = UsageReason(bundle)
           /\ d \in StateRules => WhyNot(bundle, d) = PipelineStateReason(bundle)
           /\ d = "geometry-offscreen" => WhyNot(bundle, d) = BoundsReason(bundle)
           /\ d \in StreamRules => WhyNot(bundle, d) = StreamReason(bundle, d)
<1>1. /\ d \in UsageRules => d \notin TableRules
      /\ d \in StateRules => d \notin TableRules /\ d \notin UsageRules
      /\ d = "geometry-offscreen" => d \notin TableRules /\ d \notin UsageRules /\ d \notin StateRules
      /\ d \in StreamRules =>
            d \notin TableRules /\ d \notin UsageRules /\ d \notin StateRules /\ d # "geometry-offscreen"
  BY DEF TableRules, UsageRules, StateRules, StreamRules
<1> QED
  BY <1>1, Zenon DEF WhyNot

LEMMA BlindSay ==
    ASSUME NEW d \in Detectors_, IsBlind(report, d), d # "mismatched-msaa"
    PROVE  WhyNot(report, d) # ""
<1>1. CASE d \in UsageRules /\ ~report.collected
  BY <1>1, ReasonsAre, Zenon DEF UsageReason
<1>2. CASE d \in TableRules /\ \A i \in Documented_(report) : DocOf(report, i).tables = {}
  BY <1>2, ReasonsAre, Zenon DEF TablesReason
<1>3. CASE d \in StateRules /\ \A i \in Documented_(report) : ~DocOf(report, i).merger.there
  BY <1>3, ReasonsAre, Zenon DEF PipelineStateReason
<1>4. CASE d = "geometry-offscreen" /\ \A i \in DOMAIN report.events : ~report.events[i].mesh.there
  BY <1>4, ReasonsAre, Zenon DEF BoundsReason
<1>5. CASE d \in StreamRules /\ (report.path \in {"none", "unreadable"} \/ ~report.map)
  <2>1. WhyNot(report, d) = StreamReason(report, d)
    BY <1>5, ReasonsAre
  <2>2. ASSUME report.path = "none" PROVE StreamReason(report, d) # ""
    BY <2>2, Zenon DEF StreamReason
  <2>3. ASSUME report.path # "none" /\ ~report.map PROVE StreamReason(report, d) # ""
    BY <2>3, Zenon DEF StreamReason
  <2>4. ASSUME report.path = "unreadable" /\ report.map PROVE StreamReason(report, d) # ""
    BY <2>4, Zenon DEF StreamReason
  <2>5. StreamReason(report, d) # ""
    BY <1>5, <2>2, <2>3, <2>4, Zenon
  <2> QED
    BY <2>1, <2>5, Zenon
<1>6. \/ d \in UsageRules /\ ~report.collected
      \/ d \in TableRules /\ \A i \in Documented_(report) : DocOf(report, i).tables = {}
      \/ d \in StateRules /\ \A i \in Documented_(report) : ~DocOf(report, i).merger.there
      \/ d = "geometry-offscreen" /\ \A i \in DOMAIN report.events : ~report.events[i].mesh.there
      \/ d \in StreamRules /\ (report.path \in {"none", "unreadable"} \/ ~report.map)
  BY DEF IsBlind
<1> QED
  BY <1>1, <1>2, <1>3, <1>4, <1>5, <1>6, Zenon

LEMMA BlindTold ==
    ASSUME NEW n \in Nat, DOMAIN report.events = 1..n
    PROVE  OneRuleIsBlind(Document_(report))
<1> DEFINE doc == Document_(report)
<1>1. doc.detectors = [x \in Detectors_ |-> WhyNot(report, x)]
  BY DocumentIs_, AllCarries DEF AllOf
<1>2. ASSUME NEW d \in Detectors_, WhyNot(report, d) # "" PROVE FlagsOf(doc, d) = {}
  <2>1. d \notin Ran(report)
    BY <1>2 DEF Ran
  <2>2. "chunk" # "provenance"
    OBVIOUS
  <2> QED
    BY <2>1, <2>2, NamesAre
<1>3. ASSUME ~report.collected PROVE FlagsOf(doc, "mismatched-msaa") = {}
  <2> DEFINE d == "mismatched-msaa"
             F == Found(report, d, PassesIn(report))
             D == doc.flags
  <2>1. UsageJudged(report) = {}
    BY <1>3 DEF UsageJudged, UsageRows
  <2>2. \A what, tag, certainty : OneFlag(d, what, {}, tag, certainty) = {}
    BY DEF OneFlag, Grouped, Range
  <2>3. DetectMismatchedMsaa(report) = {}
    <3> DEFINE chain == [r \in UsageJudged(report) |-> UsageChain(report, r)]
               S == {r \in DOMAIN chain : /\ Inventory[r].kind = "texture" /\ Inventory[r].samples > 1
                                          /\ At_As(chain[r], {"ColorTarget"}) # {}
                                          /\ At_As(chain[r], {"Resolve", "ResolveSrc", "ResolveDst"}) = {}}
    <3>1. DetectMismatchedMsaa(report) = OneFlag(d, "never resolved", S, "res", "question")
      BY DEF DetectMismatchedMsaa
    <3>2. S = {}
      BY <2>1
    <3> HIDE DEF S, d
    <3> QED
      BY <2>2, <3>1, <3>2
  <2>4. F = {}
    BY <2>3, FoundAre
  <2>5. Carries(D, report, PassesIn(report))
    BY DocumentCarries
  <2>6. FlagsOf(doc, d) = {g \in D : g.detector = d}
    BY DEF FlagsOf
  <2>7. ASSUME NEW g \in FlagsOf(doc, d) PROVE FALSE
    <3> HIDE DEF D, F
    <3>1. g \in D /\ g.detector = d
      BY <2>6, <2>7
    <3>2. PICK e \in Ran(report) : \E f \in Found(report, e, PassesIn(report)) : g.detector = e /\ Follows(g, f)
      BY <2>5, <3>1 DEF Carries
    <3> QED
      BY <2>4, <3>1, <3>2 DEF F
  <2> QED
    BY <2>7
<1>4. ASSUME NEW d \in Detectors_, IsBlind(report, d)
      PROVE  FlagsOf(doc, d) = {} /\ (d = "mismatched-msaa" \/ doc.detectors[d] # "")
  <2>1. CASE d = "mismatched-msaa"
    <3>1. ~report.collected
      BY <1>4, <2>1 DEF IsBlind, TableRules, StateRules, StreamRules
    <3> HIDE DEF doc
    <3> QED
      BY <1>3, <2>1, <3>1
  <2>2. CASE d # "mismatched-msaa"
    <3>1. WhyNot(report, d) # ""
      BY <1>4, <2>2, BlindSay
    <3> HIDE DEF doc
    <3> QED
      BY <1>1, <1>2, <3>1
  <2> QED
    BY <2>1, <2>2
<1> HIDE DEF doc
<1> QED
  BY <1>4 DEF OneRuleIsBlind, doc

(***************************************************************************)
(* The report as its bundle grows.                                         *)
(***************************************************************************)
ReportInv == report.events \in Seq(ReportEvents) /\ "events" \in DOMAIN report

LEMMA ReportInvInit == ReportInit => ReportInv
<1> SUFFICES ASSUME ReportInit PROVE ReportInv
  OBVIOUS
<1>1. "events" \in DOMAIN report /\ report.events = <<>>
  BY ReportAssumption DEF ReportInit
<1> QED
  BY <1>1 DEF ReportInv

LEMMA ReportInvStep == ReportInv /\ [ReportNext]_report => ReportInv'
<1> SUFFICES ASSUME ReportInv, [ReportNext]_report PROVE ReportInv'
  OBVIOUS
<1>1. CASE UNCHANGED report
  BY <1>1 DEF ReportInv
<1>2. ASSUME NEW e \in ReportEvents, report' = [report EXCEPT !.events = Append(@, e)] PROVE ReportInv'
  <2>1. "events" \in DOMAIN report' /\ report'.events = Append(report.events, e)
    BY <1>2 DEF ReportInv
  <2>2. Append(report.events, e) \in Seq(ReportEvents)
    BY DEF ReportInv
  <2> QED
    BY <2>1, <2>2 DEF ReportInv
<1> QED
  BY <1>1, <1>2 DEF ReportNext

LEMMA ReportFromInv == ReportInv /\ ScopesInv => ReportClaimsWhatItChecked
<1> SUFFICES ASSUME ReportInv, ScopesInv PROVE Substantiated(Document_(report))
  BY DEF ReportClaimsWhatItChecked
<1> DEFINE n == Len(report.events)
<1>1. n \in Nat /\ DOMAIN report.events = 1..n /\ Len(report.events) = n /\ \A i \in 1..n : report.events[i] \in ReportEvents
  <2> DEFINE events == report.events
  <2>1. events \in Seq(ReportEvents)
    BY DEF ReportInv
  <2> HIDE DEF events
  <2> QED
    BY <2>1 DEF events
<1> HIDE DEF n
<1>2. AreEvents(report, n)
  BY <1>1 DEF AreEvents
<1>3. GapsAreTold(Document_(report)) /\ WorstComeFirst(Document_(report))
  BY <1>1, GapsTold
<1>4. CausesAreSpent(Document_(report))
  BY <1>1, CausesSpent
<1>5. UsageRulesAgree(Document_(report))
  BY <1>1, UsagesAgree
<1>6. CertainIsBeyond(Document_(report))
  BY <1>1, <1>2, BeyondCertain
<1>7. BareDrawsAreNamed(Document_(report))
  BY <1>1, BareNamed
<1>8. OneRuleIsBlind(Document_(report))
  BY <1>1, BlindTold
<1> QED
  BY <1>3, <1>4, <1>5, <1>6, <1>7, <1>8 DEF Substantiated

\* Whatever the capture's stream, its inventory and the events of its bundle, and whatever the corpus knows:
\* a report's gaps, ranking, causes, usage findings, draws off screen and bare draws rest on what it checked.
THEOREM ReportsClaimWhatTheyChecked == FrameWalkSpec /\ ReportSpec => []ReportClaimsWhatItChecked
<1>1. FrameWalkInit => ScopesInv
  BY ScopesInvInit
<1>2. ScopesInv /\ [FrameWalkNext]_walkVars => ScopesInv'
  BY ScopesInvStep
<1>3. ReportInit => ReportInv
  BY ReportInvInit
<1>4. ReportInv /\ [ReportNext]_report => ReportInv'
  BY ReportInvStep
<1>5. ReportInv /\ ScopesInv => ReportClaimsWhatItChecked
  BY ReportFromInv
<1> QED
  BY <1>1, <1>2, <1>3, <1>4, <1>5, PTL DEF FrameWalkSpec, ReportSpec
=============================================================================
