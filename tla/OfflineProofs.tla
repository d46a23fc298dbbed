---------------------------- MODULE OfflineProofs ----------------------------
(***************************************************************************)
(* What the corpus check, the marker walk, the walk of the chunks and a    *)
(* scan in slices answer: for any corpus and machines, any stream, any     *)
(* chunks, any workers.                                                    *)
(***************************************************************************)
EXTENDS LedgerProofs, Goldens, Framing, Slices

-----------------------------------------------------------------------------
(***************************************************************************)
(* Recursion along 0..n: a value for each index from the one before it.    *)
(***************************************************************************)
Chainable(n, A, base, G) == n \in Nat /\ base \in A /\ G \in [1..n -> [A -> A]]
ChainOf(f, n, A, base, G) == f \in [0..n -> A] /\ f[0] = base /\ \A k \in 1..n : f[k] = G[k][f[k - 1]]

(* What an index hands on to the next one holds of all from where it starts.  *)
LEMMA Climbs ==
    ASSUME NEW m \in Nat, NEW n \in Nat, NEW good, m \in good,
           \A k \in (m + 1)..n : k - 1 \in good => k \in good
    PROVE  \A k \in m..n : k \in good
<1> DEFINE bad == {k \in m..n : k \notin good}
<1>1. ASSUME bad # {} PROVE FALSE
  <2>1. bad \in SUBSET Nat
    OBVIOUS
  <2>2. PICK k \in bad : \A y \in bad : k <= y
    BY <1>1, <2>1, NatLeast
  <2>3. k \in (m + 1)..n
    OBVIOUS
  <2>4. k - 1 \in bad
    BY <2>3
  <2> QED
    BY <2>2, <2>3, <2>4
<1> QED
  BY <1>1

LEMMA ChainExists ==
    ASSUME NEW n, NEW A, NEW base, NEW G, Chainable(n, A, base, G)
    PROVE  \E f : ChainOf(f, n, A, base, G)
<1> DEFINE S == 1..n
           pick == [s \in SUBSET S |-> Max(s)]
<1>0. n \in Nat /\ base \in A /\ G \in [1..n -> [A -> A]]
  BY DEF Chainable
<1>1. \A s \in SUBSET S : s # {} => pick[s] \in s /\ \A y \in s : y <= pick[s]
  <2> SUFFICES ASSUME NEW s \in SUBSET S, s # {} PROVE Max(s) \in s /\ \A y \in s : y <= Max(s)
    OBVIOUS
  <2>1. s \in SUBSET (0..n)
    BY <1>0
  <2> QED
    BY <1>0, <2>1, NatMaxIs
<1> HIDE DEF pick
<1>2. Foldable(S, A, base, G, pick)
  <2>1. IsFiniteSet(S)
    BY <1>0, FS_Interval
  <2> QED
    BY <1>0, <1>1, <2>1 DEF Foldable
<1>4. PICK g : FoldOf(g, S, A, base, G, pick)
  BY <1>2, FoldExists
<1>5. /\ g \in [SUBSET S -> A]
      /\ \A s \in SUBSET S : s = {} => g[s] = base
      /\ \A s \in SUBSET S : s # {} => g[s] = G[pick[s]][g[s \ {pick[s]}]]
  BY <1>4 DEF FoldOf
<1>6. \A k \in 0..n : 1..k \in SUBSET S
  BY <1>0
<1> DEFINE f == [k \in 0..n |-> g[1..k]]
<1>7. f \in [0..n -> A]
  BY <1>5, <1>6
<1>8. f[0] = base
  <2>1. 1..0 = {} /\ 0 \in 0..n
    BY <1>0
  <2> QED
    BY <1>5, <2>1
<1>9. ASSUME NEW k \in 1..n PROVE f[k] = G[k][f[k - 1]]
  <2>1. k \in 0..n /\ k - 1 \in 0..n /\ k \in 1..k /\ 1..k \in SUBSET S
    BY <1>0, <1>6
  <2>2. pick[1..k] \in 1..k /\ k <= pick[1..k]
    BY <1>1, <2>1
  <2>3. pick[1..k] = k
    BY <1>0, <2>2
  <2>4. (1..k) \ {k} = 1..(k - 1)
    BY <1>0
  <2>5. g[1..k] = G[k][g[1..(k - 1)]]
    BY <1>5, <2>1, <2>3, <2>4
  <2> QED
    BY <2>1, <2>5
<1> HIDE DEF f
<1>10. ChainOf(f, n, A, base, G)
  BY <1>7, <1>8, <1>9 DEF ChainOf
<1> QED
  BY <1>10

LEMMA RangeOfFew == Range(<<>>) = {} /\ \A x, y : Range(<<x>>) = {x} /\ Range(<<x, y>>) = {x, y}
<1>1. Range(<<>>) = {}
  BY DEF Range
<1>2. ASSUME NEW x, NEW y PROVE Range(<<x>>) = {x} /\ Range(<<x, y>>) = {x, y}
  <2>1. DOMAIN <<x>> = {1} /\ DOMAIN <<x, y>> = {1, 2} /\ <<x>>[1] = x /\ <<x, y>>[1] = x /\ <<x, y>>[2] = y
    OBVIOUS
  <2> QED
    BY <2>1 DEF Range
<1> QED
  BY <1>1, <1>2

LEMMA RangeOfConcat ==
    ASSUME NEW S, NEW s \in Seq(S), NEW t \in Seq(S)
    PROVE  s \o t \in Seq(S) /\ Range(s \o t) = Range(s) \cup Range(t)
<1>1. /\ DOMAIN (s \o t) = 1..(Len(s) + Len(t)) /\ DOMAIN s = 1..Len(s) /\ DOMAIN t = 1..Len(t)
      /\ \A i \in 1..Len(s) : (s \o t)[i] = s[i]
      /\ \A i \in 1..Len(t) : (s \o t)[Len(s) + i] = t[i]
      /\ Len(s) \in Nat /\ Len(t) \in Nat
  OBVIOUS
<1>2. ASSUME NEW i \in DOMAIN (s \o t), i \notin DOMAIN s
      PROVE  i - Len(s) \in DOMAIN t /\ (s \o t)[i] = t[i - Len(s)]
  <2>1. i - Len(s) \in 1..Len(t) /\ i = Len(s) + (i - Len(s))
    BY <1>1, <1>2
  <2> QED
    BY <1>1, <2>1
<1>3. Range(s) \subseteq Range(s \o t) /\ Range(t) \subseteq Range(s \o t)
  <2>1. \A i \in DOMAIN s : i \in DOMAIN (s \o t)
    BY <1>1
  <2>2. \A i \in DOMAIN t : Len(s) + i \in DOMAIN (s \o t)
    BY <1>1
  <2> QED
    BY <1>1, <2>1, <2>2 DEF Range
<1>4. Range(s \o t) \subseteq Range(s) \cup Range(t)
  BY <1>1, <1>2 DEF Range
<1> QED
  BY <1>3, <1>4

(* Lists strung together hold what each of them holds.                       *)
FlatFrom(f, seqs) == [i \in 1..Len(seqs) |-> IF i = 1 THEN seqs[i] ELSE f[i - 1] \o seqs[i]]

LEMMA FlatDef ==
    ASSUME NEW seqs, Len(seqs) # 0
    PROVE  FlattenSeq(seqs) = (CHOOSE f : f = FlatFrom(f, seqs))[Len(seqs)]
BY DEF FlattenSeq, FlatFrom

LEMMA FlatExists ==
    ASSUME NEW S, NEW seqs \in Seq(Seq(S)), Len(seqs) # 0
    PROVE  \E f : f \in [1..Len(seqs) -> Seq(S)] /\ f = FlatFrom(f, seqs)
<1> DEFINE n == Len(seqs)
           A == Seq(S)
           base == <<>>
           G == [i \in 1..n |-> [w \in A |-> w \o seqs[i]]]
<1>0. n \in Nat /\ \A i \in 1..n : seqs[i] \in Seq(S)
  OBVIOUS
<1>1. G \in [1..n -> [A -> A]]
  BY <1>0
<1>2. Chainable(n, A, base, G)
  BY <1>0, <1>1 DEF Chainable
<1>3. \A i \in 1..n, w \in A : G[i][w] = w \o seqs[i]
  OBVIOUS
<1> HIDE DEF G, A, base
<1>4. PICK g : ChainOf(g, n, A, base, G)
  BY <1>2, ChainExists
<1> DEFINE f == [i \in 1..n |-> g[i]]
<1>5. g \in [0..n -> A] /\ g[0] = base /\ \A k \in 1..n : g[k] = G[k][g[k - 1]]
  BY <1>4 DEF ChainOf
<1>6. f \in [1..n -> Seq(S)]
  BY <1>0, <1>5 DEF A
<1>7. ASSUME NEW i \in 1..n PROVE f[i] = IF i = 1 THEN seqs[i] ELSE f[i - 1] \o seqs[i]
  <2>1. i - 1 \in 0..n /\ (i # 1 => i - 1 \in 1..n)
    BY <1>0
  <2>2. f[i] = g[i - 1] \o seqs[i] /\ g[i - 1] \in Seq(S)
    BY <1>3, <1>5, <2>1 DEF A
  <2>3. <<>> \o seqs[i] = seqs[i]
    BY <1>0
  <2>4. CASE i = 1
    <3>1. g[i - 1] = <<>>
      BY <1>5, <2>4 DEF base
    <3> HIDE DEF f
    <3> QED
      BY <2>2, <2>3, <2>4, <3>1
  <2>5. CASE i # 1
    BY <2>1, <2>2, <2>5
  <2> QED
    BY <2>4, <2>5
<1>8. f = FlatFrom(f, seqs)
  BY <1>7 DEF FlatFrom
<1> HIDE DEF f
<1> QED
  BY <1>6, <1>8

LEMMA FlattenIs ==
    ASSUME NEW S, NEW seqs \in Seq(Seq(S))
    PROVE  /\ FlattenSeq(seqs) \in Seq(S)
           /\ Range(FlattenSeq(seqs)) = UNION {Range(seqs[i]) : i \in 1..Len(seqs)}
<1>1. CASE Len(seqs) = 0
  <2>1. seqs = <<>> /\ FlattenSeq(seqs) = <<>>
    BY <1>1 DEF FlattenSeq
  <2>2. Range(<<>>) = {} /\ DOMAIN <<>> = {}
    BY DEF Range
  <2>3. UNION {Range(seqs[i]) : i \in 1..Len(seqs)} = {}
    BY <1>1
  <2>4. <<>> \in Seq(S)
    OBVIOUS
  <2> HIDE DEF Range
  <2>5. Range(FlattenSeq(seqs)) = {}
    BY <2>1, <2>2
  <2> QED
    BY <2>1, <2>3, <2>4, <2>5
<1>2. CASE Len(seqs) # 0
  <2> DEFINE n == Len(seqs)
             f == CHOOSE f : f = FlatFrom(f, seqs)
             Upto(k) == UNION {Range(seqs[i]) : i \in 1..k}
             good == {k \in 1..n : f[k] \in Seq(S) /\ Range(f[k]) = Upto(k)}
  <2>0. n \in Nat \ {0} /\ \A i \in 1..n : seqs[i] \in Seq(S)
    BY <1>2
  <2>1. f = FlatFrom(f, seqs)
    BY <1>2, FlatExists
  <2>2. FlattenSeq(seqs) = f[n]
    BY <1>2, FlatDef
  <2> HIDE DEF f
  <2>3. \A k \in 1..n : f[k] = IF k = 1 THEN seqs[k] ELSE f[k - 1] \o seqs[k]
    BY <2>1 DEF FlatFrom
  <2>4. 1 \in good
    <3>1. Upto(1) = Range(seqs[1]) /\ 1 \in 1..n
      BY <2>0
    <3> QED
      BY <2>0, <2>3, <3>1
  <2>5. ASSUME NEW k \in 2..n, k - 1 \in good PROVE k \in good
    <3>1. k - 1 \in 1..n /\ k \in 1..n /\ k # 1
      BY <2>0
    <3>2. f[k - 1] \in Seq(S) /\ Range(f[k - 1]) = Upto(k - 1) /\ seqs[k] \in Seq(S)
      BY <2>0, <2>5, <3>1
    <3>3. f[k] = f[k - 1] \o seqs[k]
      BY <2>3, <3>1
    <3>4. Range(f[k - 1] \o seqs[k]) = Range(f[k - 1]) \cup Range(seqs[k])
      BY <3>2, RangeOfConcat
    <3>5. 1..k = (1..(k - 1)) \cup {k}
      BY <3>1
    <3>6. Upto(k) = Upto(k - 1) \cup Range(seqs[k])
      BY <3>5
    <3>7. f[k] \in Seq(S)
      BY <3>2, <3>3
    <3> HIDE DEF Upto
    <3> QED
      BY <3>1, <3>2, <3>3, <3>4, <3>6, <3>7
  <2>6. n \in good
    <3> HIDE DEF good, n
    <3>1. \A k \in 2..n : k - 1 \in good => k \in good
      BY <2>5
    <3>2. 1 + 1 = 2 /\ 1 \in Nat /\ n \in Nat /\ n \in 1..n
      BY <2>0
    <3>3. \A k \in 1..n : k \in good
      BY <2>4, <3>1, <3>2, Climbs
    <3> QED
      BY <3>2, <3>3
  <2> QED
    BY <2>2, <2>6
<1> QED
  BY <1>1, <1>2

-----------------------------------------------------------------------------
(***************************************************************************)
(* Goldens.  What a machine may be: its bundles are there, whole or not,  *)
(* and it has a driver that answers, or none, or one that does not.        *)
(***************************************************************************)
MachineOK(m) ==
    /\ \A c \in Names_ \cup Pair : m.bundle[c] \in {Missing, "broken", "whole"}
    /\ m.driver \in {"works", "absent", "no device", "crashes", "stale"}

(* A golden is missing, torn, or what some tool printed of some file.        *)
TextOK(what, text) ==
    \/ text \in {NoText, TornText}
    \/ what = "document" /\ \E tool : text = [what |-> "document", tool |-> tool, bundle |-> "whole"]
    \/ /\ what # "document"
       /\ \E tool, file : text = [what |-> what, tool |-> tool, file |-> file,
                                 place |-> "<capture>", engine |-> "<engine>"]

CorpusOK == DOMAIN golden = Texts /\ \A c, what : <<c, what>> \in Texts => TextOK(what, Held(c, what))

(* What a check asks of a capture, and whether the answer is wrong.          *)
Asked(c) == {"identity", "labels", "bundle"} \cup Range(Commands[c]) \cup (IF c \in Driven THEN {"driver"} ELSE {})
Due(only) == UNION {{<<c, what>> : what \in Asked(c)} : c \in Selected(only)}

Fails_(c, what) ==
    \/ what = "identity" /\ here.file[c] # TheFile
    \/ what \in Range(Commands[c]) /\ Differs(c, what)
    \/ /\ what = "driver" /\ here.driver \notin {"absent", "no device"}
       /\ here.driver = "crashes" \/ Differs(c, what)
    \/ what = "labels" /\ (~here.chunkMap \/ here.file[c] # TheFile \/ here.tool # 1)
    \/ /\ what = "bundle" /\ here.bundle[c] # Missing
       /\ here.bundle[c] = "broken" \/ here.tool # 1 \/ Held(c, "document") # Document(c)

Work == Names_ \X (OtherTasks \cup UNION {Range(Commands[c]) : c \in Names_})
Schema == <<"driver", "schema">>
Runs_ == [mode : {"idle", "check", "write", "checked", "wrote", "refused"}, only : Names_ \cup {All_},
          tasks : Seq(Work), compared : SUBSET Names_, wrong : SUBSET (Work \cup {Schema})]

PairFinds ==
    LET bundles == {here.bundle[c] : c \in Pair}
    IN  IF Missing \in bundles THEN "skipped" ELSE IF "broken" \in bundles THEN "fails"
        ELSE IF here.tool # 1 THEN "differs" ELSE "same"

(* Of a check under way or over: what is wrong so far was found so, and what *)
(* is neither wrong nor still to do was found right.                         *)
Judged ==
    run.mode \in {"check", "checked"} =>
        /\ CorpusLoads /\ run.compared = Selected(run.only)
        /\ Range(run.tasks) \subseteq Due(run.only)
        /\ \A c, what : <<c, what>> \in Due(run.only) =>
              \/ <<c, what>> \in Range(run.tasks)
              \/ Fails_(c, what) => <<c, what>> \in run.wrong
        /\ \A t \in run.wrong : \/ here.driver = "stale"
                                \/ \E c, what : t = <<c, what>> /\ t \in Due(run.only) /\ Fails_(c, what)
        /\ here.driver = "stale" => run.wrong # {}
        /\ pairThread = IF run.only # All_ THEN "none" ELSE IF pairThread = "running" THEN "running" ELSE PairFinds
        /\ run.mode = "checked" => run.tasks = <<>> /\ pairThread # "running"

GoldensInv ==
    /\ run \in Runs_ /\ MachineOK(here) /\ CorpusOK /\ Judged
    /\ run.mode = "refused" => ~CorpusLoads

-----------------------------------------------------------------------------
(* The tasks of a run are those of the captures it selects.                  *)
LEMMA TasksOfIs ==
    ASSUME NEW c \in Names_, NEW mode \in {"check", "write"}
    PROVE  /\ TasksOf(c, mode) \in Seq(Work)
           /\ mode = "check" => Range(TasksOf(c, mode)) = {<<c, what>> : what \in Asked(c)}
<1> DEFINE first == <<<<c, "identity">>>>
           commands == [i \in 1..Len(Commands[c]) |-> <<c, Commands[c][i]>>]
           driver == IF c \in Driven THEN <<<<c, "driver">>>> ELSE <<>>
           rest == IF mode = "write" THEN <<<<c, "document">>>> ELSE <<<<c, "labels">>, <<c, "bundle">>>>
<1>0. {"identity", "driver", "labels", "bundle", "document"} = OtherTasks
  BY DEF OtherTasks
<1>1. first \in Seq(Work) /\ Range(first) = {<<c, "identity">>}
  BY <1>0, RangeOfFew DEF Work
<1>2. commands \in Seq(Work) /\ Range(commands) = {<<c, what>> : what \in Range(Commands[c])}
  <2>1. Commands[c] \in Seq(Range(Commands[c]))
    BY GoldensAssumption
  <2>2. \A i \in 1..Len(Commands[c]) : Commands[c][i] \in Range(Commands[c])
    BY <2>1 DEF Range
  <2>3. \A what \in Range(Commands[c]) : <<c, what>> \in Work
    BY DEF Work
  <2>4. commands \in Seq(Work)
    BY <2>1, <2>2, <2>3
  <2>5. DOMAIN commands = DOMAIN Commands[c]
    BY <2>1
  <2> QED
    BY <2>1, <2>4, <2>5 DEF Range
<1>3. driver \in Seq(Work) /\ Range(driver) = IF c \in Driven THEN {<<c, "driver">>} ELSE {}
  <2>1. <<c, "driver">> \in Work
    BY <1>0 DEF Work
  <2>2. <<>> \in Seq(Work) /\ <<<<c, "driver">>>> \in Seq(Work)
    BY <2>1
  <2>3. Range(<<<<c, "driver">>>>) = {<<c, "driver">>}
    BY RangeOfFew
  <2> QED
    BY <2>2, <2>3, RangeOfFew
<1>4. /\ rest \in Seq(Work)
      /\ mode = "check" => Range(rest) = {<<c, "labels">>, <<c, "bundle">>}
  <2>1. <<c, "document">> \in Work /\ <<c, "labels">> \in Work /\ <<c, "bundle">> \in Work
    BY <1>0 DEF Work
  <2>2. <<<<c, "document">>>> \in Seq(Work) /\ <<<<c, "labels">>, <<c, "bundle">>>> \in Seq(Work)
    BY <2>1
  <2>3. Range(<<<<c, "labels">>, <<c, "bundle">>>>) = {<<c, "labels">>, <<c, "bundle">>}
    BY RangeOfFew
  <2> QED
    BY <2>2, <2>3
<1> DEFINE two == first \o commands
           three == two \o driver
<1>5. TasksOf(c, mode) = three \o rest
  BY DEF TasksOf
<1> HIDE DEF first, commands, driver, rest
<1>6. two \in Seq(Work) /\ Range(two) = Range(first) \cup Range(commands)
  BY <1>1, <1>2, RangeOfConcat
<1> HIDE DEF two
<1>7. three \in Seq(Work) /\ Range(three) = Range(two) \cup Range(driver)
  BY <1>3, <1>6, RangeOfConcat
<1> HIDE DEF three
<1>8. TasksOf(c, mode) \in Seq(Work) /\ Range(TasksOf(c, mode)) = Range(three) \cup Range(rest)
  BY <1>4, <1>5, <1>7, RangeOfConcat
<1>9. ASSUME mode = "check" PROVE Range(TasksOf(c, mode)) = {<<c, what>> : what \in Asked(c)}
  <2>1. Range(TasksOf(c, mode)) = {<<c, "identity">>} \cup {<<c, what>> : what \in Range(Commands[c])}
          \cup (IF c \in Driven THEN {<<c, "driver">>} ELSE {}) \cup {<<c, "labels">>, <<c, "bundle">>}
    BY <1>1, <1>2, <1>3, <1>4, <1>6, <1>7, <1>8, <1>9
  <2> QED
    BY <2>1 DEF Asked
<1> QED
  BY <1>8, <1>9

LEMMA TasksAre ==
    ASSUME NEW only, NEW mode \in {"check", "write"}
    PROVE  Tasks(mode, only) \in Seq(Work) /\ (mode = "check" => Range(Tasks(mode, only)) = Due(only))
<1> DEFINE lists == [i \in 1..Len(Captures) |->
                        IF Captures[i] \in Selected(only) THEN TasksOf(Captures[i], mode) ELSE <<>>]
<1>0. /\ Captures \in Seq(Names_) /\ Len(Captures) \in Nat /\ \A i \in 1..Len(Captures) : Captures[i] \in Names_
      /\ \A c \in Names_ : \E i \in 1..Len(Captures) : Captures[i] = c
  BY GoldensAssumption DEF Names_, Range
<1>1. lists \in Seq(Seq(Work)) /\ Len(lists) = Len(Captures)
  <2>1. ASSUME NEW i \in 1..Len(Captures)
        PROVE  (IF Captures[i] \in Selected(only) THEN TasksOf(Captures[i], mode) ELSE <<>>) \in Seq(Work)
    <3>1. Captures[i] \in Names_ /\ <<>> \in Seq(Work)
      BY <1>0
    <3>2. TasksOf(Captures[i], mode) \in Seq(Work)
      BY <3>1, TasksOfIs
    <3> QED
      BY <3>1, <3>2
  <2> QED
    BY <1>0, <2>1
<1>2. \A i \in 1..Len(Captures) :
        lists[i] = IF Captures[i] \in Selected(only) THEN TasksOf(Captures[i], mode) ELSE <<>>
  OBVIOUS
<1>3. Tasks(mode, only) = FlattenSeq(lists)
  BY DEF Tasks
<1> HIDE DEF lists
<1>4. Tasks(mode, only) \in Seq(Work) /\ Range(Tasks(mode, only)) = UNION {Range(lists[i]) : i \in 1..Len(Captures)}
  BY <1>1, <1>3, FlattenIs
<1>5. ASSUME mode = "check" PROVE UNION {Range(lists[i]) : i \in 1..Len(Captures)} = Due(only)
  <2>1. \A i \in 1..Len(Captures) :
          Range(lists[i]) = IF Captures[i] \in Selected(only) THEN {<<Captures[i], what>> : what \in Asked(Captures[i])} ELSE {}
    <3> SUFFICES ASSUME NEW i \in 1..Len(Captures)
                 PROVE  Range(lists[i]) = IF Captures[i] \in Selected(only) THEN {<<Captures[i], what>> : what \in Asked(Captures[i])} ELSE {}
      OBVIOUS
    <3>1. CASE Captures[i] \in Selected(only)
      <4>1. lists[i] = TasksOf(Captures[i], mode)
        BY <1>2, <3>1
      <4> QED
        BY <1>0, <1>5, <3>1, <4>1, TasksOfIs
    <3>2. CASE Captures[i] \notin Selected(only)
      <4>1. lists[i] = <<>>
        BY <1>2, <3>2
      <4> QED
        BY <3>2, <4>1, RangeOfFew
    <3> QED
      BY <3>1, <3>2
  <2>2. Selected(only) \subseteq Names_
    BY DEF Selected
  <2>3. ASSUME NEW i \in 1..Len(Captures), NEW t \in Range(lists[i]) PROVE t \in Due(only)
    <3>1. Captures[i] \in Selected(only) /\ t \in {<<Captures[i], what>> : what \in Asked(Captures[i])}
      BY <2>1, <2>3
    <3> QED
      BY <3>1 DEF Due
  <2>4. ASSUME NEW t \in Due(only) PROVE \E i \in 1..Len(Captures) : t \in Range(lists[i])
    <3>1. PICK c \in Selected(only) : t \in {<<c, what>> : what \in Asked(c)}
      BY <2>4 DEF Due
    <3>2. PICK i \in 1..Len(Captures) : Captures[i] = c
      BY <1>0, <2>2, <3>1
    <3> QED
      BY <2>1, <3>1, <3>2
  <2> QED
    BY <2>3, <2>4
<1> QED
  BY <1>4, <1>5

(* A transcript is of the capture's file as it is and of the tool that runs.  *)
LEMMA TranscriptIs ==
    ASSUME NEW c, NEW what
    PROVE  Transcript(what, c) = [what |-> what, tool |-> here.tool, file |-> here.file[c],
                                  place |-> "<capture>", engine |-> "<engine>"]
<1>1. Redact(Raw(what, c)) = [what |-> what, tool |-> here.tool, file |-> here.file[c],
                              place |-> "<capture>", engine |-> here.engine]
  BY DEF Redact, Raw
<1>2. [[what |-> what, tool |-> here.tool, file |-> here.file[c], place |-> "<capture>", engine |-> here.engine]
          EXCEPT !.engine = "<engine>"] =
       [what |-> what, tool |-> here.tool, file |-> here.file[c], place |-> "<capture>", engine |-> "<engine>"]
  OBVIOUS
<1> QED
  BY <1>1, <1>2 DEF Transcript, NormaliseDriver

LEMMA TextsAre ==
    ASSUME NEW c \in Names_, NEW what
    PROVE  <<c, what>> \in Texts <=> what \in Range(Commands[c]) \/ (what = "driver" /\ c \in Driven) \/ what = "document"
BY DEF Texts

(* What a step writes into the corpus is a text of the capture's.            *)
LEMMA KeepOK ==
    ASSUME CorpusOK, NEW c \in Names_, NEW what, NEW text, TextOK(what, text), Keep(c, what, text)
    PROVE  CorpusOK'
<1>1. /\ DOMAIN golden = Texts /\ DOMAIN golden' = Texts
      /\ \A t \in Texts : golden'[t] = IF t = <<c, what>> THEN text ELSE golden[t]
  BY DEF Keep, CorpusOK
<1>2. ASSUME NEW d, NEW w, <<d, w>> \in Texts PROVE TextOK(w, golden'[<<d, w>>])
  <2>1. CASE <<d, w>> = <<c, what>>
    BY <1>1, <1>2, <2>1
  <2>2. CASE <<d, w>> # <<c, what>>
    BY <1>1, <1>2, <2>2 DEF CorpusOK, Held
  <2> QED
    BY <2>1, <2>2
<1>3. Texts' = Texts
  BY DEF Texts
<1> QED
  BY <1>1, <1>2, <1>3 DEF CorpusOK, Held, TextOK

LEMMA GoldensInitInv ==
    ASSUME NEW machine, MachineOK(machine), GoldensInit(machine)
    PROVE  GoldensInv
<1>1. /\ here = machine /\ golden = [t \in Texts |-> NoText]
      /\ run = [mode |-> "idle", only |-> All_, tasks |-> <<>>, compared |-> {}, wrong |-> {}]
  BY DEF GoldensInit, Idle
<1>2. run \in Runs_
  BY <1>1 DEF Runs_
<1>3. CorpusOK
  BY <1>1 DEF CorpusOK, TextOK, Held
<1> QED
  BY <1>1, <1>2, <1>3 DEF GoldensInv, Judged

(* What a task does to a run that checks: it takes the task off the list and *)
(* notes it when it fails, and the corpus stays.                             *)
LEMMA CheckTask ==
    ASSUME GoldensInv, run.mode = "check", Task
    PROVE  \E c \in Names_ : \E what \in Asked(c) :
             /\ <<c, what>> = Head(run.tasks) /\ <<c, what>> \in Due(run.only)
             /\ run' = [run EXCEPT !.tasks = Tail(run.tasks),
                          !.wrong = run.wrong \cup (IF Fails_(c, what) THEN {<<c, what>>} ELSE {})]
             /\ UNCHANGED <<here, golden, pairThread>>
<1>1. PICK c \in Names_, what \in {Head(run.tasks)[2]} :
          /\ c = Head(run.tasks)[1]
          /\ \/ Identity(c, what) \/ CheckTranscripts(c, what) \/ CheckDriver(c, what)
             \/ CheckLabels(c, what) \/ CheckBundle(c, what) \/ WriteDocument(c, what)
  BY DEF Task
<1>2. /\ run.tasks \in Seq(Work) /\ run.tasks # <<>> /\ UNCHANGED <<here, pairThread>>
      /\ Range(run.tasks) \subseteq Due(run.only)
  BY DEF Task, GoldensInv, Runs_, Judged
<1>3. Head(run.tasks) \in Range(run.tasks) /\ Head(run.tasks) \in Due(run.only) /\ Head(run.tasks) = <<c, what>>
  <2>1. Head(run.tasks) \in Range(run.tasks) /\ Head(run.tasks) \in Work
    BY <1>2 DEF Range
  <2>2. Head(run.tasks) = <<Head(run.tasks)[1], Head(run.tasks)[2]>>
    BY <2>1 DEF Work
  <2> QED
    BY <1>1, <1>2, <2>1, <2>2
<1>4. what \in Asked(c)
  BY <1>3 DEF Due
<1>5. Range(Commands[c]) \cap {"identity", "driver", "labels", "bundle", "document"} = {}
  BY GoldensAssumption DEF OtherTasks
<1>6. what # "document"
  BY <1>4, <1>5 DEF Asked
<1>7. (Judge(Fails_(c, what)) /\ UNCHANGED golden) => 
         /\ run' = [run EXCEPT !.tasks = Tail(run.tasks),
                          !.wrong = run.wrong \cup (IF Fails_(c, what) THEN {<<c, what>>} ELSE {})]
         /\ UNCHANGED golden
  BY <1>3 DEF Judge
<1>8. Judge(Fails_(c, what)) /\ UNCHANGED golden
  <2>1. CASE Identity(c, what)
    <3>1. what = "identity" /\ (Fails_(c, what) <=> here.file[c] # TheFile)
      BY <1>5, <2>1 DEF Identity, Fails_
    <3> QED
      BY <2>1, <3>1 DEF Identity, Judge
  <2>2. CASE CheckTranscripts(c, what)
    <3>1. what \in Range(Commands[c]) /\ (Fails_(c, what) <=> Differs(c, what))
      BY <1>5, <2>2 DEF CheckTranscripts, Fails_
    <3> QED
      BY <2>2, <3>1 DEF CheckTranscripts, Judge
  <2>3. CASE CheckDriver(c, what)
    <3>1. /\ what = "driver"
          /\ Fails_(c, what) <=> /\ here.driver \notin {"absent", "no device"}
                                 /\ here.driver = "crashes" \/ Differs(c, what)
      BY <1>5, <2>3 DEF CheckDriver, Fails_
    <3> QED
      BY <2>3, <3>1 DEF CheckDriver, Judge
  <2>4. CASE CheckLabels(c, what)
    <3>1. what = "labels" /\ (Fails_(c, what) <=> ~here.chunkMap \/ here.file[c] # TheFile \/ here.tool # 1)
      BY <1>5, <2>4 DEF CheckLabels, Fails_
    <3>2. Labelled(what) # [what |-> what, tool |-> here.tool] <=> here.tool # 1
      BY DEF Labelled
    <3> QED
      BY <2>4, <3>1, <3>2 DEF CheckLabels, Judge
  <2>5. CASE CheckBundle(c, what)
    <3>1. /\ what = "bundle"
          /\ Fails_(c, what) <=> /\ here.bundle[c] # Missing
                                 /\ here.bundle[c] = "broken" \/ here.tool # 1 \/ Held(c, "document") # Document(c)
      BY <1>5, <2>5 DEF CheckBundle, Fails_
    <3> QED
      BY <2>5, <3>1 DEF CheckBundle, Judge
  <2>6. CASE WriteDocument(c, what)
    BY <1>6, <2>6 DEF WriteDocument
  <2> QED
    BY <1>1, <2>1, <2>2, <2>3, <2>4, <2>5, <2>6
<1> QED
  BY <1>2, <1>3, <1>4, <1>7, <1>8

(* What depends on the machine and the corpus only stays with them.          *)
LEMMA SameWorld ==
    ASSUME GoldensInv, UNCHANGED <<here, golden>>
    PROVE  /\ CorpusOK' /\ MachineOK(here)' /\ (CorpusLoads' <=> CorpusLoads) /\ PairFinds' = PairFinds
           /\ \A only : Selected(only)' = Selected(only) /\ Due(only)' = Due(only)
           /\ \A c, what : Fails_(c, what)' <=> Fails_(c, what)
<1>1. CorpusOK' /\ MachineOK(here)'
  BY DEF GoldensInv, CorpusOK, MachineOK, Held, Texts
<1>2. (CorpusLoads' <=> CorpusLoads) /\ PairFinds' = PairFinds
  BY DEF CorpusLoads, PairFinds
<1>3. ASSUME NEW only PROVE Selected(only)' = Selected(only) /\ Due(only)' = Due(only)
  <2>1. Selected(only)' = Selected(only)
    BY DEF Selected, Present
  <2> QED
    BY <2>1 DEF Due
<1>4. ASSUME NEW c, NEW what PROVE Fails_(c, what)' <=> Fails_(c, what)
  <2>1. Differs(c, what)' <=> Differs(c, what)
    BY DEF Differs, Held, Transcript, NormaliseDriver, Redact, Raw
  <2>2. Held(c, "document")' = Held(c, "document") /\ Document(c)' = Document(c)
    BY DEF Held, Document
  <2> QED
    BY <2>1, <2>2 DEF Fails_
<1> QED
  BY <1>1, <1>2, <1>3, <1>4

LEMMA CheckTaskKeeps ==
    ASSUME GoldensInv, run.mode = "check", Task
    PROVE  GoldensInv'
<1>1. PICK c \in Names_ : \E what \in Asked(c) :
             /\ <<c, what>> = Head(run.tasks) /\ <<c, what>> \in Due(run.only)
             /\ run' = [run EXCEPT !.tasks = Tail(run.tasks),
                          !.wrong = run.wrong \cup (IF Fails_(c, what) THEN {<<c, what>>} ELSE {})]
             /\ UNCHANGED <<here, golden, pairThread>>
  BY CheckTask
<1>2. PICK what \in Asked(c) :
             /\ <<c, what>> = Head(run.tasks) /\ <<c, what>> \in Due(run.only)
             /\ run' = [run EXCEPT !.tasks = Tail(run.tasks),
                          !.wrong = run.wrong \cup (IF Fails_(c, what) THEN {<<c, what>>} ELSE {})]
             /\ UNCHANGED <<here, golden, pairThread>>
  BY <1>1
<1>3. /\ run.tasks \in Seq(Work) /\ run.tasks # <<>> /\ run \in Runs_
      /\ \A t \in Range(run.tasks) : t = Head(run.tasks) \/ t \in Range(Tail(run.tasks))
      /\ Range(Tail(run.tasks)) \subseteq Range(run.tasks) /\ Head(run.tasks) \in Work /\ Tail(run.tasks) \in Seq(Work)
  <2>1. run.tasks \in Seq(Work) /\ run.tasks # <<>> /\ run \in Runs_
    BY DEF Task, GoldensInv, Runs_
  <2>2. ASSUME NEW i \in DOMAIN run.tasks PROVE run.tasks[i] = Head(run.tasks) \/ run.tasks[i] \in Range(Tail(run.tasks))
    <3>1. CASE i = 1
      BY <2>1, <3>1
    <3>2. CASE i # 1
      <4>1. i - 1 \in DOMAIN Tail(run.tasks) /\ Tail(run.tasks)[i - 1] = run.tasks[i]
        BY <2>1, <3>2
      <4> QED
        BY <4>1 DEF Range
    <3> QED
      BY <3>1, <3>2
  <2>3. ASSUME NEW i \in DOMAIN Tail(run.tasks) PROVE Tail(run.tasks)[i] \in Range(run.tasks)
    <3>1. i + 1 \in DOMAIN run.tasks /\ Tail(run.tasks)[i] = run.tasks[i + 1]
      BY <2>1
    <3> QED
      BY <3>1 DEF Range
  <2>4. Head(run.tasks) \in Work /\ Tail(run.tasks) \in Seq(Work)
    BY <2>1
  <2> QED
    BY <2>1, <2>2, <2>3, <2>4 DEF Range
<1> DEFINE failed == IF Fails_(c, what) THEN {<<c, what>>} ELSE {}
<1>4. /\ run'.tasks = Tail(run.tasks) /\ run'.wrong = run.wrong \cup failed
      /\ run'.mode = "check" /\ run'.only = run.only /\ run'.compared = run.compared
  BY <1>2, <1>3 DEF Runs_
<1>5. run' \in Runs_
  BY <1>2, <1>3 DEF Runs_
<1>6. /\ CorpusOK' /\ MachineOK(here)' /\ (CorpusLoads' <=> CorpusLoads)
      /\ Selected(run.only)' = Selected(run.only) /\ Due(run.only)' = Due(run.only)
      /\ \A d, w : Fails_(d, w)' <=> Fails_(d, w)
      /\ PairFinds' = PairFinds
  BY <1>2, <1>4, SameWorld
<1> HIDE DEF failed
<1>7. Judged'
  <2>1. /\ CorpusLoads /\ run.compared = Selected(run.only)
        /\ Range(run.tasks) \subseteq Due(run.only)
        /\ \A d, w : <<d, w>> \in Due(run.only) =>
              \/ <<d, w>> \in Range(run.tasks)
              \/ Fails_(d, w) => <<d, w>> \in run.wrong
        /\ \A t \in run.wrong : \/ here.driver = "stale"
                                \/ \E d, w : t = <<d, w>> /\ t \in Due(run.only) /\ Fails_(d, w)
        /\ here.driver = "stale" => run.wrong # {}
        /\ pairThread = IF run.only # All_ THEN "none" ELSE IF pairThread = "running" THEN "running" ELSE PairFinds
    BY DEF GoldensInv, Judged
  <2>2. Range(run'.tasks) \subseteq Due(run.only)
    BY <1>3, <1>4, <2>1
  <2>3. \A d, w : <<d, w>> \in Due(run.only) =>
              \/ <<d, w>> \in Range(run'.tasks)
              \/ Fails_(d, w) => <<d, w>> \in run'.wrong
    <3> SUFFICES ASSUME NEW d, NEW w, <<d, w>> \in Due(run.only), <<d, w>> \notin Range(run'.tasks), Fails_(d, w)
                 PROVE  <<d, w>> \in run'.wrong
      OBVIOUS
    <3>1. CASE <<d, w>> = <<c, what>>
      BY <1>4, <3>1 DEF failed
    <3>2. CASE <<d, w>> # <<c, what>>
      BY <1>2, <1>3, <1>4, <2>1, <3>2
    <3> QED
      BY <3>1, <3>2
  <2>4. \A t \in run'.wrong : \/ here.driver = "stale"
                              \/ \E d, w : t = <<d, w>> /\ t \in Due(run.only) /\ Fails_(d, w)
    BY <1>2, <1>4, <2>1 DEF failed
  <2>5. here.driver = "stale" => run'.wrong # {}
    BY <1>4, <2>1
  <2>6. here' = here /\ pairThread' = pairThread
    BY <1>2
  <2> QED
    BY <1>4, <1>6, <2>1, <2>2, <2>3, <2>4, <2>5, <2>6 DEF Judged
<1> QED
  BY <1>4, <1>5, <1>6, <1>7 DEF GoldensInv

LEMMA WriteTaskKeeps ==
    ASSUME GoldensInv, run.mode = "write", Task
    PROVE  GoldensInv'
<1>1. PICK c \in Names_, what \in {Head(run.tasks)[2]} :
          /\ c = Head(run.tasks)[1]
          /\ \/ Identity(c, what) \/ CheckTranscripts(c, what) \/ CheckDriver(c, what)
             \/ CheckLabels(c, what) \/ CheckBundle(c, what) \/ WriteDocument(c, what)
  BY DEF Task
<1>2. /\ run.tasks \in Seq(Work) /\ run.tasks # <<>> /\ UNCHANGED <<here, pairThread>> /\ run \in Runs_
      /\ CorpusOK /\ MachineOK(here)
  BY DEF Task, GoldensInv, Runs_
<1>3. Head(run.tasks) \in Work /\ Tail(run.tasks) \in Seq(Work)
  BY <1>2
<1>4. \E wrong \in BOOLEAN : Judge(wrong)
  BY <1>1 DEF Identity, CheckTranscripts, CheckDriver, CheckLabels, CheckBundle, WriteDocument
<1>5. run' \in Runs_ /\ run'.mode = "write"
  <2>1. PICK wrong \in BOOLEAN : Judge(wrong)
    BY <1>4
  <2>2. {Head(run.tasks)} \subseteq Work
    BY <1>3
  <2> QED
    BY <1>2, <1>3, <2>1, <2>2 DEF Judge, Runs_
<1>6. Range(Commands[c]) \cap {"identity", "driver", "labels", "bundle", "document"} = {}
  BY GoldensAssumption DEF OtherTasks
<1>7. what # "document" => TextOK(what, Transcript(what, c))
  BY TranscriptIs DEF TextOK
<1>8. CorpusOK'
  <2>1. CASE UNCHANGED golden
    BY <1>2, <2>1 DEF CorpusOK, Held, Texts
  <2>2. CASE what \in Range(Commands[c]) /\ Keep(c, what, Transcript(what, c))
    BY <1>2, <1>6, <1>7, <2>2, KeepOK
  <2>3. CASE what = "driver" /\ Keep(c, what, Transcript(what, c))
    BY <1>2, <1>7, <2>3, KeepOK
  <2>4. CASE what = "document" /\ here.bundle[c] = "whole" /\ Keep(c, what, Document(c))
    <3>1. TextOK(what, Document(c))
      BY <2>4 DEF TextOK, Document
    <3> QED
      BY <1>2, <2>4, <3>1, KeepOK
  <2> QED
    BY <1>1, <2>1, <2>2, <2>3, <2>4
       DEF Identity, CheckTranscripts, CheckDriver, CheckLabels, CheckBundle, WriteDocument
<1>9. MachineOK(here)'
  BY <1>2 DEF MachineOK
<1> QED
  BY <1>5, <1>8, <1>9 DEF GoldensInv, Judged

LEMMA GoldensInvStep ==
    ASSUME NEW machines, \A machine \in machines : MachineOK(machine), GoldensInv,
           [GoldensStep \/ \E machine \in machines : Change(machine)]_goldenVars
    PROVE  GoldensInv'
<1>1. ASSUME UNCHANGED goldenVars PROVE GoldensInv'
  <2>1. UNCHANGED <<here, golden, run, pairThread>>
    BY <1>1 DEF goldenVars
  <2>2. CorpusOK' /\ MachineOK(here)' /\ (CorpusLoads' <=> CorpusLoads) /\ run' \in Runs_ /\ PairFinds' = PairFinds
    BY <2>1, SameWorld DEF GoldensInv
  <2>3. Due(run.only)' = Due(run.only) /\ Selected(run.only)' = Selected(run.only)
    <3>1. run'.only = run.only
      BY <2>1
    <3>2. Selected(run.only)' = Selected(run.only)
      BY <2>1 DEF Selected, Present
    <3> QED
      BY <3>1, <3>2 DEF Due
  <2>4. \A d, w : Fails_(d, w)' <=> Fails_(d, w)
    BY <2>1, SameWorld
  <2>5. Judged'
    BY <2>1, <2>2, <2>3, <2>4 DEF Judged, GoldensInv
  <2> QED
    BY <2>1, <2>2, <2>5 DEF GoldensInv
<1>2. ASSUME NEW machine \in machines, Change(machine) PROVE GoldensInv'
  BY <1>2 DEF Change, GoldensInv, MachineOK, CorpusOK, Held, Texts, Judged
<1>3. ASSUME NEW mode \in {"check", "write"}, NEW only \in Names_ \cup {All_}, Start(mode, only) PROVE GoldensInv'
  <2>1. /\ CorpusLoads /\ UNCHANGED <<here, golden>>
        /\ run' = [mode |-> mode, only |-> only, tasks |-> Tasks(mode, only), compared |-> Selected(only),
                   wrong |-> IF mode = "check" /\ here.driver = "stale" THEN {Schema} ELSE {}]
        /\ pairThread' = IF mode = "check" /\ only = All_ THEN "running" ELSE "none"
    BY <1>3 DEF Start, Schema
  <2>2. Tasks(mode, only) \in Seq(Work) /\ (mode = "check" => Range(Tasks(mode, only)) = Due(only))
    BY TasksAre
  <2>3. Selected(only) \subseteq Names_
    BY DEF Selected
  <2>4. run' \in Runs_
    BY <2>1, <2>2, <2>3 DEF Runs_
  <2>5. CorpusOK' /\ MachineOK(here)' /\ CorpusLoads' /\ Selected(only)' = Selected(only) /\ Due(only)' = Due(only)
    <3>1. CorpusOK' /\ MachineOK(here)'
      BY <2>1 DEF GoldensInv, CorpusOK, Held, Texts, MachineOK
    <3>2. CorpusLoads' /\ Selected(only)' = Selected(only)
      BY <2>1 DEF CorpusLoads, Selected, Present
    <3> QED
      BY <3>1, <3>2 DEF Due
  <2>6. Judged'
    BY <2>1, <2>2, <2>5 DEF Judged
  <2> QED
    BY <2>1, <2>4, <2>5, <2>6 DEF GoldensInv
<1>4. ASSUME Refuse PROVE GoldensInv'
  <2>1. run' \in Runs_ /\ run'.mode = "refused"
    <3>1. run' = [mode |-> "refused", only |-> All_, tasks |-> <<>>, compared |-> {}, wrong |-> {}]
      BY <1>4 DEF Refuse, Idle
    <3> QED
      BY <3>1 DEF Runs_
  <2>2. CorpusOK' /\ MachineOK(here)' /\ ~CorpusLoads'
    BY <1>4 DEF Refuse, GoldensInv, CorpusOK, Held, Texts, MachineOK, CorpusLoads
  <2> QED
    BY <2>1, <2>2 DEF GoldensInv, Judged
<1>5. ASSUME Task PROVE GoldensInv'
  BY <1>5, CheckTaskKeeps, WriteTaskKeeps DEF Task
<1>6. ASSUME run' \in Runs_, run'.mode \in {"idle", "wrote"}, here' = here, CorpusOK' PROVE GoldensInv'
  BY <1>6 DEF GoldensInv, Judged, MachineOK
<1>7. ASSUME CheckPair PROVE GoldensInv'
  <2>1. UNCHANGED <<here, golden, run>> /\ pairThread = "running" /\ pairThread' = PairFinds /\ PairFinds # "running"
    BY <1>7 DEF CheckPair, PairFinds
  <2>2. CorpusOK' /\ MachineOK(here)' /\ (CorpusLoads' <=> CorpusLoads) /\ run' \in Runs_ /\ PairFinds' = PairFinds
    BY <2>1, SameWorld DEF GoldensInv
  <2>3. Due(run.only)' = Due(run.only) /\ Selected(run.only)' = Selected(run.only)
    <3>1. run'.only = run.only
      BY <2>1
    <3>2. Selected(run.only)' = Selected(run.only)
      BY <2>1 DEF Selected, Present
    <3> QED
      BY <3>1, <3>2 DEF Due
  <2>4. \A d, w : Fails_(d, w)' <=> Fails_(d, w)
    BY <2>1, SameWorld
  <2>5. Judged'
    BY <2>1, <2>2, <2>3, <2>4 DEF Judged, GoldensInv
  <2> QED
    BY <2>1, <2>2, <2>5 DEF GoldensInv
<1>8. ASSUME Finish PROVE GoldensInv'
  <2>1. UNCHANGED <<here, golden, pairThread>> /\ run.tasks = <<>> /\ pairThread # "running" /\ run \in Runs_
    BY <1>8 DEF Finish, GoldensInv
  <2>2. CASE run.mode = "write"
    <3>1. run' \in Runs_ /\ run'.mode = "wrote"
      BY <1>8, <2>1, <2>2 DEF Finish, Runs_
    <3>2. CorpusOK'
      BY <2>1 DEF GoldensInv, CorpusOK, Held, Texts
    <3> QED
      BY <1>6, <2>1, <3>1, <3>2
  <2>3. CASE run.mode = "check"
    <3>1. /\ run' \in Runs_ /\ run'.mode = "checked" /\ run'.only = run.only /\ run'.tasks = run.tasks
          /\ run'.compared = run.compared /\ run'.wrong = run.wrong
      BY <1>8, <2>1, <2>3 DEF Finish, Runs_
    <3>2. CorpusOK' /\ MachineOK(here)' /\ (CorpusLoads' <=> CorpusLoads) /\ PairFinds' = PairFinds
      BY <2>1, SameWorld
    <3>3. Due(run.only)' = Due(run.only) /\ Selected(run.only)' = Selected(run.only)
      <4>1. Selected(run.only)' = Selected(run.only)
        BY <2>1, <3>1 DEF Selected, Present
      <4> QED
        BY <3>1, <4>1 DEF Due
    <3>4. \A d, w : Fails_(d, w)' <=> Fails_(d, w)
      BY <2>1, SameWorld
    <3>5. Judged'
      BY <2>1, <2>3, <3>1, <3>2, <3>3, <3>4 DEF Judged, GoldensInv
    <3> QED
      BY <3>1, <3>2, <3>5 DEF GoldensInv
  <2> QED
    BY <1>8, <2>2, <2>3 DEF Finish
<1>9. ASSUME Killed PROVE GoldensInv'
  <2>1. /\ run' = Idle /\ here' = here
        /\ \/ UNCHANGED golden
           \/ Head(run.tasks) \in DOMAIN golden /\ golden' = [golden EXCEPT ![Head(run.tasks)] = TornText]
    BY <1>9 DEF Killed
  <2>2. run' \in Runs_ /\ run'.mode = "idle"
    BY <2>1 DEF Idle, Runs_
  <2>3. /\ DOMAIN golden = Texts /\ DOMAIN golden' = Texts /\ Texts' = Texts
        /\ \A t \in Texts : golden'[t] \in {golden[t], TornText}
    BY <2>1 DEF GoldensInv, CorpusOK, Texts
  <2>4. CorpusOK'
    <3>1. ASSUME NEW c, NEW what, <<c, what>> \in Texts PROVE TextOK(what, golden'[<<c, what>>])
      <4>1. CASE golden'[<<c, what>>] = TornText
        BY <4>1 DEF TextOK
      <4>2. CASE golden'[<<c, what>>] = golden[<<c, what>>]
        BY <3>1, <4>2 DEF GoldensInv, CorpusOK, Held
      <4> QED
        BY <2>3, <3>1, <4>1, <4>2
    <3> QED
      BY <2>3, <3>1 DEF CorpusOK, Held, TextOK
  <2> QED
    BY <1>6, <2>1, <2>2, <2>4
<1>10. ASSUME Acknowledge PROVE GoldensInv'
  <2>1. run' = Idle /\ UNCHANGED <<here, golden>>
    BY <1>10 DEF Acknowledge
  <2>2. run' \in Runs_ /\ run'.mode = "idle"
    BY <2>1 DEF Idle, Runs_
  <2>3. CorpusOK'
    BY <2>1 DEF GoldensInv, CorpusOK, Held, Texts
  <2> QED
    BY <1>6, <2>1, <2>2, <2>3
<1> QED
  BY <1>1, <1>2, <1>3, <1>4, <1>5, <1>7, <1>8, <1>9, <1>10 DEF GoldensStep

(* A golden is this tool's, of the recorded file, exactly where a comparison *)
(* on that file finds no difference.                                         *)
LEMMA SameIsWritten ==
    ASSUME CorpusOK, NEW c, NEW what, <<c, what>> \in Texts, what # "document", here.file[c] = TheFile
    PROVE  ~Differs(c, what) <=> WrittenByThis(c, what)
<1>1. TextOK(what, Held(c, what))
  BY DEF CorpusOK
<1>2. CASE Held(c, what) \in {NoText, TornText}
  <2>1. "tool" \notin DOMAIN Held(c, what)
    BY <1>2 DEF NoText, TornText
  <2>2. "tool" \in DOMAIN Transcript(what, c)
    BY TranscriptIs
  <2> QED
    BY <1>2, <2>1, <2>2 DEF Differs, WrittenByThis
<1>3. CASE Held(c, what) \notin {NoText, TornText}
  <2>1. PICK tool, file : Held(c, what) = [what |-> what, tool |-> tool, file |-> file,
                                           place |-> "<capture>", engine |-> "<engine>"]
    BY <1>1, <1>3 DEF TextOK
  <2>2. ~Differs(c, what) <=> tool = here.tool /\ file = here.file[c]
    BY <2>1, TranscriptIs DEF Differs
  <2>3. WrittenByThis(c, what) <=> tool = here.tool /\ file = TheFile
    BY <1>3, <2>1 DEF WrittenByThis
  <2> QED
    BY <2>2, <2>3
<1> QED
  BY <1>2, <1>3

LEMMA DocumentIsWritten ==
    ASSUME CorpusOK, NEW c \in Names_, here.bundle[c] = "whole"
    PROVE  Held(c, "document") = Document(c) <=> WrittenByThis(c, "document")
<1>1. TextOK("document", Held(c, "document"))
  BY TextsAre DEF CorpusOK
<1>2. CASE Held(c, "document") \in {NoText, TornText}
  <2>1. "tool" \notin DOMAIN Held(c, "document") /\ "tool" \in DOMAIN Document(c)
    BY <1>2 DEF NoText, TornText, Document
  <2> QED
    BY <1>2, <2>1 DEF WrittenByThis
<1>3. CASE Held(c, "document") \notin {NoText, TornText}
  <2>1. PICK tool : Held(c, "document") = [what |-> "document", tool |-> tool, bundle |-> "whole"]
    BY <1>1, <1>3 DEF TextOK
  <2>2. Held(c, "document") = Document(c) <=> tool = here.tool
    BY <2>1 DEF Document
  <2> QED
    BY <1>3, <2>1, <2>2 DEF WrittenByThis
<1> QED
  BY <1>2, <1>3

(* What a capture must be for none of its tasks to fail.                     *)
LEMMA NothingFails ==
    ASSUME GoldensInv, NEW c \in Names_
    PROVE  (\A what \in Asked(c) : ~Fails_(c, what)) <=>
              /\ here.tool = 1 /\ here.file[c] = TheFile /\ here.chunkMap
              /\ \A what \in Range(Commands[c]) : WrittenByThis(c, what)
              /\ c \in Driven => /\ here.driver # "crashes"
                                 /\ here.driver \notin {"absent", "no device"} => WrittenByThis(c, "driver")
              /\ here.bundle[c] # Missing => here.bundle[c] = "whole" /\ WrittenByThis(c, "document")
<1>0. /\ Range(Commands[c]) \cap {"identity", "driver", "labels", "bundle", "document"} = {}
      /\ CorpusOK /\ here.bundle[c] \in {Missing, "broken", "whole"}
  BY GoldensAssumption DEF OtherTasks, GoldensInv, MachineOK
<1>1. Fails_(c, "identity") <=> here.file[c] # TheFile
  BY <1>0 DEF Fails_
<1>2. Fails_(c, "labels") <=> ~here.chunkMap \/ here.file[c] # TheFile \/ here.tool # 1
  BY <1>0 DEF Fails_
<1>3. ASSUME NEW what \in Range(Commands[c]), here.file[c] = TheFile PROVE Fails_(c, what) <=> ~WrittenByThis(c, what)
  <2>1. Fails_(c, what) <=> Differs(c, what)
    BY <1>0, <1>3 DEF Fails_
  <2>2. <<c, what>> \in Texts /\ what # "document"
    BY <1>0, <1>3, TextsAre
  <2> QED
    BY <1>0, <1>3, <2>1, <2>2, SameIsWritten
<1>4. ASSUME c \in Driven, here.file[c] = TheFile
      PROVE  ~Fails_(c, "driver") <=> /\ here.driver # "crashes"
                                      /\ here.driver \notin {"absent", "no device"} => WrittenByThis(c, "driver")
  <2>1. Fails_(c, "driver") <=> /\ here.driver \notin {"absent", "no device"}
                                /\ here.driver = "crashes" \/ Differs(c, "driver")
    BY <1>0 DEF Fails_
  <2>2. <<c, "driver">> \in Texts
    BY <1>4, TextsAre
  <2> QED
    BY <1>0, <1>4, <2>1, <2>2, SameIsWritten
<1>5. ASSUME here.tool = 1
      PROVE  ~Fails_(c, "bundle") <=>
               (here.bundle[c] # Missing => here.bundle[c] = "whole" /\ WrittenByThis(c, "document"))
  <2>1. Fails_(c, "bundle") <=> /\ here.bundle[c] # Missing
                                /\ here.bundle[c] = "broken" \/ here.tool # 1 \/ Held(c, "document") # Document(c)
    BY <1>0 DEF Fails_
  <2> QED
    BY <1>0, <1>5, <2>1, DocumentIsWritten
<1>6. \A what : what \in Asked(c) <=>
              \/ what \in {"identity", "labels", "bundle"}
              \/ what \in Range(Commands[c])
              \/ c \in Driven /\ what = "driver"
  BY DEF Asked
<1> QED
  BY <1>1, <1>2, <1>3, <1>4, <1>5, <1>6

LEMMA VerdictFromInv == GoldensInv => VerdictSpeaksForTheCorpus
<1> SUFFICES ASSUME GoldensInv, run.mode \in {"checked", "refused"} PROVE VerdictSpeaksForTheCorpus
  BY DEF VerdictSpeaksForTheCorpus
<1>1. CASE run.mode = "refused"
  <2>1. Exit = 2 /\ ~CorpusLoads
    BY <1>1 DEF Exit, GoldensInv
  <2> QED
    BY <2>1 DEF VerdictSpeaksForTheCorpus
<1>2. CASE run.mode = "checked"
  <2> DEFINE chosen == Selected(run.only)
             paired == run.only = All_ /\ \A c \in Pair : here.bundle[c] # Missing
             Speaks(c) == /\ here.file[c] = TheFile /\ here.chunkMap
                          /\ \A what \in Range(Commands[c]) : WrittenByThis(c, what)
                          /\ c \in Driven => /\ here.driver # "crashes"
                                             /\ here.driver = "works" => WrittenByThis(c, "driver")
                          /\ here.bundle[c] # Missing => here.bundle[c] = "whole" /\ WrittenByThis(c, "document")
  <2>1. /\ CorpusLoads /\ run.compared = chosen /\ run.tasks = <<>> /\ pairThread # "running"
        /\ pairThread = IF run.only # All_ THEN "none" ELSE PairFinds
        /\ \A c, what : <<c, what>> \in Due(run.only) => (Fails_(c, what) => <<c, what>> \in run.wrong)
        /\ \A t \in run.wrong : \/ here.driver = "stale"
                                \/ \E c, what : t = <<c, what>> /\ t \in Due(run.only) /\ Fails_(c, what)
        /\ here.driver = "stale" => run.wrong # {}
    BY <1>2, RangeOfFew DEF GoldensInv, Judged
  <2>2. chosen \subseteq Names_
    BY DEF Selected
  <2>3. run.wrong = {} <=> here.driver # "stale" /\ \A c \in chosen : \A what \in Asked(c) : ~Fails_(c, what)
    <3>1. \A c \in chosen : \A what \in Asked(c) : <<c, what>> \in Due(run.only)
      BY DEF Due
    <3>2. \A c, what : <<c, what>> \in Due(run.only) => c \in chosen /\ what \in Asked(c)
      BY DEF Due
    <3> QED
      BY <2>1, <3>1, <3>2
  <2>4. run.wrong = {} <=> /\ here.driver # "stale" /\ (chosen = {} \/ here.tool = 1)
                           /\ \A c \in chosen : Speaks(c)
    <3>1. ASSUME here.driver # "stale", NEW c \in chosen
          PROVE  (\A what \in Asked(c) : ~Fails_(c, what)) <=> here.tool = 1 /\ Speaks(c)
      <4>1. here.driver \notin {"absent", "no device", "crashes"} <=> here.driver = "works"
        BY <3>1 DEF GoldensInv, MachineOK
      <4> QED
        BY <2>2, <4>1, NothingFails
    <3> QED
      BY <2>3, <3>1
  <2>5. pairThread \in {"none", "skipped", "fails", "differs", "same"} /\
        (pairThread \in {"fails", "differs", "same"} <=> paired) /\
        (pairThread \notin {"fails", "differs"} <=>
            (paired => here.tool = 1 /\ \A c \in Pair : here.bundle[c] = "whole"))
    <3>1. \A c \in Pair : here.bundle[c] \in {Missing, "broken", "whole"}
      BY DEF GoldensInv, MachineOK
    <3> QED
      BY <2>1, <3>1 DEF PairFinds, Missing
  <2>6. Exit = 0 <=> /\ chosen # {} \/ pairThread \in {"same", "differs"}
                     /\ run.wrong = {} /\ pairThread \notin {"differs", "fails"}
    BY <1>2, <2>1 DEF Exit
  <2>7. Exit = 0 <=>
              /\ CorpusLoads
              /\ chosen # {} \/ paired
              /\ here.tool = 1 \/ (chosen = {} /\ ~paired)
              /\ here.driver # "stale"
              /\ \A c \in chosen : Speaks(c)
              /\ paired => \A c \in Pair : here.bundle[c] = "whole"
    BY <2>1, <2>4, <2>5, <2>6
  <2> QED
    BY <1>2, <2>7 DEF VerdictSpeaksForTheCorpus
<1> QED
  BY <1>1, <1>2

(* Whatever was checked, written, killed or changed before it, on whatever   *)
(* machines, a check exits 0 exactly when it compared something and          *)
(* everything this machine can produce is pinned as it produces it.          *)
THEOREM VerdictsSpeak ==
    ASSUME NEW machines, \A machine \in machines : MachineOK(machine)
    PROVE  GoldensSpec(machines) => []VerdictSpeaksForTheCorpus
<1>1. (\E machine \in machines : GoldensInit(machine)) => GoldensInv
  BY GoldensInitInv
<1>2. GoldensInv /\ [GoldensStep \/ \E machine \in machines : Change(machine)]_goldenVars => GoldensInv'
  BY GoldensInvStep
<1> QED
  BY <1>1, <1>2, VerdictFromInv, PTL DEF GoldensSpec

-----------------------------------------------------------------------------
(***************************************************************************)
(* Markers, of a stream `s` of `n` chunks: how deep each chunk leaves the  *)
(* nesting, what lies within a push, and the pass it is.                   *)
(***************************************************************************)
DepthFrom(f, s) ==
    [k \in 0..Len(s) |->
        IF k = 0 THEN 0
        ELSE CASE s[k].op = "push" -> f[k - 1] + 1
               [] s[k].op = "pop" /\ f[k - 1] > 0 -> f[k - 1] - 1
               [] OTHER -> f[k - 1]]
DepthOf(s) == CHOOSE f : f = DepthFrom(f, s)
Deeper(c, d) ==
    CASE c.op = "push" -> d + 1
      [] c.op = "pop" /\ d > 0 -> d - 1
      [] OTHER -> d

Depths(D, s, n) == D \in [0..n -> Nat] /\ D[0] = 0 /\ \A k \in 1..n : D[k] = Deeper(s[k], D[k - 1])

Pushes(s, n) == {i \in 1..n : s[i].op = "push"}
Within(D, i, j) == \A k \in i..j : D[k] >= D[i]
CallsIn(s, D, n, i) == {j \in i..n : Within(D, i, j) /\ s[j].op = "draw"}
Around(s, D, n, i) == {j \in Pushes(s, n) : i \in j..n /\ Within(D, j, i)}
ScopeOf(s, D, n, i) ==
    [path |-> [d \in 1..Cardinality(Around(s, D, n, i)) |-> s[CHOOSE j \in Around(s, D, n, i) : D[j] = d].name],
     depth |-> D[i] - 1, chunk |-> i,
     last |-> CHOOSE x \in CallsIn(s, D, n, i) : \A y \in CallsIn(s, D, n, i) : y <= x,
     calls |-> Cardinality(CallsIn(s, D, n, i))]

LEMMA DeeperIs == ASSUME NEW c, NEW d \in Nat PROVE Deeper(c, d) \in Nat
BY DEF Deeper

LEMMA DepthIs ==
    ASSUME NEW s, NEW n \in Nat, Len(s) = n
    PROVE  Depths(DepthOf(s), s, n)
<1> DEFINE G == [k \in 1..n |-> [d \in Nat |-> Deeper(s[k], d)]]
<1>1. G \in [1..n -> [Nat -> Nat]]
  BY DeeperIs
<1>2. Chainable(n, Nat, 0, G)
  BY <1>1 DEF Chainable
<1>3. \A k \in 1..n, d \in Nat : G[k][d] = Deeper(s[k], d)
  OBVIOUS
<1> HIDE DEF G
<1>4. PICK f : ChainOf(f, n, Nat, 0, G)
  BY <1>2, ChainExists
<1>5. f \in [0..n -> Nat] /\ f[0] = 0 /\ \A k \in 1..n : f[k] = Deeper(s[k], f[k - 1])
  <2>1. \A k \in 1..n : k - 1 \in 0..n
    OBVIOUS
  <2> QED
    BY <1>3, <1>4, <2>1 DEF ChainOf
<1>6. f = DepthFrom(f, s)
  <2>1. \A k \in 0..n : f[k] = IF k = 0 THEN 0 ELSE Deeper(s[k], f[k - 1])
    BY <1>5
  <2> QED
    BY <1>5, <2>1 DEF DepthFrom, Deeper
<1> DEFINE D == DepthOf(s)
<1>7. D = DepthFrom(D, s)
  BY <1>6 DEF DepthOf
<1> HIDE DEF D
<1>8. DOMAIN D = 0..n /\ D = [k \in 0..n |-> D[k]] /\ D[0] = 0 /\ \A k \in 1..n : D[k] = Deeper(s[k], D[k - 1])
  <2>1. DOMAIN D = 0..n /\ D = [k \in 0..n |-> D[k]]
    BY <1>7 DEF DepthFrom
  <2>2. D[0] = 0
    BY <1>7 DEF DepthFrom
  <2>3. ASSUME NEW k \in 1..n PROVE D[k] = Deeper(s[k], D[k - 1])
    <3>1. k \in 0..n /\ k # 0
      OBVIOUS
    <3> QED
      BY <1>7, <3>1 DEF DepthFrom, Deeper
  <2> QED
    BY <2>1, <2>2, <2>3
<1> DEFINE good == {k \in 0..n : D[k] \in Nat}
<1>9. \A k \in 0..n : k \in good
  <2>1. 0 \in good
    BY <1>8
  <2>2. ASSUME NEW k \in (0 + 1)..n, k - 1 \in good PROVE k \in good
    BY <1>8, <2>2, DeeperIs
  <2> HIDE DEF good
  <2> QED
    BY <2>1, <2>2, Climbs
<1>10. Depths(D, s, n)
  BY <1>8, <1>9 DEF Depths
<1> QED
  BY <1>10 DEF D

LEMMA DepthStays ==
    ASSUME NEW s, NEW t, NEW n, NEW c, Grows(s, t, n, c), NEW D, NEW E, Depths(D, s, n), Depths(E, t, n + 1)
    PROVE  (\A k \in 0..n : E[k] = D[k]) /\ E[n + 1] = Deeper(c, D[n])
<1> DEFINE good == {k \in 0..n : E[k] = D[k]}
<1>0. n \in Nat /\ \A i \in 1..n : t[i] = s[i]
  BY DEF Grows
<1>1. 0 \in good
  BY <1>0 DEF Depths
<1>2. ASSUME NEW k \in 1..n, k - 1 \in good PROVE k \in good
  <2>1. E[k - 1] = D[k - 1] /\ D[k] = Deeper(s[k], D[k - 1]) /\ E[k] = Deeper(t[k], E[k - 1]) /\ k \in 0..n
    BY <1>0, <1>2 DEF Depths
  <2> QED
    BY <1>0, <2>1
<1>3. \A k \in 0..n : k \in good
  <2> HIDE DEF good
  <2>1. 0 + 1 = 1
    OBVIOUS
  <2> QED
    BY <1>0, <1>1, <1>2, <2>1, Climbs
<1>4. E[n + 1] = Deeper(t[n + 1], E[n])
  BY <1>0 DEF Depths
<1> QED
  BY <1>0, <1>3, <1>4 DEF Grows

(* Of the scopes still open at one chunk, no two are as deep.                *)
LEMMA OneScopePerDepth ==
    ASSUME NEW s, NEW n \in Nat, NEW D, Depths(D, s, n), NEW i \in Pushes(s, n), NEW j \in Pushes(s, n),
           D[i] = D[j], i <= j, Within(D, i, j)
    PROVE  i = j
<1>1. CASE i < j
  <2>1. i \in 1..n /\ j \in 1..n /\ j - 1 \in i..j /\ j - 1 \in 0..n
    BY <1>1 DEF Pushes
  <2>2. D[j] = D[j - 1] + 1 /\ D[j - 1] \in Nat
    BY <2>1 DEF Pushes, Depths, Deeper
  <2>3. D[j - 1] >= D[i]
    BY <2>1 DEF Within
  <2> QED
    BY <2>2, <2>3
<1> QED
  BY <1>1 DEF Pushes

LEMMA PushDepth ==
    ASSUME NEW s, NEW n \in Nat, NEW D, Depths(D, s, n), NEW i \in Pushes(s, n)
    PROVE  i \in 1..n /\ D[i] \in Nat /\ D[i] >= 1
<1>1. i \in 1..n /\ i - 1 \in 0..n /\ D[i] = Deeper(s[i], D[i - 1]) /\ s[i].op = "push"
  BY DEF Pushes, Depths
<1>2. D[i - 1] \in Nat
  BY <1>1 DEF Depths
<1> QED
  BY <1>1, <1>2 DEF Deeper

(* Every open marker is a push no chunk has closed, one at each depth, and   *)
(* knows the calls since.                                                    *)
Knows(s, D, n, frame, i) ==
    /\ frame.name = s[i].name /\ frame.calls = Cardinality(CallsIn(s, D, n, i))
    /\ CallsIn(s, D, n, i) # {} => frame.last \in CallsIn(s, D, n, i) /\ \A y \in CallsIn(s, D, n, i) : y <= frame.last
StackFollows(s, D, n, st) ==
    /\ Len(st) = D[n]
    /\ \A k \in 1..Len(st) : /\ st[k].chunk \in Pushes(s, n) /\ D[st[k].chunk] = k /\ Within(D, st[k].chunk, n)
                            /\ Knows(s, D, n, st[k], st[k].chunk)

LEMMA OpenIsOnStack ==
    ASSUME NEW s, NEW n \in Nat, NEW D, Depths(D, s, n), NEW st, StackFollows(s, D, n, st),
           NEW i \in Pushes(s, n), Within(D, i, n)
    PROVE  D[i] \in 1..Len(st) /\ st[D[i]].chunk = i
<1>1. i \in 1..n /\ D[i] \in Nat /\ D[i] >= 1 /\ D[n] \in Nat
  <2>1. D[n] \in Nat
    BY DEF Depths
  <2> QED
    BY <2>1, PushDepth
<1>2. D[n] >= D[i]
  BY <1>1 DEF Within
<1>3. D[i] \in 1..Len(st)
  BY <1>1, <1>2 DEF StackFollows
<1> DEFINE j == st[D[i]].chunk
<1>4. j \in Pushes(s, n) /\ D[j] = D[i] /\ Within(D, j, n)
  BY <1>3 DEF StackFollows
<1> HIDE DEF j
<1>5. j \in 1..n
  BY <1>4 DEF Pushes
<1>6. CASE i <= j
  <2>1. Within(D, i, j)
    BY <1>1, <1>5 DEF Within
  <2> QED
    BY <1>3, <1>4, <1>6, <2>1, OneScopePerDepth DEF j
<1>7. CASE j <= i
  <2>1. Within(D, j, i)
    BY <1>1, <1>4, <1>5 DEF Within
  <2> QED
    BY <1>3, <1>4, <1>7, <2>1, OneScopePerDepth DEF j
<1> QED
  BY <1>1, <1>5, <1>6, <1>7

(* What lies around an open marker is the stack below it.                    *)
Encloses(s, D, n, st, k) ==
    /\ Around(s, D, n, st[k].chunk) = {st[m].chunk : m \in 1..k}
    /\ Cardinality(Around(s, D, n, st[k].chunk)) = k

LEMMA AroundIsTheStack ==
    ASSUME NEW s, NEW n \in Nat, NEW D, Depths(D, s, n), NEW st, StackFollows(s, D, n, st), Len(st) \in Nat,
           NEW k \in 1..Len(st)
    PROVE  Encloses(s, D, n, st, k)
<1> DEFINE i == st[k].chunk
           A == Around(s, D, n, i)
<1>1. i \in Pushes(s, n) /\ i \in 1..n /\ D[i] = k /\ Within(D, i, n)
  BY DEF StackFollows, Pushes
<1>2. ASSUME NEW m \in 1..k PROVE st[m].chunk \in A
  <2> DEFINE j == st[m].chunk
  <2>1. m \in 1..Len(st)
    OBVIOUS
  <2>2. j \in Pushes(s, n) /\ j \in 1..n /\ D[j] = m /\ Within(D, j, n)
    BY <2>1 DEF StackFollows, Pushes
  <2> HIDE DEF i, j
  <2>3. j <= i
    <3>1. CASE i < j
      <4>1. j \in i..n /\ D[j] >= D[i]
        BY <1>1, <2>2, <3>1 DEF Within
      <4>2. m = k
        BY <1>1, <2>2, <4>1
      <4> QED
        BY <3>1, <4>2, <1>1 DEF i, j
    <3> QED
      BY <1>1, <2>2, <3>1
  <2>4. Within(D, j, i) /\ i \in j..n
    BY <1>1, <2>2, <2>3 DEF Within
  <2> QED
    BY <2>2, <2>4 DEF Around, j
<1>3. ASSUME NEW j \in A PROVE \E m \in 1..k : j = st[m].chunk
  <2>1. j \in Pushes(s, n) /\ i \in j..n /\ Within(D, j, i)
    BY DEF Around
  <2>2. j \in 1..n /\ D[j] \in Nat /\ D[j] >= 1
    BY <2>1, PushDepth
  <2> HIDE DEF i
  <2>3. D[i] >= D[j]
    BY <1>1, <2>1, <2>2 DEF Within
  <2>4. ASSUME NEW x \in j..n PROVE D[x] >= D[j]
    <3>1. CASE x <= i
      BY <1>1, <2>1, <2>2, <3>1 DEF Within
    <3>2. CASE x > i
      <4>1. D[x] >= D[i] /\ D[x] \in Nat /\ D[i] \in Nat
        <5>1. x \in i..n /\ x \in 0..n /\ i \in 0..n
          BY <1>1, <2>2, <3>2
        <5> QED
          BY <1>1, <5>1 DEF Within, Depths
      <4> QED
        BY <2>2, <2>3, <4>1
    <3> QED
      BY <1>1, <2>2, <3>1, <3>2
  <2>5. Within(D, j, n)
    BY <2>4 DEF Within
  <2>6. D[j] \in 1..Len(st) /\ st[D[j]].chunk = j
    BY <2>1, <2>5, OpenIsOnStack
  <2> QED
    BY <1>1, <2>3, <2>6
<1>4. A = {st[m].chunk : m \in 1..k}
  BY <1>2, <1>3
<1> DEFINE f == [m \in 1..k |-> st[m].chunk]
<1>5. k \in Nat /\ f \in [1..k -> A] /\ \A m \in 1..k : D[f[m]] = m
  <2>1. \A m \in 1..k : m \in 1..Len(st)
    OBVIOUS
  <2> QED
    BY <1>2, <2>1 DEF StackFollows
<1>6. \A j \in A : \E m \in 1..k : f[m] = j
  BY <1>3
<1> HIDE DEF f, A
<1>7. f \in Bijection(1..k, A)
  BY <1>5, <1>6 DEF Bijection, Injection, Surjection, IsInjective
<1>8. Cardinality(A) = k
  BY <1>5, <1>7, FS_CountingElements DEF ExistsBijection
<1> QED
  BY <1>4, <1>8 DEF A, Encloses

(* An open marker that is closed, or cut off, with calls is the pass it is.  *)
IsOfTheStack(row, st, k) ==
    row = [path |-> [m \in 1..k |-> st[m].name], depth |-> k - 1,
           chunk |-> st[k].chunk, last |-> st[k].last, calls |-> st[k].calls]

LEMMA OpenScopeIs ==
    ASSUME NEW s, NEW n \in Nat, NEW D, Depths(D, s, n), NEW st, StackFollows(s, D, n, st), Len(st) \in Nat,
           NEW k \in 1..Len(st), CallsIn(s, D, n, st[k].chunk) # {}
    PROVE  IsOfTheStack(ScopeOf(s, D, n, st[k].chunk), st, k)
<1> DEFINE i == st[k].chunk
           A == Around(s, D, n, i)
           C == CallsIn(s, D, n, i)
<1>1. i \in Pushes(s, n) /\ D[i] = k /\ Knows(s, D, n, st[k], i)
  BY DEF StackFollows
<1>2. A = {st[m].chunk : m \in 1..k} /\ Cardinality(A) = k
  <2>1. Encloses(s, D, n, st, k)
    BY AroundIsTheStack
  <2> QED
    BY <2>1 DEF Encloses
<1>3. st[k].calls = Cardinality(C)
  BY <1>1 DEF Knows
<1>4. C \in SUBSET Nat
  BY <1>1 DEF CallsIn, Pushes
<1>5. (CHOOSE x \in C : \A y \in C : y <= x) = st[k].last
  <2>1. st[k].last \in C /\ (\A y \in C : y <= st[k].last)
    BY <1>1 DEF Knows
  <2> HIDE DEF C
  <2> QED
    BY <1>4, <2>1, LatestIs
<1>6. ASSUME NEW m \in 1..k PROVE s[CHOOSE j \in A : D[j] = m].name = st[m].name
  <2>1. \A x \in 1..k : D[st[x].chunk] = x /\ Knows(s, D, n, st[x], st[x].chunk)
    <3>1. \A x \in 1..k : x \in 1..Len(st)
      OBVIOUS
    <3> QED
      BY <3>1 DEF StackFollows
  <2> HIDE DEF A
  <2>2. st[m].chunk \in A /\ \A j \in A : D[j] = m => j = st[m].chunk
    BY <1>2, <2>1
  <2>3. (CHOOSE j \in A : D[j] = m) = st[m].chunk
    BY <2>1, <2>2
  <2> QED
    BY <2>1, <2>3 DEF Knows
<1>7. ScopeOf(s, D, n, i) =
        [path |-> [d \in 1..Cardinality(A) |-> s[CHOOSE j \in A : D[j] = d].name], depth |-> D[i] - 1,
         chunk |-> i, last |-> CHOOSE x \in C : \A y \in C : y <= x, calls |-> Cardinality(C)]
  BY DEF ScopeOf
<1> HIDE DEF i, A, C
<1>8. [d \in 1..Cardinality(A) |-> s[CHOOSE j \in A : D[j] = d].name] = [m \in 1..k |-> st[m].name]
  <2> DEFINE Name(d) == s[CHOOSE j \in A : D[j] = d].name
  <2>1. \A m \in 1..k : Name(m) = st[m].name
    BY <1>6
  <2> HIDE DEF Name
  <2>2. [d \in 1..k |-> Name(d)] = [m \in 1..k |-> st[m].name]
    BY <2>1
  <2> QED
    BY <1>2, <2>2 DEF Name
<1>9. ScopeOf(s, D, n, i) = [path |-> [m \in 1..k |-> st[m].name], depth |-> k - 1,
                             chunk |-> i, last |-> st[k].last, calls |-> st[k].calls]
  BY <1>1, <1>3, <1>5, <1>7, <1>8
<1> QED
  BY <1>9 DEF i, IsOfTheStack

(* What the stream says of its scopes it goes on saying, but for the calls   *)
(* of those still open.                                                      *)
LEMMA ScopesGrow ==
    ASSUME NEW s, NEW t, NEW n, NEW c, Grows(s, t, n, c), NEW D, NEW E, Depths(D, s, n), Depths(E, t, n + 1)
    PROVE  /\ Pushes(t, n + 1) = Pushes(s, n) \cup (IF c.op = "push" THEN {n + 1} ELSE {})
           /\ \A i \in 1..n : E[i] = D[i] /\ (Within(E, i, n + 1) <=> Within(D, i, n) /\ E[n + 1] >= D[i])
           /\ \A i \in 1..n : Around(t, E, n + 1, i) = Around(s, D, n, i)
           /\ \A i \in 1..n : CallsIn(t, E, n + 1, i) =
                  CallsIn(s, D, n, i) \cup (IF c.op = "draw" /\ Within(E, i, n + 1) THEN {n + 1} ELSE {})
<1>0. n \in Nat /\ (\A i \in 1..n : t[i] = s[i]) /\ t[n + 1] = c
  BY DEF Grows
<1>1. (\A k \in 0..n : E[k] = D[k]) /\ E[n + 1] = Deeper(c, D[n])
  BY DepthStays
<1>2. Pushes(t, n + 1) = Pushes(s, n) \cup (IF c.op = "push" THEN {n + 1} ELSE {})
  BY <1>0 DEF Pushes
<1>3. \A i \in 1..n : \A j \in i..n : Within(E, i, j) <=> Within(D, i, j)
  BY <1>0, <1>1 DEF Within
<1>4. ASSUME NEW i \in 1..n PROVE Within(E, i, n + 1) <=> Within(D, i, n) /\ E[n + 1] >= D[i]
  <2>1. i..(n + 1) = (i..n) \cup {n + 1} /\ n \in i..n
    BY <1>0
  <2>2. Within(E, i, n + 1) <=> Within(E, i, n) /\ E[n + 1] >= E[i]
    BY <1>0, <2>1 DEF Within
  <2> QED
    BY <1>0, <1>1, <1>3, <2>1, <2>2
<1>5. ASSUME NEW i \in 1..n PROVE Around(t, E, n + 1, i) = Around(s, D, n, i)
  <2>1. ASSUME NEW j \in Around(t, E, n + 1, i) PROVE j \in Around(s, D, n, i)
    <3>1. j \in Pushes(t, n + 1) /\ i \in j..(n + 1) /\ Within(E, j, i)
      BY <2>1 DEF Around
    <3>2. j \in 1..n /\ i \in j..n
      BY <1>0, <3>1 DEF Pushes
    <3>3. j \in Pushes(s, n)
      BY <1>0, <3>1, <3>2 DEF Pushes
    <3> QED
      BY <1>3, <3>1, <3>2, <3>3 DEF Around
  <2>2. ASSUME NEW j \in Around(s, D, n, i) PROVE j \in Around(t, E, n + 1, i)
    <3>1. j \in Pushes(s, n) /\ i \in j..n /\ Within(D, j, i) /\ j \in 1..n
      BY <2>2 DEF Around, Pushes
    <3>2. Within(E, j, i) /\ i \in j..(n + 1) /\ j \in Pushes(t, n + 1)
      BY <1>0, <1>2, <1>3, <3>1
    <3> QED
      BY <3>2 DEF Around
  <2> QED
    BY <2>1, <2>2
<1>6. ASSUME NEW i \in 1..n
      PROVE  CallsIn(t, E, n + 1, i) =
                CallsIn(s, D, n, i) \cup (IF c.op = "draw" /\ Within(E, i, n + 1) THEN {n + 1} ELSE {})
  <2>1. i..(n + 1) = (i..n) \cup {n + 1}
    BY <1>0
  <2>2. \A j \in i..n : j \in CallsIn(t, E, n + 1, i) <=> j \in CallsIn(s, D, n, i)
    BY <1>0, <1>3, <2>1 DEF CallsIn
  <2>3. n + 1 \in CallsIn(t, E, n + 1, i) <=> c.op = "draw" /\ Within(E, i, n + 1)
    BY <1>0, <2>1 DEF CallsIn
  <2>4. CallsIn(s, D, n, i) \subseteq i..n /\ CallsIn(t, E, n + 1, i) \subseteq (i..n) \cup {n + 1}
    BY <2>1 DEF CallsIn
  <2> QED
    BY <2>2, <2>3, <2>4
<1>7. \A i \in 1..n : E[i] = D[i]
  BY <1>0, <1>1
<1> QED
  BY <1>2, <1>4, <1>5, <1>6, <1>7

LEMMA ClosedKeeps ==
    ASSUME NEW s, NEW t, NEW n, NEW c, Grows(s, t, n, c), NEW D, NEW E, Depths(D, s, n), Depths(E, t, n + 1),
           NEW i \in 1..n, ~Within(E, i, n + 1)
    PROVE  CallsIn(t, E, n + 1, i) = CallsIn(s, D, n, i)
<1>1. CallsIn(t, E, n + 1, i) = CallsIn(s, D, n, i) \cup (IF c.op = "draw" /\ Within(E, i, n + 1) THEN {n + 1} ELSE {})
  BY ScopesGrow
<1> QED
  BY <1>1

LEMMA CallsFinite ==
    ASSUME NEW s, NEW n \in Nat, NEW D, NEW i \in 1..n
    PROVE  IsFiniteSet(CallsIn(s, D, n, i)) /\ Cardinality(CallsIn(s, D, n, i)) \in Nat /\ n + 1 \notin CallsIn(s, D, n, i)
<1>1. CallsIn(s, D, n, i) \in SUBSET (i..n) /\ IsFiniteSet(i..n)
  BY FS_Interval DEF CallsIn
<1>2. IsFiniteSet(CallsIn(s, D, n, i))
  BY <1>1, FS_Subset
<1> QED
  BY <1>1, <1>2, FS_CardinalityType

(* What the walk does to the open markers keeps them known.                  *)
Frames == [name : {c.name : c \in FrameChunks}, chunk : Nat, last : Nat, calls : Nat]
Turns(c, n, st, to) ==
    CASE c.op = "push" -> to = Append(st, [name |-> c.name, chunk |-> n + 1, last |-> n + 1, calls |-> 0])
      [] c.op = "pop" -> to = IF st = <<>> THEN st ELSE SubSeq(st, 1, Len(st) - 1)
      [] c.op = "draw" -> to = [i \in DOMAIN st |-> [st[i] EXCEPT !.calls = st[i].calls + 1, !.last = n + 1]]
      [] OTHER -> to = st

LEMMA StackStep ==
    ASSUME NEW s, NEW t, NEW n, NEW c, Grows(s, t, n, c), NEW D, NEW E, Depths(D, s, n), Depths(E, t, n + 1),
           NEW st \in Seq(Frames), NEW to, Turns(c, n, st, to), StackFollows(s, D, n, st)
    PROVE  to \in Seq(Frames) /\ StackFollows(t, E, n + 1, to)
<1>0. n \in Nat /\ Len(st) \in Nat /\ Len(st) = D[n] /\ D[n] \in Nat /\ c \in FrameChunks
      /\ (\A i \in 1..n : t[i] = s[i]) /\ t[n + 1] = c
  BY DEF Grows, StackFollows, Depths
<1>1. E[n + 1] = Deeper(c, D[n])
  BY DepthStays
<1> DEFINE Old(k) == st[k].chunk
<1>2. ASSUME NEW k \in 1..Len(st)
      PROVE  /\ Old(k) \in Pushes(t, n + 1) /\ Old(k) \in 1..n /\ E[Old(k)] = k /\ st[k].name = t[Old(k)].name
             /\ Within(E, Old(k), n + 1) <=> E[n + 1] >= k
             /\ CallsIn(t, E, n + 1, Old(k)) = CallsIn(s, D, n, Old(k))
                   \cup (IF c.op = "draw" /\ Within(E, Old(k), n + 1) THEN {n + 1} ELSE {})
             /\ Knows(s, D, n, st[k], Old(k))
  <2>1. /\ Old(k) \in Pushes(s, n) /\ Old(k) \in 1..n /\ D[Old(k)] = k /\ Within(D, Old(k), n)
        /\ Knows(s, D, n, st[k], Old(k))
    BY DEF StackFollows, Pushes
  <2> HIDE DEF Old
  <2>2. /\ Old(k) \in Pushes(t, n + 1) /\ E[Old(k)] = k
        /\ Within(E, Old(k), n + 1) <=> E[n + 1] >= k
        /\ CallsIn(t, E, n + 1, Old(k)) = CallsIn(s, D, n, Old(k))
                   \cup (IF c.op = "draw" /\ Within(E, Old(k), n + 1) THEN {n + 1} ELSE {})
    BY <2>1, ScopesGrow
  <2>3. st[k].name = t[Old(k)].name
    BY <1>0, <2>1 DEF Knows
  <2> QED
    BY <2>1, <2>2, <2>3
<1>3. ASSUME NEW k \in 1..Len(st), c.op # "draw", E[n + 1] >= k
      PROVE  /\ Old(k) \in Pushes(t, n + 1) /\ E[Old(k)] = k /\ Within(E, Old(k), n + 1)
             /\ Knows(t, E, n + 1, st[k], Old(k))
  <2>1. CallsIn(t, E, n + 1, Old(k)) = CallsIn(s, D, n, Old(k))
    BY <1>2, <1>3
  <2> HIDE DEF Old
  <2> QED
    BY <1>2, <1>3, <2>1 DEF Knows
<1>4. CASE c.op = "push"
  <2> DEFINE top == [name |-> c.name, chunk |-> n + 1, last |-> n + 1, calls |-> 0]
  <2>1. top \in Frames /\ top.chunk = n + 1 /\ top.name = c.name /\ top.calls = 0 /\ to = Append(st, top)
    BY <1>0, <1>4 DEF Frames, Turns
  <2> HIDE DEF top
  <2>2. /\ to \in Seq(Frames) /\ Len(to) = Len(st) + 1 /\ to[Len(st) + 1] = top
        /\ \A k \in 1..Len(st) : to[k] = st[k]
    BY <2>1
  <2>3. E[n + 1] = D[n] + 1
    BY <1>1, <1>4 DEF Deeper
  <2>4. n + 1 \in Pushes(t, n + 1) /\ Within(E, n + 1, n + 1)
    BY <1>0, <1>4, <2>3 DEF Pushes, Within
  <2>5. CallsIn(t, E, n + 1, n + 1) = {}
    BY <1>0, <1>4 DEF CallsIn
  <2>6. Knows(t, E, n + 1, top, n + 1)
    BY <1>0, <2>1, <2>5, FS_EmptySet DEF Knows
  <2>7. ASSUME NEW k \in 1..Len(to)
        PROVE  /\ to[k].chunk \in Pushes(t, n + 1) /\ E[to[k].chunk] = k /\ Within(E, to[k].chunk, n + 1)
               /\ Knows(t, E, n + 1, to[k], to[k].chunk)
    <3>1. CASE k \in 1..Len(st)
      <4>1. E[n + 1] >= k /\ to[k] = st[k]
        BY <1>0, <2>2, <2>3, <3>1
      <4> QED
        BY <1>3, <1>4, <3>1, <4>1
    <3>2. CASE k = Len(st) + 1
      BY <1>0, <2>1, <2>2, <2>3, <2>4, <2>6, <3>2
    <3> QED
      BY <1>0, <2>2, <3>1, <3>2
  <2> QED
    BY <1>0, <2>2, <2>3, <2>7 DEF StackFollows
<1>5. CASE c.op = "pop"
  <2>1. /\ to \in Seq(Frames) /\ Len(to) = E[n + 1] /\ Len(to) <= Len(st) /\ \A k \in 1..Len(to) : to[k] = st[k]
    <3>1. CASE st = <<>>
      BY <1>0, <1>1, <1>5, <3>1 DEF Deeper, Turns
    <3>2. CASE st # <<>>
      <4>1. Len(st) > 0 /\ to = SubSeq(st, 1, Len(st) - 1)
        BY <1>0, <1>5, <3>2 DEF Turns
      <4>2. to \in Seq(Frames) /\ Len(to) = Len(st) - 1 /\ \A k \in 1..Len(to) : to[k] = st[k]
        BY <1>0, <4>1
      <4>3. E[n + 1] = D[n] - 1
        BY <1>0, <1>1, <1>5, <4>1 DEF Deeper
      <4> QED
        BY <1>0, <4>2, <4>3
    <3> QED
      BY <3>1, <3>2
  <2>2. ASSUME NEW k \in 1..Len(to)
        PROVE  /\ to[k].chunk \in Pushes(t, n + 1) /\ E[to[k].chunk] = k /\ Within(E, to[k].chunk, n + 1)
               /\ Knows(t, E, n + 1, to[k], to[k].chunk)
    <3>1. k \in 1..Len(st) /\ E[n + 1] >= k /\ to[k] = st[k]
      BY <1>0, <2>1
    <3> QED
      BY <1>3, <1>5, <3>1
  <2> QED
    BY <2>1, <2>2 DEF StackFollows
<1>6. CASE c.op = "draw"
  <2>1. E[n + 1] = D[n]
    BY <1>1, <1>6 DEF Deeper
  <2>2. /\ DOMAIN st = 1..Len(st)
        /\ \A k \in 1..Len(st) : st[k] \in Frames
    OBVIOUS
  <2>3. to = [i \in DOMAIN st |-> [st[i] EXCEPT !.calls = st[i].calls + 1, !.last = n + 1]]
    BY <1>6 DEF Turns
  <2>4. ASSUME NEW k \in 1..Len(st)
        PROVE  /\ to[k] \in Frames /\ to[k].chunk = st[k].chunk /\ to[k].name = st[k].name
               /\ to[k].calls = st[k].calls + 1 /\ to[k].last = n + 1
    <3> DEFINE f == st[k]
    <3>1. f \in Frames /\ to[k] = [f EXCEPT !.calls = f.calls + 1, !.last = n + 1]
      BY <2>2, <2>3
    <3> HIDE DEF f
    <3>2. f.calls \in Nat /\ f.chunk \in Nat /\ f.name \in {x.name : x \in FrameChunks}
          /\ f = [name |-> f.name, chunk |-> f.chunk, last |-> f.last, calls |-> f.calls]
      BY <3>1 DEF Frames
    <3>3. to[k] = [name |-> f.name, chunk |-> f.chunk, last |-> n + 1, calls |-> f.calls + 1]
      BY <3>1, <3>2
    <3>4. f.calls + 1 \in Nat /\ n + 1 \in Nat
      BY <1>0, <3>2
    <3> QED
      BY <3>2, <3>3, <3>4 DEF Frames, f
  <2>9. to \in Seq(Frames) /\ Len(to) = Len(st)
    <3> DEFINE F(i) == [st[i] EXCEPT !.calls = st[i].calls + 1, !.last = n + 1]
    <3>1. to = [i \in 1..Len(st) |-> F(i)]
      BY <2>2, <2>3
    <3>2. \A i \in 1..Len(st) : F(i) \in Frames
      BY <2>4, <3>1
    <3> HIDE DEF F
    <3> QED
      BY <1>0, <3>1, <3>2
  <2>5. ASSUME NEW k \in 1..Len(st)
        PROVE  /\ to[k].chunk \in Pushes(t, n + 1) /\ E[to[k].chunk] = k /\ Within(E, to[k].chunk, n + 1)
               /\ Knows(t, E, n + 1, to[k], to[k].chunk)
    <3> DEFINE i == st[k].chunk
               C == CallsIn(s, D, n, i)
    <3>1. i \in 1..n /\ i \in Pushes(t, n + 1) /\ E[i] = k /\ Within(E, i, n + 1) /\ st[k].name = t[i].name
      BY <1>0, <1>2, <2>1
    <3>2. CallsIn(t, E, n + 1, i) = C \cup {n + 1} /\ Knows(s, D, n, st[k], i)
      BY <1>2, <1>6, <3>1
    <3>3. IsFiniteSet(C) /\ n + 1 \notin C /\ Cardinality(C) \in Nat
      BY <1>0, <3>1, CallsFinite
    <3>4. \A y \in C : y <= n + 1
      BY <1>0, <3>1 DEF CallsIn
    <3> HIDE DEF C, i
    <3>5. Cardinality(C \cup {n + 1}) = Cardinality(C) + 1
      BY <3>3, FS_AddElement
    <3>6. st[k].calls = Cardinality(C)
      BY <3>2 DEF Knows, C
    <3>7. to[k].name = t[i].name /\ to[k].calls = Cardinality(C \cup {n + 1})
      BY <2>4, <3>1, <3>5, <3>6
    <3>8. to[k].last \in C \cup {n + 1} /\ \A y \in C \cup {n + 1} : y <= to[k].last
      BY <1>0, <2>4, <3>4
    <3>9. Knows(t, E, n + 1, to[k], i)
      BY <3>2, <3>7, <3>8 DEF Knows
    <3> QED
      BY <2>4, <3>1, <3>9 DEF i
  <2> QED
    BY <1>0, <2>1, <2>9, <2>5 DEF StackFollows
<1>7. CASE c.op \notin {"push", "pop", "draw"}
  <2>1. to = st /\ E[n + 1] = D[n]
    BY <1>0, <1>1, <1>7 DEF Turns, Deeper
  <2>2. \A k \in 1..Len(st) : E[n + 1] >= k
    BY <1>0, <2>1
  <2> QED
    BY <1>0, <1>3, <1>7, <2>1, <2>2 DEF StackFollows
<1> QED
  BY <1>4, <1>5, <1>6, <1>7

(* The scopes of a chunk name their way down: there is one at each depth.    *)
Ringed(s, D, n) ==
    \A i \in Pushes(s, n) : \A d \in 1..Cardinality(Around(s, D, n, i)) : \E j \in Around(s, D, n, i) : D[j] = d

LEMMA RingedGrows ==
    ASSUME NEW s, NEW t, NEW n, NEW c, Grows(s, t, n, c), NEW D, NEW E, Depths(D, s, n), Depths(E, t, n + 1),
           NEW to \in Seq(Frames), StackFollows(t, E, n + 1, to), Ringed(s, D, n)
    PROVE  Ringed(t, E, n + 1)
<1>0. n \in Nat /\ n + 1 \in Nat /\ Len(to) \in Nat
  BY DEF Grows
<1>2. \A i \in Pushes(t, n + 1) : i \in Pushes(s, n) \/ i = n + 1
  BY DEF Grows, Pushes
<1>1. ASSUME NEW i \in Pushes(t, n + 1), NEW d \in 1..Cardinality(Around(t, E, n + 1, i))
      PROVE  \E j \in Around(t, E, n + 1, i) : E[j] = d
  <2>1. CASE i \in Pushes(s, n)
    <3>1. i \in 1..n /\ Around(t, E, n + 1, i) = Around(s, D, n, i) /\ \A j \in 1..n : E[j] = D[j]
      BY <2>1, ScopesGrow DEF Pushes
    <3>2. PICK j \in Around(s, D, n, i) : D[j] = d
      BY <1>1, <2>1, <3>1 DEF Ringed
    <3>3. j \in 1..n
      BY DEF Around, Pushes
    <3> QED
      BY <3>1, <3>2, <3>3
  <2>2. CASE i \notin Pushes(s, n)
    <3>1. i = n + 1
      BY <1>2, <2>2
    <3>2. Within(E, i, n + 1)
      <4>1. E[n + 1] \in Nat /\ \A k \in i..(n + 1) : k = n + 1
        BY <1>0, <3>1 DEF Depths
      <4> QED
        BY <3>1, <4>1 DEF Within
    <3>3. E[i] \in 1..Len(to) /\ to[E[i]].chunk = i
      BY <1>0, <3>2, OpenIsOnStack
    <3> DEFINE k == E[i]
    <3>4. Encloses(t, E, n + 1, to, k)
      BY <1>0, <3>3, AroundIsTheStack
    <3>5. k \in 1..Len(to) /\ to[k].chunk = i
      BY <3>3
    <3> HIDE DEF k
    <3>6. Around(t, E, n + 1, i) = {to[m].chunk : m \in 1..k} /\ Cardinality(Around(t, E, n + 1, i)) = k
      BY <3>4, <3>5 DEF Encloses
    <3>7. d \in 1..k /\ d \in 1..Len(to)
      BY <1>0, <1>1, <3>5, <3>6
    <3>8. E[to[d].chunk] = d
      BY <3>7 DEF StackFollows
    <3> QED
      BY <3>6, <3>7, <3>8
  <2> QED
    BY <2>1, <2>2
<1> QED
  BY <1>1 DEF Ringed

(* A scope that takes no further call is the pass it was.                    *)
LEMMA ScopeStays ==
    ASSUME NEW s, NEW t, NEW n, NEW c, Grows(s, t, n, c), NEW D, NEW E, Depths(D, s, n), Depths(E, t, n + 1),
           Ringed(s, D, n), NEW i \in Pushes(s, n), CallsIn(t, E, n + 1, i) = CallsIn(s, D, n, i)
    PROVE  ScopeOf(t, E, n + 1, i) = ScopeOf(s, D, n, i)
<1> DEFINE A == Around(s, D, n, i)
           C == CallsIn(s, D, n, i)
           Name(z, X, F, d) == z[CHOOSE j \in X : F[j] = d].name
           Made(z, X, F, Y) == [path |-> [d \in 1..Cardinality(X) |-> Name(z, X, F, d)], depth |-> F[i] - 1,
                               chunk |-> i, last |-> CHOOSE x \in Y : \A y \in Y : y <= x,
                               calls |-> Cardinality(Y)]
           NameS(d) == Name(s, A, D, d)
           NameT(d) == Name(t, A, E, d)
           last == CHOOSE x \in C : \A y \in C : y <= x
<1>0. n \in Nat /\ i \in 1..n /\ \A j \in 1..n : t[j] = s[j]
  BY DEF Grows, Pushes
<1>1. Around(t, E, n + 1, i) = A /\ CallsIn(t, E, n + 1, i) = C /\ E[i] = D[i] /\ \A j \in 1..n : E[j] = D[j]
  BY <1>0, ScopesGrow
<1>2. ScopeOf(s, D, n, i) = Made(s, A, D, C) /\ ScopeOf(t, E, n + 1, i) = Made(t, Around(t, E, n + 1, i), E, CallsIn(t, E, n + 1, i))
  BY DEF ScopeOf
<1>3. ScopeOf(t, E, n + 1, i) = Made(t, A, E, C)
  <2> HIDE DEF Made, A, C
  <2> QED
    BY <1>1, <1>2
<1>6. /\ Made(s, A, D, C) = [path |-> [d \in 1..Cardinality(A) |-> NameS(d)], depth |-> D[i] - 1,
                             chunk |-> i, last |-> last, calls |-> Cardinality(C)]
      /\ Made(t, A, E, C) = [path |-> [d \in 1..Cardinality(A) |-> NameT(d)], depth |-> E[i] - 1,
                             chunk |-> i, last |-> last, calls |-> Cardinality(C)]
  OBVIOUS
<1>4. ASSUME NEW d \in 1..Cardinality(A) PROVE NameT(d) = NameS(d)
  <2>1. PICK j \in A : D[j] = d
    BY DEF Ringed
  <2>2. ASSUME NEW x \in A, NEW y \in A, D[x] = D[y] PROVE x = y
    <3>1. /\ x \in Pushes(s, n) /\ i \in x..n /\ Within(D, x, i) /\ x \in 1..n
          /\ y \in Pushes(s, n) /\ i \in y..n /\ Within(D, y, i) /\ y \in 1..n
      BY DEF Around, Pushes
    <3>2. ASSUME x <= y PROVE x = y
      <4>1. Within(D, x, y)
        BY <1>0, <3>1, <3>2 DEF Within
      <4> QED
        BY <1>0, <2>2, <3>1, <3>2, <4>1, OneScopePerDepth
    <3>3. ASSUME y <= x PROVE x = y
      <4>1. Within(D, y, x)
        BY <1>0, <3>1, <3>3 DEF Within
      <4> QED
        BY <1>0, <2>2, <3>1, <3>3, <4>1, OneScopePerDepth
    <3> QED
      BY <3>1, <3>2, <3>3
  <2>3. A \subseteq 1..n
    BY DEF Around, Pushes
  <2> HIDE DEF A
  <2>4. (CHOOSE x \in A : D[x] = d) = j
    BY <2>1, <2>2
  <2>5. (CHOOSE x \in A : E[x] = d) = j
    <3>1. E[j] = d /\ \A x \in A : E[x] = d => x = j
      BY <1>1, <2>1, <2>2, <2>3
    <3> QED
      BY <3>1
  <2> QED
    BY <1>0, <2>3, <2>4, <2>5
<1> HIDE DEF NameS, NameT, A, C, last, Made
<1>5. [d \in 1..Cardinality(A) |-> NameT(d)] = [d \in 1..Cardinality(A) |-> NameS(d)]
  BY <1>4
<1> QED
  BY <1>1, <1>2, <1>3, <1>5, <1>6

(* What `Closed` makes of an open marker and those around it.                *)
Passed(s, D, n, i) == IF CallsIn(s, D, n, i) = {} THEN <<>> ELSE <<ScopeOf(s, D, n, i)>>
PassRows == [path : Seq({c.name : c \in FrameChunks}), depth : Int, chunk : Nat, last : Nat, calls : Nat]

LEMMA ClosedIs ==
    ASSUME NEW s, NEW n \in Nat, NEW D, Depths(D, s, n), NEW st \in Seq(Frames), StackFollows(s, D, n, st),
           NEW k \in 1..Len(st), NEW up \in Seq(Frames), Len(up) = k, \A m \in 1..k : up[m] = st[m]
    PROVE  Closed(up) = Passed(s, D, n, st[k].chunk) /\ Closed(up) \in Seq(PassRows)
<1> DEFINE i == st[k].chunk
           C == CallsIn(s, D, n, i)
           row == [path |-> Names(up), depth |-> k - 1, chunk |-> i, last |-> st[k].last, calls |-> st[k].calls]
<1>0. Len(st) \in Nat /\ k \in Nat /\ st[k] \in Frames /\ up[k] = st[k] /\ k \in 1..k
  OBVIOUS
<1>1. i \in 1..n /\ st[k].calls = Cardinality(C)
  BY DEF StackFollows, Pushes, Knows
<1>2. st[k].calls = 0 <=> C = {}
  BY <1>1, CallsFinite, FS_EmptySet
<1>3. Closed(up) = IF st[k].calls = 0 THEN <<>> ELSE <<row>>
  BY <1>0 DEF Closed
<1>4. Names(up) = [m \in 1..k |-> st[m].name]
  BY DEF Names
<1>5. Names(up) \in Seq({c.name : c \in FrameChunks})
  <2>1. \A m \in 1..k : st[m].name \in {c.name : c \in FrameChunks}
    <3>1. \A m \in 1..k : st[m] \in Frames
      BY <1>0
    <3> QED
      BY <3>1 DEF Frames
  <2> DEFINE Name(m) == st[m].name
  <2> HIDE DEF Name
  <2>2. Names(up) = [m \in 1..k |-> Name(m)] /\ \A m \in 1..k : Name(m) \in {c.name : c \in FrameChunks}
    BY <1>4, <2>1 DEF Name
  <2> QED
    BY <1>0, <2>2
<1>6. row \in PassRows
  <2>1. i \in Nat /\ st[k].last \in Nat /\ st[k].calls \in Nat /\ k - 1 \in Int
    <3>1. \A frame \in Frames : frame.chunk \in Nat /\ frame.last \in Nat /\ frame.calls \in Nat
      BY DEF Frames
    <3>2. k - 1 \in Int
      BY <1>0
    <3> QED
      BY <1>0, <3>1, <3>2
  <2>2. \A path, depth, chunk, last, calls :
          /\ path \in Seq({c.name : c \in FrameChunks}) /\ depth \in Int /\ chunk \in Nat
          /\ last \in Nat /\ calls \in Nat
          => [path |-> path, depth |-> depth, chunk |-> chunk, last |-> last, calls |-> calls] \in PassRows
    BY DEF PassRows
  <2> HIDE DEF i
  <2> QED
    BY <1>5, <2>1, <2>2
<1>7. Closed(up) \in Seq(PassRows)
  <2> HIDE DEF row
  <2> QED
    BY <1>3, <1>6
<1>8. ASSUME C # {} PROVE ScopeOf(s, D, n, i) = row
  <2>1. C # {} => IsOfTheStack(ScopeOf(s, D, n, i), st, k)
    BY <1>0, OpenScopeIs
  <2> QED
    BY <1>4, <1>8, <2>1 DEF IsOfTheStack
<1> QED
  BY <1>2, <1>3, <1>7, <1>8 DEF Passed

(* The passes of a walk are its closed scopes with a call inside.            *)
Done(s, D, n) == {i \in Pushes(s, n) : CallsIn(s, D, n, i) # {} /\ ~Within(D, i, n)}
PassesFollow(s, D, n, ps) ==
    /\ \A x \in Range(ps) : \E i \in Done(s, D, n) : x = ScopeOf(s, D, n, i)
    /\ \A i \in Done(s, D, n) : ScopeOf(s, D, n, i) \in Range(ps)

Files(c, st, ps, to) == to = IF c.op = "pop" /\ st # <<>> THEN ps \o Closed(st) ELSE ps

(* A chunk closes the innermost scope or none.                               *)
LEMMA DoneGrows ==
    ASSUME NEW s, NEW t, NEW n, NEW c, Grows(s, t, n, c), NEW D, NEW E, Depths(D, s, n), Depths(E, t, n + 1),
           NEW st \in Seq(Frames), StackFollows(s, D, n, st)
    PROVE  /\ \A i \in Done(t, E, n + 1) : CallsIn(t, E, n + 1, i) = CallsIn(s, D, n, i)
           /\ Done(t, E, n + 1) = Done(s, D, n) \cup
                {i \in Pushes(s, n) : /\ c.op = "pop" /\ st # <<>> /\ i = st[Len(st)].chunk
                                      /\ CallsIn(s, D, n, i) # {}}
<1>0. /\ n \in Nat /\ Len(st) \in Nat /\ Len(st) = D[n] /\ D[n] \in Nat /\ (st = <<>> <=> Len(st) = 0)
      /\ \A i \in 1..n : D[i] \in Nat
  <2>1. Len(st) \in Nat /\ (st = <<>> <=> Len(st) = 0)
    OBVIOUS
  <2>2. n \in Nat /\ Len(st) = D[n]
    BY DEF Grows, StackFollows
  <2>3. \A i \in 0..n : D[i] \in Nat
    BY DEF Depths
  <2> QED
    BY <2>1, <2>2, <2>3
<1>1. E[n + 1] = Deeper(c, D[n]) /\ E[n + 1] \in Nat
  BY <1>0, DepthStays, DeeperIs
<1>2. ASSUME NEW i \in Pushes(t, n + 1), ~Within(E, i, n + 1) PROVE i \in Pushes(s, n)
  <2>1. i # n + 1
    <3>1. SUFFICES ASSUME i = n + 1 PROVE FALSE
      OBVIOUS
    <3>2. \A k \in i..(n + 1) : k = i
      BY <1>0, <3>1
    <3> QED
      BY <1>1, <1>2, <3>1, <3>2 DEF Within
  <2> QED
    BY <1>0, <2>1 DEF Pushes, Grows
<1>3. ASSUME NEW i \in Pushes(s, n)
      PROVE  /\ i \in Pushes(t, n + 1) /\ i \in 1..n
             /\ Within(E, i, n + 1) <=> Within(D, i, n) /\ E[n + 1] >= D[i]
             /\ ~Within(E, i, n + 1) => CallsIn(t, E, n + 1, i) = CallsIn(s, D, n, i)
  <2>1. i \in 1..n /\ i \in Pushes(t, n + 1)
    BY <1>0 DEF Pushes, Grows
  <2>2. Within(E, i, n + 1) <=> Within(D, i, n) /\ E[n + 1] >= D[i]
    BY <2>1, ScopesGrow
  <2>3. ~Within(E, i, n + 1) => CallsIn(t, E, n + 1, i) = CallsIn(s, D, n, i)
    BY <2>1, ClosedKeeps
  <2> QED
    BY <2>1, <2>2, <2>3
<1>4. ASSUME NEW i \in Pushes(s, n), Within(D, i, n)
      PROVE  E[n + 1] < D[i] <=> c.op = "pop" /\ st # <<>> /\ i = st[Len(st)].chunk
  <2>1. D[i] \in 1..Len(st) /\ st[D[i]].chunk = i
    BY <1>0, <1>4, OpenIsOnStack
  <2>2. \A m \in 1..Len(st) : D[st[m].chunk] = m
    BY DEF StackFollows
  <2>3. i = st[Len(st)].chunk <=> D[i] = Len(st)
    <3>1. Len(st) \in 1..Len(st)
      BY <1>0, <2>1
    <3> QED
      BY <2>1, <2>2, <3>1
  <2>4. E[n + 1] < D[i] <=> c.op = "pop" /\ D[i] = Len(st)
    BY <1>0, <1>1, <2>1 DEF Deeper
  <2> QED
    BY <1>0, <2>1, <2>3, <2>4
<1>5. ASSUME st # <<>>
      PROVE  st[Len(st)].chunk \in Pushes(s, n) /\ Within(D, st[Len(st)].chunk, n)
  <2>1. Len(st) \in 1..Len(st)
    BY <1>0, <1>5
  <2> QED
    BY <2>1 DEF StackFollows
<1>6. \A i \in Done(t, E, n + 1) : i \in Pushes(s, n) /\ CallsIn(t, E, n + 1, i) = CallsIn(s, D, n, i)
  BY <1>2, <1>3 DEF Done
<1> DEFINE Closes(i) == c.op = "pop" /\ st # <<>> /\ i = st[Len(st)].chunk
<1>7. ASSUME NEW i \in Pushes(s, n)
      PROVE  i \in Done(t, E, n + 1) <=> i \in Done(s, D, n) \/ (Closes(i) /\ CallsIn(s, D, n, i) # {})
  <2>1. Closes(i) => Within(D, i, n)
    BY <1>5
  <2>2. ~Within(E, i, n + 1) <=> ~Within(D, i, n) \/ Closes(i)
    BY <1>0, <1>1, <1>3, <1>4, <2>1
  <2> HIDE DEF Closes
  <2> QED
    BY <1>3, <2>2 DEF Done
<1>8. Done(t, E, n + 1) = Done(s, D, n) \cup {i \in Pushes(s, n) : Closes(i) /\ CallsIn(s, D, n, i) # {}}
  <2>1. Done(s, D, n) \subseteq Pushes(s, n) /\ Done(t, E, n + 1) \subseteq Pushes(s, n)
    BY <1>6 DEF Done
  <2> HIDE DEF Closes
  <2> QED
    BY <1>7, <2>1
<1> QED
  BY <1>6, <1>8

LEMMA PassesStep ==
    ASSUME NEW s, NEW t, NEW n, NEW c, Grows(s, t, n, c), NEW D, NEW E, Depths(D, s, n), Depths(E, t, n + 1),
           NEW st \in Seq(Frames), StackFollows(s, D, n, st), Ringed(s, D, n),
           NEW ps \in Seq(PassRows), PassesFollow(s, D, n, ps), NEW to, Files(c, st, ps, to)
    PROVE  to \in Seq(PassRows) /\ PassesFollow(t, E, n + 1, to)
<1>0. n \in Nat /\ Len(st) \in Nat /\ (st = <<>> <=> Len(st) = 0)
  BY DEF Grows
<1>1. ASSUME NEW i \in Done(t, E, n + 1), i \in Pushes(s, n) PROVE ScopeOf(t, E, n + 1, i) = ScopeOf(s, D, n, i)
  <2>1. CallsIn(t, E, n + 1, i) = CallsIn(s, D, n, i)
    BY DoneGrows
  <2> QED
    BY <1>1, <2>1, ScopeStays
<1>2. Done(t, E, n + 1) \subseteq Pushes(s, n) /\ Done(s, D, n) \subseteq Done(t, E, n + 1)
  <2>1. Done(s, D, n) \subseteq Pushes(s, n)
    BY DEF Done
  <2> QED
    BY <2>1, DoneGrows
<1>3. CASE ~(c.op = "pop" /\ st # <<>>)
  <2>1. to = ps /\ Done(t, E, n + 1) = Done(s, D, n)
    <3>1. to = ps
      BY <1>3 DEF Files
    <3>2. \A x : x \in Done(t, E, n + 1) <=> x \in Done(s, D, n)
      BY <1>3, DoneGrows
    <3> QED
      BY <3>1, <3>2
  <2> QED
    BY <1>1, <1>2, <2>1 DEF PassesFollow
<1>4. CASE c.op = "pop" /\ st # <<>>
  <2> DEFINE i == st[Len(st)].chunk
  <2>1. Len(st) \in 1..Len(st) /\ to = ps \o Closed(st)
    BY <1>0, <1>4 DEF Files
  <2>2. Closed(st) = Passed(s, D, n, i) /\ Closed(st) \in Seq(PassRows)
    BY <1>0, <2>1, ClosedIs
  <2>3. i \in Pushes(s, n)
    BY <2>1 DEF StackFollows
  <2>4. \A x : x \in Done(t, E, n + 1) <=> x \in Done(s, D, n) \/ (x = i /\ CallsIn(s, D, n, i) # {})
    BY <1>4, <2>3, DoneGrows
  <2> HIDE DEF i
  <2>5. Range(Closed(st)) = IF CallsIn(s, D, n, i) = {} THEN {} ELSE {ScopeOf(s, D, n, i)}
    BY <2>2, RangeOfFew DEF Passed
  <2>6. to \in Seq(PassRows) /\ Range(to) = Range(ps) \cup Range(Closed(st))
    BY <2>1, <2>2, RangeOfConcat
  <2>7. ASSUME NEW x \in Range(to) PROVE \E j \in Done(t, E, n + 1) : x = ScopeOf(t, E, n + 1, j)
    <3>1. CASE x \in Range(ps)
      <4>1. PICK j \in Done(s, D, n) : x = ScopeOf(s, D, n, j)
        BY <3>1 DEF PassesFollow
      <4> QED
        BY <1>1, <1>2, <4>1
    <3>2. CASE x \notin Range(ps)
      <4>1. CallsIn(s, D, n, i) # {} /\ x = ScopeOf(s, D, n, i)
        BY <2>5, <2>6, <3>2
      <4> QED
        BY <1>1, <2>3, <2>4, <4>1
    <3> QED
      BY <3>1, <3>2
  <2>8. ASSUME NEW j \in Done(t, E, n + 1) PROVE ScopeOf(t, E, n + 1, j) \in Range(to)
    <3>1. ScopeOf(t, E, n + 1, j) = ScopeOf(s, D, n, j)
      BY <1>1, <1>2
    <3>2. CASE j \in Done(s, D, n)
      BY <2>6, <3>1, <3>2 DEF PassesFollow
    <3>3. CASE j \notin Done(s, D, n)
      BY <2>4, <2>5, <2>6, <3>1, <3>3
    <3> QED
      BY <3>2, <3>3
  <2> QED
    BY <2>6, <2>7, <2>8 DEF PassesFollow
<1> QED
  BY <1>3, <1>4

ScopesFollow(s, D, n, st, ps) == StackFollows(s, D, n, st) /\ PassesFollow(s, D, n, ps) /\ Ringed(s, D, n)
ScopesInv ==
    /\ StreamOK /\ stack \in Seq(Frames) /\ passes \in Seq(PassRows)
    /\ ScopesFollow(stream, DepthOf(stream), Len(stream), stack, passes)

LEMMA ScopesInvInit == FrameWalkInit => ScopesInv
<1> SUFFICES ASSUME FrameWalkInit PROVE ScopesInv
  OBVIOUS
<1> DEFINE D == DepthOf(stream)
<1>1. stream = <<>> /\ stack = <<>> /\ passes = <<>> /\ Len(stream) = 0 /\ Len(stack) = 0
  BY DEF FrameWalkInit, FrameInit, MarkerInit
<1>2. Depths(D, stream, 0)
  BY <1>1, DepthIs
<1> HIDE DEF D
<1>3. D[0] = 0 /\ Pushes(stream, 0) = {}
  BY <1>2 DEF Depths, Pushes
<1>4. StackFollows(stream, D, 0, stack) /\ Ringed(stream, D, 0) /\ Done(stream, D, 0) = {}
  BY <1>1, <1>3 DEF StackFollows, Ringed, Done
<1>5. PassesFollow(stream, D, 0, passes)
  BY <1>1, <1>4, RangeOfFew DEF PassesFollow
<1>6. StreamOK /\ stack \in Seq(Frames) /\ passes \in Seq(PassRows)
  BY <1>1 DEF StreamOK
<1> QED
  BY <1>1, <1>4, <1>5, <1>6 DEF ScopesInv, ScopesFollow, D

(* What a chunk does to the markers, whichever walk reads it.                *)
LEMMA MarkersTurn ==
    ASSUME NEW c \in FrameChunks, ReadChunk(c)
    PROVE  Turns(c, Len(stream), stack, stack') /\ Files(c, stack, passes, passes')
<1>1. CASE Note(c)
  <2>1. stack' = stack /\ passes' = passes
    BY <1>1 DEF Note, markerVars
  <2>2. c.op \notin {"push", "pop", "draw"}
    BY <1>1 DEF Note, Reset, SetState, Describe, Create, Setters
  <2> QED
    BY <2>1, <2>2 DEF Turns, Files
<1>2. CASE Call(c)
  <2>1. c.op \notin {"push", "pop"}
    BY <1>2 DEF Call, ListOps, TouchOps
  <2>2. CASE c.op = "draw"
    <3>1. passes' = passes
      BY <1>2, <2>2 DEF Call, CountCall
    <3>2. stack' = [i \in DOMAIN stack |-> [stack[i] EXCEPT !.calls = stack[i].calls + 1, !.last = Len(stream) + 1]]
      BY <1>2, <2>2 DEF Call, CountCall, Now
    <3> QED
      BY <2>2, <3>1, <3>2 DEF Turns, Files
  <2>3. CASE c.op # "draw"
    <3>1. stack' = stack /\ passes' = passes
      BY <1>2, <2>3 DEF Call, markerVars
    <3> QED
      BY <2>1, <2>3, <3>1 DEF Turns, Files
  <2> QED
    BY <2>2, <2>3
<1>3. CASE Scope(c)
  BY <1>3 DEF Scope, Marker, Turns, Files, Now
<1> QED
  BY <1>1, <1>2, <1>3 DEF ReadChunk

LEMMA ScopesInvStep == ScopesInv /\ [FrameWalkNext]_walkVars => ScopesInv'
<1> SUFFICES ASSUME ScopesInv, [FrameWalkNext]_walkVars PROVE ScopesInv'
  OBVIOUS
<1>1. CASE UNCHANGED walkVars
  <2>1. stream' = stream /\ stack' = stack /\ passes' = passes
    BY <1>1 DEF walkVars, frameVars, markerVars
  <2> QED
    BY <2>1 DEF ScopesInv, StreamOK
<1>2. ASSUME NEW c \in FrameChunks, ReadChunk(c) PROVE ScopesInv'
  <2> DEFINE n == Len(stream)
             D == DepthOf(stream)
             E == DepthOf(stream')
  <2>1. StreamOK /\ stream' = Append(stream, c)
    BY <1>2 DEF ScopesInv, ReadChunk
  <2>2. n \in Nat /\ Len(stream') = n + 1 /\ StreamOK' /\ Grows(stream, stream', n, c)
    BY <2>1, AppendStep, StreamGrows
  <2>3. Depths(D, stream, n) /\ Depths(E, stream', n + 1)
    BY <2>2, DepthIs
  <2>4. /\ stack \in Seq(Frames) /\ passes \in Seq(PassRows) /\ StackFollows(stream, D, n, stack)
        /\ PassesFollow(stream, D, n, passes) /\ Ringed(stream, D, n)
    BY DEF ScopesInv, ScopesFollow
  <2>5. Turns(c, n, stack, stack') /\ Files(c, stack, passes, passes')
    BY <1>2, MarkersTurn
  <2> HIDE DEF D, E, n
  <2>6. stack' \in Seq(Frames) /\ StackFollows(stream', E, n + 1, stack')
    BY <2>2, <2>3, <2>4, <2>5, StackStep
  <2>7. Ringed(stream', E, n + 1)
    BY <2>2, <2>3, <2>4, <2>6, RingedGrows
  <2>8. passes' \in Seq(PassRows) /\ PassesFollow(stream', E, n + 1, passes')
    BY <2>2, <2>3, <2>4, <2>5, PassesStep
  <2>9. ScopesFollow(stream', E, Len(stream'), stack', passes')
    BY <2>2, <2>6, <2>7, <2>8 DEF ScopesFollow
  <2>10. StreamOK' /\ stack' \in Seq(Frames) /\ passes' \in Seq(PassRows)
    BY <2>2, <2>6, <2>8
  <2> QED
    BY <2>9, <2>10 DEF ScopesInv, E
<1> QED
  BY <1>1, <1>2 DEF FrameWalkNext

(* The markers still open at the end are added to the passes from the        *)
(* innermost out.                                                            *)
Outward == [i \in 1..Len(stack) |-> Len(stack) + 1 - i]
OutwardFrom(f) ==
    [s \in SUBSET DOMAIN Outward |->
        IF s = {} THEN passes
        ELSE LET x == Max(s) IN f[s \ {x}] \o Closed(SubSeq(stack, 1, Outward[x]))]

LEMMA OutwardDef == MarkerPasses = (CHOOSE f : f = OutwardFrom(f))[DOMAIN Outward]
BY DEF MarkerPasses, FoldLeft, MapThenFoldSet, OutwardFrom, Outward

LEMMA OpenCloses ==
    ASSUME ScopesInv, NEW k \in 1..Len(stack)
    PROVE  /\ Closed(SubSeq(stack, 1, k)) = Passed(stream, DepthOf(stream), Len(stream), stack[k].chunk)
           /\ Closed(SubSeq(stack, 1, k)) \in Seq(PassRows)
<1> DEFINE up == SubSeq(stack, 1, k)
<1>1. /\ stack \in Seq(Frames) /\ Len(stream) \in Nat /\ Depths(DepthOf(stream), stream, Len(stream))
      /\ StackFollows(stream, DepthOf(stream), Len(stream), stack)
  BY DepthIs DEF ScopesInv, ScopesFollow, StreamOK
<1>2. up \in Seq(Frames) /\ Len(up) = k /\ \A m \in 1..k : up[m] = stack[m]
  BY <1>1
<1> HIDE DEF up
<1>3. Closed(up) = Passed(stream, DepthOf(stream), Len(stream), stack[k].chunk) /\ Closed(up) \in Seq(PassRows)
  BY <1>1, <1>2, ClosedIs
<1> QED
  BY <1>3 DEF up

LEMMA OutwardExists ==
    ASSUME ScopesInv
    PROVE  \E f : f = OutwardFrom(f)
<1> DEFINE A == Seq(PassRows)
           D == DOMAIN Outward
           Adds(x) == Closed(SubSeq(stack, 1, Outward[x]))
           G == [x \in D |-> [acc \in A |-> acc \o Adds(x)]]
           pick == [s \in SUBSET D |-> Max(s)]
<1>0. Len(stack) \in Nat /\ passes \in A
  BY DEF ScopesInv
<1>1. D = 1..Len(stack) /\ \A x \in D : Outward[x] = Len(stack) + 1 - x /\ Outward[x] \in 1..Len(stack)
  BY <1>0 DEF Outward
<1>2. IsFiniteSet(D)
  BY <1>0, <1>1, FS_Interval
<1>3. \A x \in D : Adds(x) \in A
  BY <1>1, OpenCloses
<1>4. \A s \in SUBSET D : s # {} => pick[s] \in s
  <2> SUFFICES ASSUME NEW s \in SUBSET D, s # {} PROVE Max(s) \in s
    OBVIOUS
  <2>1. s \in SUBSET (0..Len(stack))
    BY <1>0, <1>1
  <2> QED
    BY <1>0, <2>1, NatMaxIs
<1> HIDE DEF Adds, A, D, pick
<1>5. G \in [D -> [A -> A]]
  <2>1. \A acc \in A, x \in D : acc \o Adds(x) \in A
    BY <1>3, RangeOfConcat DEF A
  <2> QED
    BY <2>1
<1>6. \A x \in D, acc \in A : G[x][acc] = acc \o Adds(x)
  OBVIOUS
<1> HIDE DEF G
<1>7. Foldable(D, A, passes, G, pick)
  BY <1>0, <1>2, <1>4, <1>5 DEF Foldable
<1>8. PICK f : FoldOf(f, D, A, passes, G, pick)
  BY <1>7, FoldExists
<1>9. f \in [SUBSET D -> A] /\ \A s \in SUBSET D : s = {} => f[s] = passes
  BY <1>8 DEF FoldOf
<1>10. ASSUME NEW s \in SUBSET D, s # {}
       PROVE  f[s] = LET x == Max(s) IN f[s \ {x}] \o Closed(SubSeq(stack, 1, Outward[x]))
  <2> DEFINE x == Max(s)
  <2>1. x = pick[s] /\ x \in D /\ s \ {x} \in SUBSET D
    BY <1>4, <1>10 DEF pick
  <2> HIDE DEF x
  <2>2. f[s] = G[x][f[s \ {x}]] /\ f[s \ {x}] \in A
    BY <1>8, <1>9, <1>10, <2>1 DEF FoldOf
  <2>3. f[s] = f[s \ {x}] \o Adds(x)
    BY <1>6, <2>1, <2>2
  <2> QED
    BY <2>3 DEF x, Adds
<1>11. f = OutwardFrom(f)
  BY <1>9, <1>10 DEF OutwardFrom, D
<1> QED
  BY <1>11

(* What the markers from depth `k` in leave behind, the open ones as passes. *)
LeftBy(k) == Range(passes) \cup UNION {Range(Closed(SubSeq(stack, 1, m))) : m \in k..Len(stack)}

LEMMA MarkerPassesAre ==
    ASSUME ScopesInv
    PROVE  Range(MarkerPasses) = LeftBy(1)
<1> DEFINE L == Len(stack)
           Open(m) == Closed(SubSeq(stack, 1, m))
           h == CHOOSE f : f = OutwardFrom(f)
           Left(k) == Range(passes) \cup UNION {Range(Open(m)) : m \in k..L}
           good == {m \in 0..L : h[1..m] \in Seq(PassRows) /\ Range(h[1..m]) = Left(L + 1 - m)}
<1>0. L \in Nat /\ passes \in Seq(PassRows)
  BY DEF ScopesInv
<1>1. DOMAIN Outward = 1..L /\ \A x \in 1..L : Outward[x] = L + 1 - x
  BY DEF Outward
<1>2. h = OutwardFrom(h)
  BY OutwardExists
<1>3. MarkerPasses = h[1..L]
  BY <1>1, OutwardDef
<1>4. \A m \in 1..L : Open(m) \in Seq(PassRows)
  BY OpenCloses
<1> HIDE DEF h, L
<1>5. h[{}] = passes
  BY <1>2 DEF OutwardFrom
<1>6. ASSUME NEW m \in 1..L PROVE h[1..m] = h[1..(m - 1)] \o Open(L + 1 - m)
  <2> DEFINE s == 1..m
  <2>1. s \in SUBSET DOMAIN Outward /\ s # {}
    <3>1. m \in s /\ s \subseteq 1..L
      BY <1>0
    <3> QED
      BY <1>1, <3>1
  <2>2. Max(s) = m
    <3>1. s \in SUBSET (0..L) /\ m \in s
      BY <1>0
    <3>2. Max(s) \in s /\ m <= Max(s)
      BY <1>0, <3>1, NatMaxIs
    <3> QED
      BY <1>0, <3>2
  <2>3. s \ {m} = 1..(m - 1)
    BY <1>0
  <2> HIDE DEF s, Open
  <2>4. h[s] = h[s \ {Max(s)}] \o Closed(SubSeq(stack, 1, Outward[Max(s)]))
    BY <1>2, <2>1 DEF OutwardFrom
  <2> QED
    BY <1>1, <2>2, <2>3, <2>4 DEF s, Open
<1> HIDE DEF Open
<1>7. 0 \in good
  <2>1. 1..0 = {} /\ (L + 1 - 0)..L = {}
    BY <1>0
  <2> QED
    BY <1>0, <1>5, <2>1
<1>8. ASSUME NEW m \in 1..L, m - 1 \in good PROVE m \in good
  <2>1. h[1..(m - 1)] \in Seq(PassRows) /\ Range(h[1..(m - 1)]) = Left(L + 1 - (m - 1))
    BY <1>8
  <2>2. L + 1 - m \in 1..L /\ L + 1 - (m - 1) = L + 1 - m + 1 /\ m \in 0..L
    BY <1>0
  <2> DEFINE k == L + 1 - m
  <2>3. k..L = {k} \cup ((k + 1)..L)
    BY <1>0, <2>2
  <2>4. Open(k) \in Seq(PassRows)
    BY <1>4, <2>2
  <2>5. h[1..m] = h[1..(m - 1)] \o Open(k)
    BY <1>6
  <2>6. h[1..m] \in Seq(PassRows) /\ Range(h[1..m]) = Range(h[1..(m - 1)]) \cup Range(Open(k))
    BY <2>1, <2>4, <2>5, RangeOfConcat
  <2> HIDE DEF k
  <2>7. Left(k) = Left(k + 1) \cup Range(Open(k))
    BY <2>3
  <2>8. Range(h[1..m]) = Left(k)
    BY <2>1, <2>2, <2>6, <2>7 DEF k
  <2> QED
    BY <2>2, <2>6, <2>8 DEF k
<1>9. \A m \in 0..L : m \in good
  <2> HIDE DEF good
  <2>1. 0 + 1 = 1
    OBVIOUS
  <2> QED
    BY <1>0, <1>7, <1>8, <2>1, Climbs
<1>10. Range(h[1..L]) = Left(1)
  <2>1. L \in good
    <3> HIDE DEF good
    <3>1. L \in 0..L
      BY <1>0
    <3> QED
      BY <1>9, <3>1
  <2>2. L + 1 - L = 1
    BY <1>0
  <2>3. Range(h[1..L]) = Left(L + 1 - L)
    BY <2>1
  <2> QED
    BY <2>2, <2>3
<1> QED
  BY <1>3, <1>10 DEF LeftBy, Open, L

(***************************************************************************)
(* `PassesAreTheScopes` in the terms of these lemmas.                      *)
(***************************************************************************)
Inside(D, n, i) == {j \in i..n : \A k \in i..j : D[k] >= D[i]}
CallsInside(s, D, n, i) == {j \in Inside(D, n, i) : s[j].op = "draw"}
AroundIt(s, D, n, i) == {j \in Pushes(s, n) : i \in Inside(D, n, j)}
RowOf(s, D, i, A, C) ==
    [path |-> [d \in 1..Cardinality(A) |-> s[CHOOSE j \in A : D[j] = d].name],
     depth |-> D[i] - 1, chunk |-> i, last |-> CHOOSE x \in C : \A y \in C : y <= x, calls |-> Cardinality(C)]
ScopeRows(s, D, n) ==
    {RowOf(s, D, i, AroundIt(s, D, n, i), CallsInside(s, D, n, i)) :
        i \in {i \in Pushes(s, n) : CallsInside(s, D, n, i) # {}}}

LEMMA ScopesDef == PassesAreTheScopes <=> ToSet(MarkerPasses) = ScopeRows(stream, DepthOf(stream), Len(stream))
BY DEF PassesAreTheScopes, ScopeRows, RowOf, AroundIt, CallsInside, Inside, Pushes, DepthOf, DepthFrom

LEMMA ScopeRowsAre ==
    ASSUME NEW s, NEW D, NEW n
    PROVE  ScopeRows(s, D, n) = {ScopeOf(s, D, n, i) : i \in {i \in Pushes(s, n) : CallsIn(s, D, n, i) # {}}}
<1>1. \A i : CallsInside(s, D, n, i) = CallsIn(s, D, n, i) /\ AroundIt(s, D, n, i) = Around(s, D, n, i)
  BY DEF CallsInside, Inside, CallsIn, AroundIt, Around, Within
<1>2. \A i : ScopeOf(s, D, n, i) = RowOf(s, D, i, Around(s, D, n, i), CallsIn(s, D, n, i))
  BY DEF ScopeOf, RowOf
<1> QED
  BY <1>1, <1>2 DEF ScopeRows

LEMMA PassesFromInv == ScopesInv => PassesAreTheScopes
<1> SUFFICES ASSUME ScopesInv PROVE PassesAreTheScopes
  OBVIOUS
<1> DEFINE s == stream
           n == Len(stream)
           D == DepthOf(stream)
           Called == {i \in Pushes(s, n) : CallsIn(s, D, n, i) # {}}
<1>1. /\ n \in Nat /\ Len(stack) \in Nat /\ Depths(D, s, n)
      /\ StackFollows(s, D, n, stack) /\ PassesFollow(s, D, n, passes)
  BY DepthIs DEF ScopesInv, ScopesFollow, StreamOK
<1>2. \A m \in 1..Len(stack) : Closed(SubSeq(stack, 1, m)) = Passed(s, D, n, stack[m].chunk)
  BY OpenCloses
<1>3. ToSet(MarkerPasses) = LeftBy(1)
  BY MarkerPassesAre DEF ToSet, Range
<1>4. PassesAreTheScopes <=> ToSet(MarkerPasses) = {ScopeOf(s, D, n, i) : i \in Called}
  BY ScopesDef, ScopeRowsAre
<1> HIDE DEF s, n, D
<1>5. Called = {i \in Pushes(s, n) : CallsIn(s, D, n, i) # {}}
  OBVIOUS
<1> HIDE DEF Called
<1>6. ASSUME NEW x \in LeftBy(1) PROVE \E i \in Called : x = ScopeOf(s, D, n, i)
  <2>1. CASE x \in Range(passes)
    BY <1>1, <1>5, <2>1 DEF PassesFollow, Done
  <2>2. CASE x \notin Range(passes)
    <3>1. PICK m \in 1..Len(stack) : x \in Range(Closed(SubSeq(stack, 1, m)))
      BY <1>6, <2>2 DEF LeftBy
    <3> DEFINE i == stack[m].chunk
    <3>2. x \in Range(Passed(s, D, n, i)) /\ i \in Pushes(s, n)
      BY <1>1, <1>2, <3>1 DEF StackFollows
    <3> HIDE DEF i
    <3>3. CallsIn(s, D, n, i) # {} /\ x = ScopeOf(s, D, n, i)
      BY <3>2, RangeOfFew DEF Passed
    <3> QED
      BY <1>5, <3>2, <3>3
  <2> QED
    BY <2>1, <2>2
<1>7. ASSUME NEW i \in Called PROVE ScopeOf(s, D, n, i) \in LeftBy(1)
  <2>1. i \in Pushes(s, n) /\ CallsIn(s, D, n, i) # {}
    BY <1>5
  <2>2. CASE Within(D, i, n)
    <3>1. D[i] \in 1..Len(stack) /\ stack[D[i]].chunk = i
      BY <1>1, <2>1, <2>2, OpenIsOnStack
    <3> DEFINE m == D[i]
    <3>2. m \in 1..Len(stack) /\ stack[m].chunk = i
      BY <3>1
    <3> HIDE DEF m
    <3>3. Closed(SubSeq(stack, 1, m)) = <<ScopeOf(s, D, n, i)>>
      BY <1>2, <2>1, <3>2 DEF Passed
    <3>4. ScopeOf(s, D, n, i) \in Range(Closed(SubSeq(stack, 1, m)))
      BY <3>3, RangeOfFew
    <3> QED
      BY <3>2, <3>4 DEF LeftBy
  <2>3. CASE ~Within(D, i, n)
    BY <1>1, <2>1, <2>3 DEF PassesFollow, Done, LeftBy
  <2> QED
    BY <2>2, <2>3
<1> QED
  BY <1>3, <1>4, <1>6, <1>7

(* Whatever the stream, nested, stray or cut off as its markers may be, the  *)
(* passes of the walk are the pushes with a call before the pop that         *)
(* balances them, each with all of those calls and the path down to it.      *)
THEOREM PassesAreScopes == FrameWalkSpec => []PassesAreTheScopes
<1>1. FrameWalkInit => ScopesInv
  BY ScopesInvInit
<1>2. ScopesInv /\ [FrameWalkNext]_walkVars => ScopesInv'
  BY ScopesInvStep
<1>3. ScopesInv => PassesAreTheScopes
  BY PassesFromInv
<1> QED
  BY <1>1, <1>2, <1>3, PTL DEF FrameWalkSpec
-----------------------------------------------------------------------------
(***************************************************************************)
(* Alignment.  A fold over the positions of a list, in order.              *)
(***************************************************************************)
Ids(keys) == [i \in DOMAIN keys |-> i]
Rungs(f, n, A, base, G) ==
    /\ f \in [SUBSET (1..n) -> A] /\ f[{}] = base
    /\ \A s \in SUBSET (1..n) : s # {} => /\ Max(s) \in s
                                          /\ f[s] = G[Max(s)][f[s \ {Max(s)}]]

LEMMA RungsExist ==
    ASSUME NEW n, NEW A, NEW base, NEW G, Chainable(n, A, base, G)
    PROVE  \E f : Rungs(f, n, A, base, G)
<1> DEFINE S == 1..n
           pick == [s \in SUBSET S |-> Max(s)]
<1>0. n \in Nat /\ base \in A /\ G \in [1..n -> [A -> A]]
  BY DEF Chainable
<1>1. \A s \in SUBSET S : s # {} => pick[s] \in s
  <2> SUFFICES ASSUME NEW s \in SUBSET S, s # {} PROVE Max(s) \in s
    OBVIOUS
  <2>1. s \in SUBSET (0..n)
    BY <1>0
  <2> QED
    BY <1>0, <2>1, NatMaxIs
<1>2. \A s \in SUBSET S : pick[s] = Max(s)
  OBVIOUS
<1> HIDE DEF pick
<1>3. Foldable(S, A, base, G, pick)
  <2>1. IsFiniteSet(S)
    BY <1>0, FS_Interval
  <2> QED
    BY <1>0, <1>1, <2>1 DEF Foldable
<1>4. PICK f : FoldOf(f, S, A, base, G, pick)
  BY <1>3, FoldExists
<1>5. /\ f \in [SUBSET S -> A]
      /\ \A s \in SUBSET S : s = {} => f[s] = base
      /\ \A s \in SUBSET S : s # {} => f[s] = G[pick[s]][f[s \ {pick[s]}]]
  BY <1>4 DEF FoldOf
<1>6. f[{}] = base
  BY <1>5
<1>7. \A s \in SUBSET S : s # {} => Max(s) \in s /\ f[s] = G[Max(s)][f[s \ {Max(s)}]]
  BY <1>1, <1>2, <1>5
<1>8. Rungs(f, n, A, base, G)
  BY <1>5, <1>6, <1>7 DEF Rungs
<1> QED
  BY <1>8

LEMMA Rung ==
    ASSUME NEW n \in Nat, NEW m \in 1..n
    PROVE  1..m \in SUBSET (1..n) /\ 1..m # {} /\ Max(1..m) = m /\ (1..m) \ {m} = 1..(m - 1)
<1> DEFINE s == 1..m
<1>1. s \in SUBSET (1..n) /\ s \in SUBSET (0..n) /\ m \in s /\ s \ {m} = 1..(m - 1)
  OBVIOUS
<1>2. Max(s) \in s /\ m <= Max(s)
  <2> HIDE DEF s
  <2> QED
    BY <1>1, NatMaxIs
<1>3. Max(s) = m
  BY <1>2
<1> QED
  BY <1>1, <1>3

-----------------------------------------------------------------------------
(***************************************************************************)
(* Framing.  What a frame is made of.                                      *)
(***************************************************************************)
Extras(flags) == 8 * Cardinality(flags \cap {"threadid", "duration", "timestamp"})
Stacked(c) == IF "callstack" \in c.flags THEN 4 + 8 * c.frames ELSE 0
LengthBytes(flags) == IF "size64" \in flags THEN 8 ELSE 4
PayloadAt(c) == 4 + Stacked(c) + Extras(c.flags) + LengthBytes(c.flags)
FrameLen(c) == PayloadAt(c) + c.len
HeaderOf(c) == [id |-> c.id, flags |-> c.flags, n |-> 0]
AnyByte == {Byte(k) : k \in Nat} \cup {HeaderOf(c) : c \in Chunks}

LEMMA ExtrasIs == ASSUME NEW flags PROVE Extras(flags) \in Nat
<1> DEFINE T == {"threadid", "duration", "timestamp"}
           U == flags \cap T
<1>1. IsFiniteSet(T)
  <2>1. IsFiniteSet({"threadid"})
    BY FS_Singleton
  <2>2. IsFiniteSet({"threadid"} \cup {"duration"})
    BY <2>1, FS_AddElement
  <2>3. IsFiniteSet(({"threadid"} \cup {"duration"}) \cup {"timestamp"})
    BY <2>2, FS_AddElement
  <2>4. T = ({"threadid"} \cup {"duration"}) \cup {"timestamp"}
    OBVIOUS
  <2> QED
    BY <2>3, <2>4
<1>2. IsFiniteSet(U)
  BY <1>1, FS_Subset
<1>3. Cardinality(U) \in Nat
  BY <1>2, FS_CardinalityType
<1> QED
  BY <1>3 DEF Extras

LEMMA AlignUpIs ==
    ASSUME NEW pos \in Nat
    PROVE  AlignUp(pos) \in Nat /\ pos <= AlignUp(pos) /\ AlignUp(pos) < pos + Align
<1>1. Align \in Nat /\ Align > 0
  BY FramingAssumption
<1> DEFINE x == pos + Align - 1
           q == x \div Align
           r == x % Align
<1>2. x \in Nat
  BY <1>1
<1> HIDE DEF x
<1>3. q \in Nat /\ r \in 0..(Align - 1) /\ x = q * Align + r
  BY <1>1, <1>2
<1>4. q * Align \in Nat
  BY <1>1, <1>3
<1> HIDE DEF q, r
<1>5. AlignUp(pos) = q * Align
  BY DEF AlignUp, q, x
<1> DEFINE y == q * Align
<1>6. y \in Nat /\ x = y + r
  BY <1>3, <1>4
<1> HIDE DEF y
<1>7. pos <= y /\ y < pos + Align
  BY <1>1, <1>3, <1>6 DEF x
<1> QED
  BY <1>5, <1>6, <1>7 DEF y

(* A frame has its header first, then the number of stack entries if any,    *)
(* and its length in the word before, or two before, the payload.            *)
FrameIs(c, data) ==
    /\ data \in Seq(AnyByte) /\ Len(data) = FrameLen(c)
    /\ data[1] = HeaderOf(c)
    /\ "callstack" \in c.flags => data[5] = Byte(c.frames)
    /\ data[5 + Stacked(c) + Extras(c.flags)] = Byte(c.len)

LEMMA FillIs ==
    ASSUME NEW k \in Nat
    PROVE  Fill(k) \in Seq(AnyByte) /\ Len(Fill(k)) = k
<1>1. Byte(0) \in AnyByte
  BY DEF AnyByte
<1> HIDE DEF AnyByte, Byte
<1>2. \A i \in 1..k : Fill(k)[i] = Byte(0)
  BY DEF Fill
<1>3. Fill(k) \in [1..k -> AnyByte]
  BY <1>1 DEF Fill
<1> QED
  BY <1>3

LEMMA FieldIs ==
    ASSUME NEW b \in AnyByte, NEW k \in Nat, k >= 1
    PROVE  Field(b, k) \in Seq(AnyByte) /\ Len(Field(b, k)) = k /\ Field(b, k)[1] = b
<1>1. Byte(0) \in AnyByte
  BY DEF AnyByte
<1> HIDE DEF AnyByte, Byte
<1>2. \A i \in 1..k : Field(b, k)[i] = IF i = 1 THEN b ELSE Byte(0)
  BY DEF Field
<1>3. Field(b, k) \in [1..k -> AnyByte]
  BY <1>1 DEF Field
<1>4. 1 \in 1..k
  OBVIOUS
<1> QED
  BY <1>2, <1>3, <1>4

Join(u, s, t, W) ==
    /\ u \in Seq(W) /\ Len(u) = Len(s) + Len(t)
    /\ \A i \in 1..Len(s) : u[i] = s[i]
    /\ \A i \in 1..Len(t) : u[Len(s) + i] = t[i]

LEMMA JoinIs ==
    ASSUME NEW W, NEW s \in Seq(W), NEW t \in Seq(W)
    PROVE  Join(s \o t, s, t, W)
BY DEF Join

LEMMA FrameOf ==
    ASSUME NEW c \in Chunks
    PROVE  FrameIs(c, Frame_(c)) /\ PayloadAt(c) \in Nat /\ FrameLen(c) \in Nat /\ PayloadAt(c) <= FrameLen(c)
<1> DEFINE e == Extras(c.flags)
           k == Stacked(c)
           lb == LengthBytes(c.flags)
           header == Field(HeaderOf(c), 4)
           trace == IF "callstack" \in c.flags THEN Field(Byte(c.frames), 4 + 8 * c.frames) ELSE <<>>
           extras == Fill(e)
           size == Field(Byte(c.len), lb)
           payload == Fill(c.len)
           W == AnyByte
<1>0. c.frames \in Nat /\ c.len \in Nat
  BY FramingAssumption
<1>1. e \in Nat /\ k \in Nat /\ lb \in {4, 8}
  BY <1>0, ExtrasIs DEF Stacked, LengthBytes
<1>2. Byte(c.frames) \in W /\ Byte(c.len) \in W /\ Byte(0) \in W /\ HeaderOf(c) \in W
  BY <1>0 DEF AnyByte
<1>3. Frame_(c) = header \o trace \o extras \o size \o payload
  BY DEF Frame_, HeaderOf, Extras, LengthBytes
<1> HIDE DEF e, lb
<1>4. header \in Seq(W) /\ Len(header) = 4 /\ header[1] = HeaderOf(c)
  <2>1. HeaderOf(c) \in AnyByte /\ 4 \in Nat /\ 4 >= 1
    BY <1>2
  <2> HIDE DEF W
  <2> QED
    BY <2>1, FieldIs DEF W
<1>5. trace \in Seq(W) /\ Len(trace) = k /\ ("callstack" \in c.flags => k >= 4 /\ trace[1] = Byte(c.frames))
  <2>1. CASE "callstack" \in c.flags
    <3>1. 4 + 8 * c.frames \in Nat /\ 4 + 8 * c.frames >= 4
      BY <1>0
    <3>2. k = 4 + 8 * c.frames /\ trace = Field(Byte(c.frames), k)
      BY <2>1 DEF Stacked
    <3> HIDE DEF k, trace
    <3>3. k \in Nat /\ k >= 4 /\ k >= 1
      BY <3>1, <3>2
    <3>4. Byte(c.frames) \in AnyByte
      BY <1>2
    <3> QED
      BY <3>2, <3>3, <3>4, FieldIs
  <2>2. CASE "callstack" \notin c.flags
    BY <2>2 DEF Stacked
  <2> QED
    BY <2>1, <2>2
<1>6. extras \in Seq(W) /\ Len(extras) = e
  BY <1>1, FillIs DEF W
<1>7. size \in Seq(W) /\ Len(size) = lb /\ size[1] = Byte(c.len)
  <2>1. lb \in Nat /\ lb >= 1
    BY <1>1
  <2> QED
    BY <1>2, <2>1, FieldIs DEF W
<1>8. payload \in Seq(W) /\ Len(payload) = c.len
  BY <1>0, FillIs DEF W
<1> HIDE DEF W, k, header, trace, extras, size, payload
<1> DEFINE a == header \o trace
           b == a \o extras
           d == b \o size
           all == d \o payload
<1>9. a \in Seq(W) /\ Len(a) = 4 + k /\ a[1] = HeaderOf(c) /\ ("callstack" \in c.flags => a[5] = Byte(c.frames))
  <2>1. Join(a, header, trace, W)
    BY <1>4, <1>5, JoinIs
  <2>2. 1 \in 1..Len(header) /\ ("callstack" \in c.flags => 1 \in 1..Len(trace)) /\ Len(header) + 1 = 5
    BY <1>1, <1>4, <1>5
  <2> HIDE DEF a
  <2> QED
    BY <1>1, <1>4, <1>5, <2>1, <2>2 DEF Join
<1> HIDE DEF a
<1>10. /\ b \in Seq(W) /\ Len(b) = 4 + k + e /\ b[1] = HeaderOf(c)
       /\ ("callstack" \in c.flags => b[5] = Byte(c.frames))
  <2>1. Join(b, a, extras, W)
    BY <1>6, <1>9, JoinIs
  <2>2. 1 \in 1..Len(a) /\ ("callstack" \in c.flags => 5 \in 1..Len(a))
    BY <1>1, <1>5, <1>9
  <2> HIDE DEF b
  <2> QED
    BY <1>1, <1>6, <1>9, <2>1, <2>2 DEF Join
<1> HIDE DEF b
<1>11. /\ d \in Seq(W) /\ Len(d) = 4 + k + e + lb /\ d[1] = HeaderOf(c)
       /\ ("callstack" \in c.flags => d[5] = Byte(c.frames)) /\ d[5 + k + e] = Byte(c.len)
  <2>1. Join(d, b, size, W)
    BY <1>7, <1>10, JoinIs
  <2>2. /\ 1 \in 1..Len(b) /\ ("callstack" \in c.flags => 5 \in 1..Len(b)) /\ Len(b) + 1 = 5 + k + e
        /\ 1 \in 1..Len(size)
    BY <1>1, <1>5, <1>7, <1>10
  <2> HIDE DEF d
  <2> QED
    BY <1>1, <1>7, <1>10, <2>1, <2>2 DEF Join
<1> HIDE DEF d
<1>12. /\ all \in Seq(W) /\ Len(all) = 4 + k + e + lb + c.len /\ all[1] = HeaderOf(c)
       /\ ("callstack" \in c.flags => all[5] = Byte(c.frames)) /\ all[5 + k + e] = Byte(c.len)
  <2>1. Join(all, d, payload, W)
    BY <1>8, <1>11, JoinIs
  <2>2. 1 \in 1..Len(d) /\ ("callstack" \in c.flags => 5 \in 1..Len(d)) /\ 5 + k + e \in 1..Len(d)
    BY <1>1, <1>5, <1>11
  <2> HIDE DEF all
  <2> QED
    BY <1>1, <1>8, <1>11, <2>1, <2>2 DEF Join
<1>13. Frame_(c) = all
  BY <1>3 DEF all, d, b, a
<1> HIDE DEF all
<1>14. PayloadAt(c) = 4 + k + e + lb /\ FrameLen(c) = 4 + k + e + lb + c.len
  BY DEF PayloadAt, FrameLen, k, e, lb
<1>15. PayloadAt(c) \in Nat /\ FrameLen(c) \in Nat /\ PayloadAt(c) <= FrameLen(c)
  BY <1>0, <1>1, <1>14
<1>16. FrameIs(c, all)
  BY <1>12, <1>14 DEF FrameIs, W, k, e
<1> QED
  BY <1>13, <1>15, <1>16

(***************************************************************************)
(* The layout: each frame where the padding of the one before it ends.     *)
(***************************************************************************)
FrameAt(data, p, c) ==
    /\ data[p + 1] = HeaderOf(c)
    /\ "callstack" \in c.flags => data[p + 5] = Byte(c.frames)
    /\ data[p + (5 + Stacked(c) + Extras(c.flags))] = Byte(c.len)
Padded(w, c) == LET v == w \o Frame_(c) IN v \o Fill(AlignUp(Len(v)) - Len(v))

LEMMA SpotsIs ==
    ASSUME NEW c \in Chunks
    PROVE  /\ Stacked(c) \in Nat /\ Extras(c.flags) \in Nat /\ LengthBytes(c.flags) \in {4, 8}
           /\ FrameLen(c) \in Nat /\ c.len \in Nat /\ c.frames \in Nat
           /\ 1 \in 1..FrameLen(c) /\ FrameLen(c) >= 8
           /\ "callstack" \in c.flags => 5 \in 1..FrameLen(c)
           /\ 5 + Stacked(c) + Extras(c.flags) \in 1..FrameLen(c)
<1>1. c.frames \in Nat /\ c.len \in Nat /\ Extras(c.flags) \in Nat
  BY FramingAssumption, ExtrasIs
<1>2. Stacked(c) \in Nat
  BY <1>1 DEF Stacked
<1>3. LengthBytes(c.flags) \in {4, 8}
  BY DEF LengthBytes
<1>4. FrameLen(c) = 4 + Stacked(c) + Extras(c.flags) + LengthBytes(c.flags) + c.len
  BY DEF FrameLen, PayloadAt
<1>5. FrameLen(c) \in Nat /\ 1 \in 1..FrameLen(c) /\ 5 \in 1..FrameLen(c) /\ FrameLen(c) >= 8
  BY <1>1, <1>2, <1>3, <1>4
<1>6. 5 + Stacked(c) + Extras(c.flags) \in 1..FrameLen(c)
  BY <1>1, <1>2, <1>3, <1>4
<1> QED
  BY <1>1, <1>2, <1>3, <1>5, <1>6

SameUpTo(v, u, l) == \A i \in 1..l : v[i] = u[i]

LEMMA FrameAtKept ==
    ASSUME NEW u, NEW v, NEW p \in Nat, NEW c \in Chunks, NEW l \in Nat, FrameAt(u, p, c), p + FrameLen(c) <= l,
           SameUpTo(v, u, l)
    PROVE  FrameAt(v, p, c)
<1> DEFINE at == 5 + Stacked(c) + Extras(c.flags)
<1>1. /\ FrameLen(c) \in Nat /\ 1 \in 1..FrameLen(c) /\ ("callstack" \in c.flags => 5 \in 1..FrameLen(c))
      /\ at \in 1..FrameLen(c)
  BY SpotsIs
<1> HIDE DEF at
<1>2. p + 1 \in 1..l /\ ("callstack" \in c.flags => p + 5 \in 1..l) /\ p + at \in 1..l
  BY <1>1
<1> QED
  BY <1>2 DEF FrameAt, at, SameUpTo

LEMMA PaddedIs ==
    ASSUME NEW w \in Seq(AnyByte), NEW c \in Chunks
    PROVE  /\ Padded(w, c) \in Seq(AnyByte) /\ Len(Padded(w, c)) = AlignUp(Len(w) + FrameLen(c))
           /\ \A i \in 1..Len(w) : Padded(w, c)[i] = w[i]
           /\ FrameAt(Padded(w, c), Len(w), c)
           /\ Len(w) + FrameLen(c) <= Len(Padded(w, c))
<1> DEFINE W == AnyByte
           f == Frame_(c)
           v == w \o f
           l == Len(v)
           pad == Fill(AlignUp(l) - l)
           u == v \o pad
           at == 5 + Stacked(c) + Extras(c.flags)
<1>0. f \in Seq(W) /\ Len(f) = FrameLen(c) /\ FrameIs(c, f)
  BY FrameOf DEF FrameIs
<1>1. Padded(w, c) = u
  BY DEF Padded
<1>2. /\ FrameLen(c) \in Nat /\ 1 \in 1..FrameLen(c) /\ ("callstack" \in c.flags => 5 \in 1..FrameLen(c))
      /\ at \in 1..FrameLen(c)
  BY SpotsIs
<1> HIDE DEF f, W
<1>3. w \in Seq(W) /\ Len(w) \in Nat
  BY DEF W
<1>4. Join(v, w, f, W)
  BY <1>0, <1>3, JoinIs
<1> HIDE DEF v
<1>5. l = Len(w) + FrameLen(c) /\ l \in Nat /\ v \in Seq(W)
  BY <1>0, <1>2, <1>3, <1>4 DEF Join
<1>6. AlignUp(l) \in Nat /\ l <= AlignUp(l)
  BY <1>5, AlignUpIs
<1>7. pad \in Seq(W) /\ Len(pad) = AlignUp(l) - l
  <2>1. AlignUp(l) - l \in Nat
    BY <1>5, <1>6
  <2> QED
    BY <2>1, FillIs DEF W
<1> HIDE DEF pad, l
<1>8. Join(u, v, pad, W)
  BY <1>5, <1>7, JoinIs
<1> HIDE DEF u, at
<1>9. u \in Seq(W) /\ Len(u) = AlignUp(l) /\ \A i \in 1..l : u[i] = v[i]
  BY <1>5, <1>6, <1>7, <1>8 DEF Join, l
<1>10. \A i \in 1..Len(w) : i \in 1..l /\ v[i] = w[i]
  BY <1>2, <1>3, <1>4, <1>5 DEF Join
<1>11. \A i \in 1..FrameLen(c) : Len(w) + i \in 1..l /\ v[Len(w) + i] = f[i]
  BY <1>0, <1>2, <1>3, <1>4, <1>5 DEF Join
<1>12. \A i \in 1..FrameLen(c) : u[Len(w) + i] = f[i]
  BY <1>9, <1>11
<1>13. f[1] = HeaderOf(c) /\ ("callstack" \in c.flags => f[5] = Byte(c.frames)) /\ f[at] = Byte(c.len)
  BY <1>0 DEF FrameIs, at
<1>14. FrameAt(u, Len(w), c)
  BY <1>2, <1>12, <1>13 DEF FrameAt, at
<1> QED
  BY <1>1, <1>5, <1>6, <1>9, <1>10, <1>14 DEF W

LaidFrom(f, s) ==
    [t \in SUBSET DOMAIN s |-> IF t = {} THEN <<>> ELSE LET x == Max(t) IN Padded(f[t \ {x}], s[x])]

LEMMA LaidDef ==
    ASSUME NEW s
    PROVE  Laid(s) = (CHOOSE f : f = LaidFrom(f, s))[DOMAIN s]
BY DEF Laid, FoldLeft, MapThenFoldSet, LaidFrom, Padded

LEMMA LaidExists ==
    ASSUME NEW s \in Seq(Chunks)
    PROVE  \E f : f = LaidFrom(f, s)
<1> DEFINE n == Len(s)
           A == Seq(AnyByte)
           G == [j \in 1..n |-> [w \in A |-> Padded(w, s[j])]]
<1>0. n \in Nat /\ DOMAIN s = 1..n /\ (\A j \in 1..n : s[j] \in Chunks) /\ <<>> \in A
  OBVIOUS
<1> HIDE DEF A, n
<1>1. \A w \in A, j \in 1..n : Padded(w, s[j]) \in A
  BY <1>0, PaddedIs DEF A
<1>2. G \in [1..n -> [A -> A]]
  BY <1>1
<1>3. \A j \in 1..n, w \in A : G[j][w] = Padded(w, s[j])
  OBVIOUS
<1> HIDE DEF G
<1>4. Chainable(n, A, <<>>, G)
  BY <1>0, <1>2 DEF Chainable
<1>5. PICK f : Rungs(f, n, A, <<>>, G)
  BY <1>4, RungsExist
<1>6. f \in [SUBSET (1..n) -> A] /\ f[{}] = <<>>
  BY <1>5 DEF Rungs
<1>7. ASSUME NEW t \in SUBSET (1..n), t # {}
      PROVE  f[t] = Padded(f[t \ {Max(t)}], s[Max(t)])
  <2>1. Max(t) \in t /\ f[t] = G[Max(t)][f[t \ {Max(t)}]]
    BY <1>5, <1>7 DEF Rungs
  <2>2. f[t \ {Max(t)}] \in A /\ Max(t) \in 1..n
    BY <1>6, <2>1
  <2> QED
    BY <1>3, <2>1, <2>2
<1>8. f = LaidFrom(f, s)
  BY <1>0, <1>6, <1>7 DEF LaidFrom
<1> QED
  BY <1>8

(* Where each frame starts, and the data it is found by.                    *)
Starts(st, s) ==
    /\ st \in [0..Len(s) -> Nat] /\ st[0] = 0
    /\ \A k \in 1..Len(s) : st[k] = AlignUp(st[k - 1] + FrameLen(s[k]))
Frames_(data, s, st) == \A k \in 1..Len(s) : FrameAt(data, st[k - 1], s[k])

LEMMA LaidChain ==
    ASSUME NEW s \in Seq(Chunks), NEW n, n = Len(s)
    PROVE  \E h : /\ h[0] = <<>> /\ h[n] = Laid(s)
                  /\ \A k \in 1..n : h[k] = Padded(h[k - 1], s[k])
<1> DEFINE f == CHOOSE f : f = LaidFrom(f, s)
           h == [k \in 0..n |-> f[1..k]]
<1>0. n \in Nat /\ DOMAIN s = 1..n /\ \A j \in 1..n : s[j] \in Chunks
  OBVIOUS
<1>1. f = LaidFrom(f, s)
  BY LaidExists
<1>2. Laid(s) = f[1..n]
  BY <1>0, LaidDef
<1> HIDE DEF f
<1>3. \A t \in SUBSET (1..n) : t = {} => f[t] = <<>>
  BY <1>0, <1>1 DEF LaidFrom
<1>4. \A t \in SUBSET (1..n) : t # {} => f[t] = Padded(f[t \ {Max(t)}], s[Max(t)])
  BY <1>0, <1>1 DEF LaidFrom
<1>5. h[0] = <<>>
  <2>1. 1..0 = {} /\ 0 \in 0..n
    BY <1>0
  <2> QED
    BY <1>3, <2>1
<1>6. ASSUME NEW k \in 1..n PROVE h[k] = Padded(h[k - 1], s[k])
  <2>1. k \in 0..n /\ k - 1 \in 0..n
    BY <1>0
  <2> DEFINE t == 1..k
  <2>2. t \in SUBSET (1..n) /\ t # {} /\ Max(t) = k /\ t \ {k} = 1..(k - 1)
    BY <1>0, Rung
  <2> HIDE DEF t
  <2>3. f[t] = Padded(f[t \ {Max(t)}], s[Max(t)])
    BY <1>4, <2>2
  <2> QED
    BY <2>1, <2>2, <2>3 DEF t
<1>7. h[n] = Laid(s)
  BY <1>0, <1>2
<1> QED
  BY <1>5, <1>6, <1>7

(* What one more frame adds to the data before it.                          *)
Extends_(v, w, c) ==
    /\ v \in Seq(AnyByte) /\ Len(w) \in Nat /\ Len(v) = AlignUp(Len(w) + FrameLen(c))
    /\ SameUpTo(v, w, Len(w))
    /\ FrameAt(v, Len(w), c)
    /\ Len(w) + FrameLen(c) <= Len(v) /\ Len(w) <= Len(v)

LEMMA PaddedExtends ==
    ASSUME NEW w \in Seq(AnyByte), NEW c \in Chunks
    PROVE  Extends_(Padded(w, c), w, c)
<1>1. Len(w) \in Nat /\ FrameLen(c) \in Nat
  BY SpotsIs
<1>2. Padded(w, c) \in Seq(AnyByte)
  BY PaddedIs
<1>3. Len(Padded(w, c)) \in Nat
  BY <1>2
<1>4. Len(Padded(w, c)) = AlignUp(Len(w) + FrameLen(c)) /\ SameUpTo(Padded(w, c), w, Len(w))
  BY PaddedIs DEF SameUpTo
<1>5. FrameAt(Padded(w, c), Len(w), c) /\ Len(w) + FrameLen(c) <= Len(Padded(w, c))
  BY PaddedIs
<1>6. Len(w) <= Len(Padded(w, c))
  BY <1>1, <1>3, <1>5
<1> QED
  BY <1>1, <1>2, <1>4, <1>5, <1>6 DEF Extends_

LEMMA LaidIs ==
    ASSUME NEW s \in Seq(Chunks)
    PROVE  \E st : /\ Starts(st, s) /\ Frames_(Laid(s), s, st)
                   /\ Laid(s) \in Seq(AnyByte) /\ Len(Laid(s)) = st[Len(s)]
<1> DEFINE n == Len(s)
           W == Seq(AnyByte)
<1>0. n \in Nat /\ \A j \in 1..n : s[j] \in Chunks
  OBVIOUS
<1>1. PICK h : /\ h[0] = <<>> /\ h[n] = Laid(s)
               /\ \A k \in 1..n : h[k] = Padded(h[k - 1], s[k])
  BY LaidChain
<1> HIDE DEF n, W
<1> DEFINE typed == {k \in 0..n : h[k] \in W}
<1>2. \A k \in 0..n : h[k] \in W
  <2>1. 0 \in typed
    <3>1. <<>> \in Seq(AnyByte) /\ 0 \in 0..n
      BY <1>0
    <3> QED
      BY <1>1, <3>1 DEF W
  <2>2. ASSUME NEW k \in (0 + 1)..n, k - 1 \in typed PROVE k \in typed
    <3>1. k \in 1..n /\ k \in 0..n
      BY <1>0
    <3>2. Padded(h[k - 1], s[k]) \in W
      BY <1>0, <2>2, <3>1, PaddedIs DEF W
    <3> QED
      BY <1>1, <3>1, <3>2
  <2> HIDE DEF typed
  <2>3. 0 \in Nat
    OBVIOUS
  <2>4. \A k \in 0..n : k \in typed
    BY <1>0, <2>1, <2>2, <2>3, Climbs
  <2> QED
    BY <2>4 DEF typed
<1> HIDE DEF typed
<1>3. ASSUME NEW k \in 1..n
      PROVE  Extends_(h[k], h[k - 1], s[k])
  <2>1. k - 1 \in 0..n
    BY <1>0
  <2>2. Extends_(Padded(h[k - 1], s[k]), h[k - 1], s[k])
    BY <1>0, <1>2, <2>1, PaddedExtends DEF W
  <2> QED
    BY <1>1, <2>2
<1> DEFINE st == [k \in 0..n |-> Len(h[k])]
<1>4. st \in [0..n -> Nat]
  BY <1>2 DEF W
<1>5. \A k \in 0..n : st[k] = Len(h[k])
  OBVIOUS
<1> HIDE DEF st
<1>6. st[0] = 0
  BY <1>0, <1>1, <1>5
<1>7. ASSUME NEW k \in 1..n
      PROVE  st[k] = AlignUp(st[k - 1] + FrameLen(s[k]))
  <2>1. k \in 0..n /\ k - 1 \in 0..n
    BY <1>0
  <2> QED
    BY <1>3, <1>5, <2>1 DEF Extends_
<1>8. Starts(st, s)
  BY <1>4, <1>6, <1>7 DEF Starts, n
<1> DEFINE Fits(k, j) == FrameAt(h[k], st[j - 1], s[j]) /\ st[j - 1] + FrameLen(s[j]) <= st[k]
           good == {k \in 0..n : \A j \in 1..k : Fits(k, j)}
<1>9. 0 \in good
  BY <1>0
<1>10. ASSUME NEW k \in (0 + 1)..n, k - 1 \in good PROVE k \in good
  <2>1. k \in 1..n /\ k \in 0..n /\ k - 1 \in 0..n /\ s[k] \in Chunks
    BY <1>0
  <2>2. \A j \in 1..(k - 1) : Fits(k - 1, j)
    BY <1>10
  <2>3. Extends_(h[k], h[k - 1], s[k])
    BY <1>3, <2>1
  <2>4. st[k] = Len(h[k]) /\ st[k - 1] = Len(h[k - 1]) /\ st[k - 1] \in Nat /\ st[k] \in Nat
    BY <1>4, <1>5, <2>1
  <2>5. /\ SameUpTo(h[k], h[k - 1], st[k - 1])
        /\ Fits(k, k) /\ st[k - 1] <= st[k]
    BY <2>3, <2>4 DEF Extends_
  <2>6. ASSUME NEW j \in 1..k PROVE Fits(k, j)
    <3>1. CASE j = k
      BY <2>5, <3>1
    <3>2. CASE j # k
      <4>1. j \in 1..(k - 1) /\ j - 1 \in 0..n /\ s[j] \in Chunks
        BY <1>0, <3>2
      <4>2. FrameAt(h[k - 1], st[j - 1], s[j]) /\ st[j - 1] + FrameLen(s[j]) <= st[k - 1]
        BY <2>2, <4>1
      <4>3. st[j - 1] \in Nat /\ FrameLen(s[j]) \in Nat
        BY <1>4, <4>1, SpotsIs
      <4>4. FrameAt(h[k], st[j - 1], s[j])
        BY <2>4, <2>5, <4>1, <4>2, <4>3, FrameAtKept
      <4>5. st[j - 1] + FrameLen(s[j]) <= st[k]
        BY <2>4, <2>5, <4>2, <4>3
      <4> QED
        BY <4>4, <4>5
    <3> QED
      BY <3>1, <3>2
  <2> HIDE DEF Fits
  <2> QED
    BY <2>1, <2>6
<1>11. n \in good
  <2> HIDE DEF good
  <2>1. 0 \in Nat /\ n \in 0..n
    BY <1>0
  <2>2. \A k \in 0..n : k \in good
    BY <1>0, <1>9, <1>10, <2>1, Climbs
  <2> QED
    BY <2>1, <2>2
<1>12. Frames_(Laid(s), s, st)
  BY <1>1, <1>11 DEF Frames_, n
<1>13. n \in 0..n
  BY <1>0
<1>14. Laid(s) \in Seq(AnyByte) /\ Len(Laid(s)) = st[Len(s)]
  BY <1>1, <1>2, <1>5, <1>13 DEF W, n
<1> QED
  BY <1>8, <1>12, <1>14

(* Recursion down from n: a value for each index from those of the later ones. *)
Downward(n, R, S) ==
    /\ n \in Nat /\ S \in [0..n -> [[0..n -> R] -> R]]
    /\ \A p \in 0..n : \A g \in [0..n -> R], h \in [0..n -> R] :
           (\A q \in (p + 1)..n : g[q] = h[q]) => S[p][g] = S[p][h]

LEMMA DownwardExists ==
    ASSUME NEW n, NEW R, NEW S, Downward(n, R, S), NEW r \in R
    PROVE  \E f \in [0..n -> R] : \A p \in 0..n : f[p] = S[p][f]
<1> DEFINE A == [0..n -> R]
           base == [p \in 0..n |-> r]
           G == [k \in 1..(n + 1) |-> [g \in A |-> [g EXCEPT ![n + 1 - k] = S[n + 1 - k][g]]]]
<1>0. n \in Nat /\ S \in [0..n -> [A -> R]] /\ n + 1 \in Nat
  <2>1. n \in Nat /\ S \in [0..n -> [A -> R]]
    BY Zenon DEF Downward
  <2>2. n + 1 \in Nat
    BY <2>1
  <2> QED
    BY Zenon, <2>1, <2>2
<1>1. base \in A
  OBVIOUS
<1> HIDE DEF base
<1>2. ASSUME NEW k \in 1..(n + 1), NEW g \in A
      PROVE  /\ n + 1 - k \in 0..n /\ G[k][g] \in A
             /\ G[k][g][n + 1 - k] = S[n + 1 - k][g]
             /\ \A q \in 0..n : q # n + 1 - k => G[k][g][q] = g[q]
  <2>1. n + 1 - k \in 0..n
    BY <1>0
  <2>2. S[n + 1 - k][g] \in R
    BY <1>0, <2>1
  <2>3. G[k][g] = [g EXCEPT ![n + 1 - k] = S[n + 1 - k][g]]
    OBVIOUS
  <2> HIDE DEF G
  <2> QED
    BY <2>1, <2>2, <2>3
<1>3. G \in [1..(n + 1) -> [A -> A]]
  BY <1>2
<1> HIDE DEF G, A
<1>4. Chainable(n + 1, A, base, G)
  BY <1>0, <1>1, <1>3 DEF Chainable
<1>5. PICK c : ChainOf(c, n + 1, A, base, G)
  BY <1>4, ChainExists
<1>6. c \in [0..(n + 1) -> A] /\ \A k \in 1..(n + 1) : c[k] = G[k][c[k - 1]]
  BY <1>5 DEF ChainOf
<1>7. ASSUME NEW k \in 1..(n + 1)
      PROVE  /\ n + 1 - k \in 0..n /\ c[k - 1] \in A
             /\ c[k][n + 1 - k] = S[n + 1 - k][c[k - 1]]
             /\ \A q \in 0..n : q # n + 1 - k => c[k][q] = c[k - 1][q]
  <2>1. k - 1 \in 0..(n + 1)
    BY <1>0
  <2>2. c[k - 1] \in A /\ c[k] = G[k][c[k - 1]]
    BY <1>6, <2>1
  <2> QED
    BY <1>2, <2>2
<1>8. ASSUME NEW q \in 0..n, NEW k \in (n + 1 - q)..(n + 1)
      PROVE  c[k][q] = c[n + 1 - q][q]
  <2> DEFINE m == n + 1 - q
             good == {i \in m..(n + 1) : c[i][q] = c[m][q]}
  <2>1. m \in Nat /\ m \in m..(n + 1) /\ m \in 1..(n + 1)
    BY <1>0
  <2>2. m \in good
    BY <2>1
  <2>3. ASSUME NEW i \in (m + 1)..(n + 1), i - 1 \in good PROVE i \in good
    <3>1. i \in 1..(n + 1) /\ q # n + 1 - i /\ i \in m..(n + 1)
      BY <1>0, <2>1
    <3>2. c[i][q] = c[i - 1][q]
      BY <1>7, <3>1
    <3> QED
      BY <2>3, <3>1, <3>2
  <2> HIDE DEF good
  <2>4. \A i \in m..(n + 1) : i \in good
    <3> HIDE DEF m
    <3> QED
      BY <1>0, <2>1, <2>2, <2>3, Climbs
  <2> QED
    BY <2>4 DEF good
<1> DEFINE f == c[n + 1]
<1>9. f \in A
  BY <1>0, <1>6
<1>10. ASSUME NEW p \in 0..n PROVE f[p] = S[p][f]
  <2> DEFINE k == n + 1 - p
  <2>1. k \in 1..(n + 1) /\ n + 1 - k = p /\ n + 1 \in k..(n + 1)
    BY <1>0
  <2>2. f[p] = c[k][p]
    BY <1>8, <2>1
  <2>3. c[k][p] = S[p][c[k - 1]] /\ c[k - 1] \in A
    BY <1>7, <2>1
  <2>4. ASSUME NEW q \in (p + 1)..n PROVE c[k - 1][q] = f[q]
    <3>1. q \in 0..n /\ k - 1 \in (n + 1 - q)..(n + 1) /\ n + 1 \in (n + 1 - q)..(n + 1)
      BY <1>0
    <3> QED
      BY <1>8, <3>1
  <2> HIDE DEF f, k
  <2>5. S[p][c[k - 1]] = S[p][f]
    BY <1>9, <2>3, <2>4 DEF Downward, A
  <2> QED
    BY <2>2, <2>3, <2>5
<1> HIDE DEF f
<1> QED
  BY <1>9, <1>10 DEF A

(***************************************************************************)
(* The walk.                                                               *)
(***************************************************************************)
\* What the walk answers from a position, given what it answers from those further on.
ReadOn(data, from, pos) ==
    IF pos + 4 > Len(data) THEN [chunks |-> <<>>, verdict |-> "clean"]
    ELSE LET f == ReadFrame(data, pos)
         IN  IF f.what = "chunk"
             THEN [chunks |-> <<[id |-> f.id, len |-> f.len]>> \o from[f.next].chunks,
                   verdict |-> from[f.next].verdict]
             ELSE IF f.what = "end" THEN [chunks |-> <<>>, verdict |-> "clean"]
                  ELSE [chunks |-> <<>>, verdict |-> f.what]
ReadOnFrom(from, data) == [pos \in 0..(Len(data) + Align) |-> ReadOn(data, from, pos)]

LEMMA ReadOnDef ==
    ASSUME NEW data
    PROVE  Walk(data) = (CHOOSE from : from = ReadOnFrom(from, data))[0]
BY DEF Walk, ReadOnFrom, ReadOn

ChunkIds == {c.id : c \in Chunks} \cup {0}
Shapes == [id : ChunkIds, len : Nat]
Results == [chunks : Seq(Shapes), verdict : {"clean", "bad", "crash"}]

(* What a reading answers: a chunk hands on to a position further on.        *)
Reading(f, pos, n) ==
    /\ f.what \in {"end", "bad", "crash", "chunk"}
    /\ f.what = "chunk" => f.id \in ChunkIds /\ f.len \in Nat /\ f.next \in (pos + 1)..n

LEMMA AnyByteIs ==
    ASSUME NEW w \in AnyByte
    PROVE  w.id \in ChunkIds /\ w.n \in Nat
BY DEF AnyByte, ChunkIds, Byte, HeaderOf

LEMMA ReadIs ==
    ASSUME NEW data \in Seq(AnyByte), NEW pos \in Nat, pos + 4 <= Len(data)
    PROVE  Reading(ReadFrame(data, pos), pos, Len(data) + Align)
<1> DEFINE M == Len(data)
           c == data[pos + 1]
           traced == IF "callstack" \in c.flags /\ pos + 8 <= M THEN 4 + 8 * data[pos + 5].n ELSE 0
           e == Extras(c.flags)
           metadata == pos + 4 + e + traced
           payload == metadata + LengthBytes(c.flags)
           len == data[metadata + 1].n
           f == ReadFrame(data, pos)
<1>0. M \in Nat /\ Align \in Nat /\ \A i \in 1..M : data[i].id \in ChunkIds /\ data[i].n \in Nat
  <2>1. \A i \in 1..M : data[i] \in AnyByte
    OBVIOUS
  <2> QED
    BY <2>1, AnyByteIs, FramingAssumption
<1>1. c.id \in ChunkIds
  BY <1>0
<1>2. traced \in Nat
  <2>1. CASE "callstack" \in c.flags /\ pos + 8 <= M
    <3>1. data[pos + 5].n \in Nat
      BY <1>0, <2>1
    <3>2. traced = 4 + 8 * data[pos + 5].n
      BY <2>1
    <3> HIDE DEF traced
    <3> QED
      BY <3>1, <3>2
  <2>2. CASE ~("callstack" \in c.flags /\ pos + 8 <= M)
    BY <2>2
  <2> QED
    BY <2>1, <2>2
<1>3. e \in Nat
  BY ExtrasIs
<1>4. LengthBytes(c.flags) \in {4, 8}
  BY DEF LengthBytes
<1>5. f = IF c.id = 0 THEN [what |-> "end"]
          ELSE IF "callstack" \in c.flags /\ pos + 8 > M THEN [what |-> "crash"]
          ELSE IF payload > M \/ len > M - payload THEN [what |-> "bad"]
          ELSE [what |-> "chunk", id |-> c.id, at |-> pos, payload |-> payload, len |-> len,
                next |-> AlignUp(payload + len)]
  BY DEF ReadFrame, Extras, LengthBytes
<1> HIDE DEF c, traced, e, f
<1>6. metadata \in Nat /\ payload \in Nat /\ payload > pos /\ metadata + 1 <= payload
  BY <1>2, <1>3, <1>4
<1> HIDE DEF metadata, payload, M
<1>7. CASE f.what = "chunk"
  <2>1. ~(payload > M \/ len > M - payload) /\ f.id = c.id /\ f.len = len /\ f.next = AlignUp(payload + len)
    BY <1>5, <1>7
  <2> HIDE DEF f
  <2>2. len \in Nat
    BY <1>0, <1>6, <2>1
  <2>3. payload + len \in Nat /\ payload + len <= M
    BY <1>0, <1>6, <2>1, <2>2
  <2> HIDE DEF len
  <2>4. AlignUp(payload + len) \in Nat /\ payload + len <= AlignUp(payload + len)
        /\ AlignUp(payload + len) < payload + len + Align
    BY <2>3, AlignUpIs
  <2>5. AlignUp(payload + len) \in (pos + 1)..(M + Align)
    BY <1>0, <1>6, <2>2, <2>3, <2>4
  <2> QED
    BY <1>1, <1>7, <2>1, <2>2, <2>5 DEF Reading, f, M
<1>8. f.what \in {"end", "bad", "crash", "chunk"}
  BY <1>5
<1> QED
  BY <1>7, <1>8 DEF Reading, f

LEMMA ReadOnIn ==
    ASSUME NEW data \in Seq(AnyByte), NEW n, n = Len(data) + Align, NEW g \in [0..n -> Results],
           NEW pos \in 0..n
    PROVE  ReadOn(data, g, pos) \in Results
<1> DEFINE f == ReadFrame(data, pos)
<1>1. CASE pos + 4 > Len(data)
  BY <1>1 DEF ReadOn, Results
<1>2. CASE ~(pos + 4 > Len(data))
  <2>1. Reading(f, pos, n)
    <3>1. pos \in Nat /\ pos + 4 <= Len(data)
      BY <1>2
    <3> QED
      BY <3>1, ReadIs
  <2> HIDE DEF f
  <2>2. CASE f.what = "end"
    BY <1>2, <2>2 DEF ReadOn, Results, f
  <2>3. CASE f.what \in {"bad", "crash"}
    <3>1. ReadOn(data, g, pos) = [chunks |-> <<>>, verdict |-> f.what]
      BY <1>2, <2>3 DEF ReadOn, f
    <3> QED
      BY <2>3, <3>1 DEF Results
  <2>4. CASE f.what = "chunk"
    <3>1. ReadOn(data, g, pos) = [chunks |-> <<[id |-> f.id, len |-> f.len]>> \o g[f.next].chunks,
                                     verdict |-> g[f.next].verdict]
      BY <1>2, <2>4 DEF ReadOn, f
    <3>2. f.id \in ChunkIds /\ f.len \in Nat /\ f.next \in 0..n
      BY <2>1, <2>4, FramingAssumption DEF Reading
    <3>3. g[f.next].chunks \in Seq(Shapes) /\ g[f.next].verdict \in {"clean", "bad", "crash"}
      BY <3>2 DEF Results
    <3>4. [id |-> f.id, len |-> f.len] \in Shapes
      BY <3>2 DEF Shapes
    <3>5. <<[id |-> f.id, len |-> f.len]>> \o g[f.next].chunks \in Seq(Shapes)
      BY <3>3, <3>4
    <3> QED
      BY <3>1, <3>3, <3>5 DEF Results
  <2> QED
    BY <2>1, <2>2, <2>3, <2>4 DEF Reading
<1> QED
  BY <1>1, <1>2

(* A step looks only at positions further on.                                *)
LEMMA ReadOnLooksOn ==
    ASSUME NEW data \in Seq(AnyByte), NEW n, n = Len(data) + Align, NEW pos \in 0..n,
           NEW g, NEW h, \A q \in (pos + 1)..n : g[q] = h[q]
    PROVE  ReadOn(data, g, pos) = ReadOn(data, h, pos)
<1> DEFINE f == ReadFrame(data, pos)
<1>1. CASE pos + 4 > Len(data)
  BY <1>1 DEF ReadOn
<1>2. CASE ~(pos + 4 > Len(data))
  <2>1. Reading(f, pos, n)
    <3>1. pos \in Nat /\ pos + 4 <= Len(data)
      BY <1>2
    <3> QED
      BY <3>1, ReadIs
  <2> HIDE DEF f
  <2>2. CASE f.what \in {"end", "bad", "crash"}
    BY <1>2, <2>2 DEF ReadOn, f
  <2>3. CASE f.what = "chunk"
    <3>1. g[f.next] = h[f.next]
      BY <2>1, <2>3 DEF Reading
    <3> QED
      BY <1>2, <2>3, <3>1 DEF ReadOn, f
  <2> QED
    BY <2>1, <2>2, <2>3 DEF Reading
<1> QED
  BY <1>1, <1>2

LEMMA ReadsOn ==
    ASSUME NEW data \in Seq(AnyByte), NEW n, n = Len(data) + Align
    PROVE  \E f : /\ Walk(data) = f[0]
                  /\ \A p \in 0..n : f[p] = ReadOn(data, f, p)
<1> DEFINE A == [0..n -> Results]
           S == [p \in 0..n |-> [g \in A |-> ReadOn(data, g, p)]]
<1>0. n \in Nat /\ n > 0
  BY FramingAssumption
<1>1. \A p \in 0..n, g \in A : ReadOn(data, g, p) \in Results
  BY ReadOnIn
<1>2. S \in [0..n -> [A -> Results]]
  BY <1>1
<1>3. \A p \in 0..n, g \in A : S[p][g] = ReadOn(data, g, p)
  OBVIOUS
<1> HIDE DEF S
<1>4. Downward(n, Results, S)
  <2>1. ASSUME NEW p \in 0..n, NEW g \in A, NEW h \in A, \A q \in (p + 1)..n : g[q] = h[q]
        PROVE  S[p][g] = S[p][h]
    <3>1. ReadOn(data, g, p) = ReadOn(data, h, p)
      BY <2>1, ReadOnLooksOn
    <3> QED
      BY <1>3, <3>1
  <2>2. \A p \in 0..n : \A g \in A, h \in A :
            (\A q \in (p + 1)..n : g[q] = h[q]) => S[p][g] = S[p][h]
    BY <2>1
  <2>3. n \in Nat
    BY <1>0
  <2> QED
    BY <1>2, <2>2, <2>3, Zenon DEF Downward
<1>5. [chunks |-> <<>>, verdict |-> "clean"] \in Results
  BY DEF Results
<1>6. \E f \in A : \A p \in 0..n : f[p] = S[p][f]
  BY <1>4, <1>5, DownwardExists
<1>7. PICK d \in A : \A p \in 0..n : d[p] = ReadOn(data, d, p)
  <2> HIDE DEF A
  <2>1. PICK d \in A : \A p \in 0..n : d[p] = S[p][d]
    BY <1>6
  <2>2. ASSUME NEW p \in 0..n PROVE d[p] = ReadOn(data, d, p)
    <3>1. d[p] = S[p][d]
      BY <2>1
    <3>2. S[p][d] = ReadOn(data, d, p)
      BY <1>3
    <3> QED
      BY <3>1, <3>2
  <2> QED
    BY <2>2
<1>8. d = ReadOnFrom(d, data)
  BY <1>7 DEF ReadOnFrom
<1> DEFINE f == CHOOSE from : from = ReadOnFrom(from, data)
<1>9. f = ReadOnFrom(f, data) /\ Walk(data) = f[0]
  BY <1>8, ReadOnDef
<1> HIDE DEF f
<1>10. ASSUME NEW p \in 0..n PROVE f[p] = ReadOn(data, f, p)
  BY <1>9 DEF ReadOnFrom
<1> QED
  BY <1>9, <1>10

(* A frame that is all there is read as it was laid out; one that is cut, but *)
(* for its header, is neither a chunk nor an end.                             *)
ReadsAs(f, p, c, n) ==
    /\ p + FrameLen(c) <= n => f.what = "chunk" /\ f.id = c.id /\ f.len = c.len /\ f.next = AlignUp(p + FrameLen(c))
    /\ p + FrameLen(c) > n => f.what = IF "callstack" \in c.flags /\ p + 8 > n THEN "crash" ELSE "bad"

LEMMA PlacesAdd ==
    ASSUME NEW p \in Nat, NEW e \in Nat, NEW k \in Nat, NEW w \in {4, 8}, NEW l \in Nat,
           NEW frame, frame = 4 + k + e + w + l,
           NEW metadata, metadata = p + 4 + e + k, NEW payload, payload = metadata + w
    PROVE  metadata \in Nat /\ payload \in Nat /\ payload + l = p + frame
           /\ metadata + 1 = p + (5 + k + e) /\ metadata + 1 <= payload
<1>1. metadata \in Nat
  OBVIOUS
<1>2. payload \in Nat /\ metadata + 1 <= payload
  BY <1>1
<1>3. payload + l = p + frame
  OBVIOUS
<1> QED
  BY <1>1, <1>2, <1>3

LEMMA FrameRead ==
    ASSUME NEW data \in Seq(AnyByte), NEW u, NEW p \in Nat, NEW c \in Chunks, p + 4 <= Len(data),
           FrameAt(u, p, c), SameUpTo(data, u, Len(data))
    PROVE  ReadsAs(ReadFrame(data, p), p, c, Len(data))
<1> DEFINE M == Len(data)
           h == data[p + 1]
           traced == IF "callstack" \in h.flags /\ p + 8 <= M THEN 4 + 8 * data[p + 5].n ELSE 0
           metadata == p + 4 + Extras(h.flags) + traced
           payload == metadata + LengthBytes(h.flags)
           len == data[metadata + 1].n
           f == ReadFrame(data, p)
           cutShort == "callstack" \in c.flags /\ p + 8 > M
<1>0. M \in Nat
  OBVIOUS
<1>1. f = IF h.id = 0 THEN [what |-> "end"]
          ELSE IF "callstack" \in h.flags /\ p + 8 > M THEN [what |-> "crash"]
          ELSE IF payload > M \/ len > M - payload THEN [what |-> "bad"]
          ELSE [what |-> "chunk", id |-> h.id, at |-> p, payload |-> payload, len |-> len,
                next |-> AlignUp(payload + len)]
  BY DEF ReadFrame, Extras, LengthBytes
<1>2. /\ Stacked(c) \in Nat /\ Extras(c.flags) \in Nat /\ LengthBytes(c.flags) \in {4, 8}
      /\ FrameLen(c) \in Nat /\ c.len \in Nat /\ c.frames \in Nat
  BY SpotsIs
<1>3. FrameLen(c) = 4 + Stacked(c) + Extras(c.flags) + LengthBytes(c.flags) + c.len
  BY DEF FrameLen, PayloadAt
<1>4. h = HeaderOf(c)
  <2>1. p + 1 \in 1..M
    BY <1>0
  <2> QED
    BY <2>1 DEF FrameAt, SameUpTo
<1> HIDE DEF h, f
<1>5. h.flags = c.flags /\ h.id = c.id /\ h.id # 0
  BY <1>4, FramingAssumption DEF HeaderOf
<1>6. CASE cutShort
  <2>1. f = [what |-> "crash"]
    BY <1>1, <1>5, <1>6
  <2>2. "callstack" \in c.flags /\ p + 8 > M
    BY <1>6
  <2>3. Stacked(c) >= 4
    BY <1>2, <2>2 DEF Stacked
  <2>4. p + FrameLen(c) > M
    <3> DEFINE e == Extras(c.flags)
               k == Stacked(c)
               w == LengthBytes(c.flags)
               l == c.len
               frame == FrameLen(c)
    <3>1. /\ e \in Nat /\ k \in Nat /\ w \in {4, 8} /\ l \in Nat /\ k >= 4 /\ frame = 4 + k + e + w + l
          /\ M \in Nat /\ p + 8 > M
      BY <1>0, <1>2, <1>3, <2>2, <2>3
    <3> HIDE DEF e, k, w, l, frame, M
    <3>2. frame >= 8 /\ frame \in Nat
      BY <3>1
    <3>3. p + frame > M
      BY <3>1, <3>2
    <3> QED
      BY <3>3 DEF frame, M
  <2> QED
    BY <2>1, <2>2, <2>4, <1>0, <1>2 DEF ReadsAs, f
<1>7. CASE ~cutShort
  <2>1. traced = Stacked(c)
    <3>1. CASE "callstack" \in c.flags
      <4>1. p + 5 \in 1..M /\ p + 8 <= M
        BY <1>0, <1>7, <3>1
      <4>2. data[p + 5] = Byte(c.frames)
        BY <3>1, <4>1 DEF FrameAt, SameUpTo
      <4>3. data[p + 5].n = c.frames
        BY <4>2 DEF Byte
      <4> QED
        BY <1>5, <3>1, <4>1, <4>3 DEF Stacked
    <3>2. CASE "callstack" \notin c.flags
      BY <1>5, <3>2 DEF Stacked
    <3> QED
      BY <3>1, <3>2
  <2> HIDE DEF traced
  <2>2. metadata = p + 4 + Extras(c.flags) + Stacked(c) /\ payload = metadata + LengthBytes(c.flags)
    BY <1>5, <2>1
  <2>3. "callstack" \notin h.flags \/ ~(p + 8 > M)
    BY <1>5, <1>7
  <2> HIDE DEF metadata, payload, cutShort
  <2>4. metadata \in Nat /\ payload \in Nat /\ payload + c.len = p + FrameLen(c)
        /\ metadata + 1 = p + (5 + Stacked(c) + Extras(c.flags)) /\ metadata + 1 <= payload
    <3> DEFINE e == Extras(c.flags)
               k == Stacked(c)
               w == LengthBytes(c.flags)
               l == c.len
               frame == FrameLen(c)
    <3>1. /\ e \in Nat /\ k \in Nat /\ w \in {4, 8} /\ l \in Nat /\ frame = 4 + k + e + w + l
          /\ metadata = p + 4 + e + k /\ payload = metadata + w
      BY <1>2, <1>3, <2>2
    <3> HIDE DEF e, k, w, l, frame
    <3>2. /\ metadata \in Nat /\ payload \in Nat /\ payload + l = p + frame
          /\ metadata + 1 = p + (5 + k + e) /\ metadata + 1 <= payload
      BY <3>1, PlacesAdd
    <3> QED
      BY <3>2 DEF e, k, l, frame
  <2>5. payload <= M => len = c.len
    <3> SUFFICES ASSUME payload <= M PROVE len = c.len
      OBVIOUS
    <3>1. metadata + 1 \in 1..M
      BY <1>0, <2>4
    <3>2. data[metadata + 1] = Byte(c.len)
      <4>1. u[metadata + 1] = Byte(c.len)
        BY <2>4 DEF FrameAt
      <4> QED
        BY <3>1, <4>1 DEF SameUpTo
    <3> QED
      BY <3>2 DEF Byte
  <2> HIDE DEF len
  <2>6. CASE p + FrameLen(c) <= M
    <3>1. payload <= M /\ ~(c.len > M - payload)
      <4> DEFINE l == c.len
      <4>1. payload + l <= M
        BY <2>4, <2>6
      <4>2. payload \in Nat /\ l \in Nat /\ M \in Nat
        BY <1>0, <1>2, <2>4
      <4> HIDE DEF l, M
      <4>3. payload <= M /\ ~(l > M - payload)
        BY <4>1, <4>2
      <4> QED
        BY <4>3 DEF l, M
    <3>2. ~(payload > M) /\ len = c.len
      BY <1>0, <2>4, <2>5, <3>1
    <3>3. f = [what |-> "chunk", id |-> h.id, at |-> p, payload |-> payload, len |-> len,
               next |-> AlignUp(payload + len)]
      BY <1>1, <1>5, <2>3, <3>1, <3>2
    <3>4. f.what = "chunk" /\ f.id = c.id /\ f.len = c.len /\ f.next = AlignUp(p + FrameLen(c))
      BY <1>5, <2>4, <3>2, <3>3
    <3> HIDE DEF M
    <3> QED
      BY <1>0, <1>2, <2>6, <3>4 DEF ReadsAs, f, M
  <2>7. CASE p + FrameLen(c) > M
    <3>1. payload > M \/ len > M - payload
      <4> DEFINE l == c.len
                 frame == FrameLen(c)
      <4>1. /\ payload \in Nat /\ l \in Nat /\ M \in Nat /\ payload + l = p + frame /\ p + frame > M
            /\ (payload <= M => len = l)
        BY <1>0, <1>2, <2>4, <2>5, <2>7
      <4> HIDE DEF l, frame, M
      <4>2. CASE payload <= M
        BY <4>1, <4>2
      <4>3. CASE ~(payload <= M)
        BY <4>1, <4>3
      <4> QED
        BY <4>2, <4>3
    <3>2. f = [what |-> "bad"]
      <4>1. h.id # 0 /\ ("callstack" \notin h.flags \/ ~(p + 8 > M))
        BY <1>5, <2>3
      <4> HIDE DEF M
      <4> QED
        BY <1>1, <3>1, <4>1
    <3>3. f.what = "bad" /\ ~("callstack" \in c.flags /\ p + 8 > M)
      BY <1>5, <2>3, <3>2
    <3> HIDE DEF M
    <3> QED
      BY <1>0, <1>2, <2>7, <3>3 DEF ReadsAs, f, M
  <2> QED
    BY <1>0, <1>2, <2>6, <2>7
<1> QED
  BY <1>6, <1>7

LEMMA StartsRise ==
    ASSUME NEW s \in Seq(Chunks), NEW st, Starts(st, s)
    PROVE  /\ \A k \in 1..Len(s) : /\ st[k - 1] \in Nat /\ st[k] \in Nat /\ FrameLen(s[k]) \in Nat
                                   /\ FrameLen(s[k]) >= 4 /\ st[k - 1] + FrameLen(s[k]) <= st[k]
                                   /\ st[k] < st[k - 1] + FrameLen(s[k]) + Align
           /\ \A j \in 0..Len(s) : \A k \in j..Len(s) : st[j] <= st[k]
<1> DEFINE n == Len(s)
<1>0. n \in Nat /\ \A k \in 0..n : st[k] \in Nat
  <2>1. st \in [0..n -> Nat]
    BY DEF Starts
  <2> QED
    BY <2>1
<1>1. ASSUME NEW k \in 1..n
      PROVE  /\ st[k - 1] \in Nat /\ st[k] \in Nat /\ FrameLen(s[k]) \in Nat
             /\ FrameLen(s[k]) >= 4 /\ st[k - 1] + FrameLen(s[k]) <= st[k]
             /\ st[k] < st[k - 1] + FrameLen(s[k]) + Align
  <2>1. s[k] \in Chunks /\ k - 1 \in 0..n /\ k \in 0..n
    BY <1>0
  <2>2. st[k - 1] \in Nat /\ FrameLen(s[k]) \in Nat /\ FrameLen(s[k]) >= 4
    <3>1. FrameLen(s[k]) \in Nat /\ FrameLen(s[k]) >= 8
      BY <2>1, SpotsIs
    <3> QED
      BY <1>0, <2>1, <3>1
  <2>3. st[k] = AlignUp(st[k - 1] + FrameLen(s[k]))
    BY DEF Starts
  <2>4. st[k - 1] + FrameLen(s[k]) \in Nat
    BY <2>2
  <2> QED
    BY <1>0, <2>1, <2>2, <2>3, <2>4, AlignUpIs
<1>2. ASSUME NEW j \in 0..n, NEW k \in j..n PROVE st[j] <= st[k]
  <2> DEFINE good == {i \in j..n : st[j] <= st[i]}
  <2>1. j \in good
    BY <1>0
  <2>2. ASSUME NEW i \in (j + 1)..n, i - 1 \in good PROVE i \in good
    <3>1. i \in 1..n /\ i \in j..n /\ i - 1 \in 0..n
      BY <1>0
    <3>2. st[j] \in Nat /\ st[i - 1] \in Nat /\ st[i] \in Nat /\ st[i - 1] <= st[i]
      BY <1>0, <1>1, <3>1
    <3> QED
      BY <2>2, <3>1, <3>2
  <2> HIDE DEF good
  <2>3. \A i \in j..n : i \in good
    <3>1. j \in Nat /\ n \in Nat
      BY <1>0
    <3> HIDE DEF n
    <3> QED
      BY <2>1, <2>2, <3>1, Climbs
  <2> QED
    BY <2>3 DEF good
<1> QED
  BY <1>1, <1>2

LEMMA StartsAgree ==
    ASSUME NEW s \in Seq(Chunks), NEW t \in Seq(Chunks), NEW st, NEW u, Starts(st, s), Starts(u, t),
           Len(t) <= Len(s), \A k \in 1..Len(t) : t[k] = s[k]
    PROVE  u[Len(t)] = st[Len(t)]
<1> DEFINE m == Len(t)
           good == {k \in 0..m : u[k] = st[k]}
<1>0. m \in Nat /\ Len(s) \in Nat
  OBVIOUS
<1>1. 0 \in good
  BY <1>0 DEF Starts
<1>2. ASSUME NEW k \in (0 + 1)..m, k - 1 \in good PROVE k \in good
  <2>1. k \in 1..m /\ k \in 0..m /\ k \in 1..Len(s)
    BY <1>0
  <2>2. u[k] = AlignUp(u[k - 1] + FrameLen(t[k])) /\ st[k] = AlignUp(st[k - 1] + FrameLen(s[k]))
    BY <2>1 DEF Starts
  <2> QED
    BY <1>2, <2>1, <2>2
<1> HIDE DEF good
<1>3. \A k \in 0..m : k \in good
  <2> HIDE DEF m
  <2>1. 0 \in Nat
    OBVIOUS
  <2> QED
    BY <1>0, <1>1, <1>2, <2>1, Climbs
<1> QED
  BY <1>0, <1>3 DEF good

(* What the walk shows of the chunks after the k-th, up to the m-th.         *)
Shown(s, k, m) == [i \in 1..(m - k) |-> [id |-> s[k + i].id, len |-> s[k + i].len]]

LEMMA ShownIs ==
    ASSUME NEW s, NEW m \in Nat, NEW k \in 1..m
    PROVE  <<[id |-> s[k].id, len |-> s[k].len]>> \o Shown(s, k, m) = Shown(s, k - 1, m)
<1> DEFINE x(i) == [id |-> s[i].id, len |-> s[i].len]
           W == {x(i) : i \in 1..m}
           a == <<x(k)>>
           b == Shown(s, k, m)
           d == Shown(s, k - 1, m)
<1>1. b \in [1..(m - k) -> W] /\ \A i \in 1..(m - k) : b[i] = x(k + i)
  BY DEF Shown
<1>2. d \in [1..(m - (k - 1)) -> W] /\ \A i \in 1..(m - (k - 1)) : d[i] = x(k - 1 + i)
  BY DEF Shown
<1>3. x(k) \in W
  OBVIOUS
<1> HIDE DEF W, x, b, d
<1>4. b \in Seq(W) /\ Len(b) = m - k /\ d \in Seq(W) /\ Len(d) = m - k + 1
  BY <1>1, <1>2
<1>5. a \in Seq(W) /\ Len(a) = 1 /\ a[1] = x(k)
  BY <1>3
<1> HIDE DEF a
<1>6. Join(a \o b, a, b, W)
  BY <1>4, <1>5, JoinIs
<1>7. a \o b \in Seq(W) /\ Len(a \o b) = m - k + 1
  BY <1>4, <1>5, <1>6 DEF Join
<1>8. ASSUME NEW i \in 1..(m - k + 1) PROVE (a \o b)[i] = d[i]
  <2>1. d[i] = x(k - 1 + i)
    BY <1>2
  <2>2. CASE i = 1
    BY <1>5, <1>6, <2>1, <2>2 DEF Join
  <2>3. CASE i # 1
    <3>1. i - 1 \in 1..(m - k) /\ k + (i - 1) = k - 1 + i /\ i = 1 + (i - 1)
      BY <2>3
    <3>2. (a \o b)[i] = b[i - 1]
      BY <1>4, <1>5, <1>6, <3>1 DEF Join
    <3> QED
      BY <1>1, <2>1, <3>1, <3>2
  <2> QED
    BY <2>2, <2>3
<1> DEFINE e == a \o b
<1> HIDE DEF e
<1>9. e = d
  <2>1. e \in Seq(W) /\ d \in Seq(W) /\ Len(e) = Len(d)
    BY <1>4, <1>7 DEF e
  <2>2. \A i \in 1..Len(e) : e[i] = d[i]
    BY <1>7, <1>8 DEF e
  <2> QED
    BY <2>1, <2>2
<1> QED
  BY <1>9 DEF a, b, d, e, x

(* Frames that are all there are walked over, one after the other, to where   *)
(* the walk ends.                                                             *)
WalkEndsAt(data, pos, verdict) == \A g : ReadOn(data, g, pos) = [chunks |-> <<>>, verdict |-> verdict]
Whole(s, st, m, n) == \A k \in 1..m : st[k - 1] + FrameLen(s[k]) <= n

LEMMA WalksOver ==
    ASSUME NEW data \in Seq(AnyByte), NEW u, SameUpTo(data, u, Len(data)),
           NEW s \in Seq(Chunks), NEW st, Starts(st, s), Frames_(u, s, st),
           NEW m \in 0..Len(s), Whole(s, st, m, Len(data)), st[m] <= Len(data) + Align,
           NEW v, WalkEndsAt(data, st[m], v)
    PROVE  Walk(data) = [chunks |-> Shown(s, 0, m), verdict |-> v]
<1> DEFINE M == Len(data)
           n == M + Align
           N == Len(s)
<1>0. M \in Nat /\ n \in Nat /\ Align \in Nat /\ N \in Nat /\ m \in Nat /\ st \in [0..N -> Nat] /\ st[0] = 0
  BY FramingAssumption DEF Starts
<1>1. PICK f : Walk(data) = f[0] /\ \A p \in 0..n : f[p] = ReadOn(data, f, p)
  BY ReadsOn
<1> DEFINE good == {j \in 0..m : f[st[m - j]] = [chunks |-> Shown(s, m - j, m), verdict |-> v]}
<1>2. 0 \in good
  <2>1. m - 0 = m /\ st[m] \in 0..n
    BY <1>0
  <2>2. f[st[m]] = [chunks |-> <<>>, verdict |-> v]
    BY <1>1, <2>1 DEF WalkEndsAt
  <2>3. Shown(s, m, m) = <<>>
    BY <1>0 DEF Shown
  <2> QED
    BY <1>0, <2>1, <2>2, <2>3
<1>3. ASSUME NEW j \in (0 + 1)..m, j - 1 \in good PROVE j \in good
  <2> DEFINE k == m - (j - 1)
             c == s[k]
             p == st[k - 1]
             r == ReadFrame(data, p)
  <2>1. k \in 1..m /\ k \in 1..N /\ k - 1 = m - j /\ j \in 0..m /\ k - 1 \in 0..N /\ c \in Chunks
    BY <1>0
  <2>2. f[st[k]] = [chunks |-> Shown(s, k, m), verdict |-> v]
    BY <1>3
  <2> HIDE DEF k
  <2>3. p \in Nat /\ FrameLen(c) \in Nat /\ FrameLen(c) >= 4 /\ p + FrameLen(c) <= M
    BY <1>0, <2>1, StartsRise DEF Whole
  <2>4. FrameAt(u, p, c) /\ st[k] = AlignUp(p + FrameLen(c))
    BY <2>1 DEF Frames_, Starts
  <2> HIDE DEF c, p
  <2>5. p + 4 <= M /\ p \in 0..n
    BY <1>0, <2>3
  <2>6. ReadsAs(r, p, c, M)
    BY <2>1, <2>3, <2>4, <2>5, FrameRead
  <2> HIDE DEF r, M, n
  <2>7. r.what = "chunk" /\ r.id = c.id /\ r.len = c.len /\ r.next = st[k]
    BY <2>3, <2>4, <2>6 DEF ReadsAs
  <2>8. f[p] = ReadOn(data, f, p)
    BY <1>1, <2>5
  <2>9. ~(p + 4 > Len(data))
    BY <1>0, <2>3, <2>5 DEF M
  <2>10. ReadOn(data, f, p) = [chunks |-> <<[id |-> r.id, len |-> r.len]>> \o f[r.next].chunks,
                                verdict |-> f[r.next].verdict]
    BY <2>7, <2>9 DEF ReadOn, r
  <2>11. ReadOn(data, f, p) = [chunks |-> <<[id |-> c.id, len |-> c.len]>> \o Shown(s, k, m), verdict |-> v]
    BY <2>2, <2>7, <2>10
  <2>12. <<[id |-> c.id, len |-> c.len]>> \o Shown(s, k, m) = Shown(s, k - 1, m)
    BY <1>0, <2>1, ShownIs DEF c
  <2>13. f[p] = [chunks |-> Shown(s, k - 1, m), verdict |-> v]
    BY <2>8, <2>11, <2>12
  <2> QED
    BY <2>1, <2>13 DEF p
<1> HIDE DEF good
<1>4. \A j \in 0..m : j \in good
  <2>1. 0 \in Nat
    OBVIOUS
  <2> QED
    BY <1>0, <1>2, <1>3, <2>1, Climbs
<1>5. m \in good /\ m - m = 0
  BY <1>0, <1>4
<1>6. f[st[0]] = [chunks |-> Shown(s, 0, m), verdict |-> v]
  BY <1>5 DEF good
<1> QED
  BY <1>0, <1>1, <1>6

(* What the writer holds: chunks, and a cut inside the last one's data.      *)
FramingInv ==
    /\ written \in Seq(Chunks) /\ cut \in Nat
    /\ cut # 0 => written # <<>> /\ cut <= Len(Laid(written)) - Len(Laid(Front(written)))

(* What is there of a sequence that was cut: what was before the cut.         *)
LEMMA CutIs ==
    ASSUME NEW W, NEW u \in Seq(W), NEW l \in 0..Len(u)
    PROVE  SubSeq(u, 1, l) \in Seq(W) /\ Len(SubSeq(u, 1, l)) = l /\ SameUpTo(SubSeq(u, 1, l), u, l)
BY DEF SameUpTo

LEMMA FrontIs ==
    ASSUME NEW s \in Seq(Chunks), s # <<>>
    PROVE  /\ Front(s) \in Seq(Chunks) /\ Len(Front(s)) = Len(s) - 1 /\ Len(s) \in Nat /\ Len(s) >= 1
           /\ \A k \in 1..Len(Front(s)) : Front(s)[k] = s[k]
<1>1. Len(s) \in Nat /\ Len(s) >= 1
  OBVIOUS
<1>2. Front(s) = SubSeq(s, 1, Len(s) - 1)
  BY DEF Front
<1>3. Len(s) - 1 \in 0..Len(s)
  BY <1>1
<1> QED
  BY <1>1, <1>2, <1>3, CutIs DEF SameUpTo

LEMMA LaidLen ==
    ASSUME NEW s \in Seq(Chunks)
    PROVE  Laid(s) \in Seq(AnyByte) /\ Len(Laid(s)) \in Nat
<1>1. Laid(s) \in Seq(AnyByte)
  BY LaidIs
<1> QED
  BY <1>1

LEMMA FramingInvStep == FramingInv /\ [FramingNext]_framingVars => FramingInv'
<1> SUFFICES ASSUME FramingInv, [FramingNext]_framingVars PROVE FramingInv'
  OBVIOUS
<1> USE DEF FramingInv
<1>1. ASSUME cut = 0, NEW c \in Chunks, written' = Append(written, c), UNCHANGED cut PROVE FramingInv'
  BY <1>1
<1>2. ASSUME written # <<>>, NEW k \in 1..(Len(Laid(written)) - Len(Laid(Front(written)))), cut' = k,
             UNCHANGED written
      PROVE  FramingInv'
  <2>1. Len(Laid(written)) \in Nat /\ Len(Laid(Front(written))) \in Nat
    BY <1>2, FrontIs, LaidLen
  <2>2. k \in Nat /\ k <= Len(Laid(written)) - Len(Laid(Front(written)))
    BY <2>1
  <2> QED
    BY <1>2, <2>2
<1>3. CASE UNCHANGED framingVars
  BY <1>3 DEF framingVars
<1> QED
  BY <1>1, <1>2, <1>3 DEF FramingNext

\* What the walk of a cut layout answers: the first chunks, and a verdict.
WalkGives(data, s, m, v) == Walk(data) = [chunks |-> Shown(s, 0, m), verdict |-> v]

(* What it says of a frame with these many bytes left of it.                  *)
Says(c, left) ==
    IF left < 4 THEN "clean" ELSE IF "callstack" \in c.flags /\ left < 8 THEN "crash" ELSE "bad"

(* Nothing was cut but padding: the walk ends at the end, clean.              *)
LEMMA WalksAll ==
    ASSUME NEW data \in Seq(AnyByte), NEW u, SameUpTo(data, u, Len(data)),
           NEW s \in Seq(Chunks), NEW st, Starts(st, s), Frames_(u, s, st),
           Len(data) <= st[Len(s)],
           Len(s) = 0 \/ st[Len(s) - 1] + FrameLen(s[Len(s)]) <= Len(data)
    PROVE  WalkGives(data, s, Len(s), "clean")
<1> DEFINE n == Len(s)
           M == Len(data)
<1>0. n \in Nat /\ M \in Nat /\ Align \in Nat /\ n \in 0..n /\ st[0] = 0 /\ st[n] \in Nat
  BY FramingAssumption DEF Starts
<1>1. Whole(s, st, n, M)
  <2> SUFFICES ASSUME NEW k \in 1..n PROVE st[k - 1] + FrameLen(s[k]) <= M
    BY DEF Whole
  <2>1. n \in 1..n /\ n - 1 \in 0..n
    BY <1>0
  <2>2. st[n - 1] + FrameLen(s[n]) <= M /\ st[n - 1] \in Nat /\ FrameLen(s[n]) \in Nat
    BY <1>0, <2>1, StartsRise
  <2>3. CASE k = n
    BY <2>2, <2>3
  <2>4. CASE k # n
    <3>1. k \in 0..n /\ n - 1 \in k..n
      BY <1>0, <2>4
    <3>2. st[k] <= st[n - 1]
      BY <3>1, StartsRise
    <3>3. st[k - 1] \in Nat /\ st[k] \in Nat /\ FrameLen(s[k]) \in Nat /\ st[k - 1] + FrameLen(s[k]) <= st[k]
      BY StartsRise
    <3> DEFINE i == st[k - 1]
               f == FrameLen(s[k])
               j == st[n - 1]
               g == FrameLen(s[n])
    <3>4. /\ i \in Nat /\ f \in Nat /\ j \in Nat /\ g \in Nat /\ st[k] \in Nat
          /\ i + f <= st[k] /\ st[k] <= j /\ j + g <= M
      BY <2>2, <3>2, <3>3
    <3> HIDE DEF i, f, j, g, n, M
    <3>5. i + f <= M
      BY <1>0, <3>4
    <3> QED
      BY <3>5 DEF i, f
  <2> QED
    BY <2>3, <2>4
<1>2. st[n] <= M + Align
  <2>1. CASE n = 0
    BY <1>0, <2>1
  <2>2. CASE n # 0
    <3>1. n \in 1..n
      BY <1>0, <2>2
    <3>2. /\ st[n - 1] \in Nat /\ FrameLen(s[n]) \in Nat /\ st[n] < st[n - 1] + FrameLen(s[n]) + Align
      BY <3>1, StartsRise
    <3> QED
      BY <1>0, <2>2, <3>2
  <2> QED
    BY <2>1, <2>2
<1>3. WalkEndsAt(data, st[n], "clean")
  <2>1. st[n] + 4 > Len(data)
    BY <1>0
  <2> QED
    BY <2>1 DEF WalkEndsAt, ReadOn
<1>4. Walk(data) = [chunks |-> Shown(s, 0, n), verdict |-> "clean"]
  BY <1>0, <1>1, <1>2, <1>3, WalksOver
<1> QED
  BY <1>4 DEF WalkGives

(* The last frame was cut: the walk shows the ones before it, and says what    *)
(* is left of it.                                                             *)
LEMMA WalksShort ==
    ASSUME NEW data \in Seq(AnyByte), NEW u, SameUpTo(data, u, Len(data)),
           NEW s \in Seq(Chunks), NEW st, Starts(st, s), Frames_(u, s, st),
           Len(s) # 0, st[Len(s) - 1] <= Len(data), Len(data) < st[Len(s) - 1] + FrameLen(s[Len(s)])
    PROVE  WalkGives(data, s, Len(s) - 1, Says(s[Len(s)], Len(data) - st[Len(s) - 1]))
<1> DEFINE n == Len(s)
           m == n - 1
           M == Len(data)
           p == st[m]
           c == s[n]
           r == ReadFrame(data, p)
<1>0. /\ n \in Nat /\ M \in Nat /\ Align \in Nat /\ n \in 1..n /\ m \in 0..n /\ m \in Nat /\ p \in Nat
      /\ c \in Chunks
  <2>1. n \in Nat /\ M \in Nat /\ Align \in Nat
    BY FramingAssumption
  <2>2. n \in 1..n /\ m \in 0..n /\ m \in Nat
    BY <2>1
  <2>3. st \in [0..n -> Nat]
    BY DEF Starts
  <2>4. p \in Nat
    BY <2>2, <2>3
  <2>5. c \in Chunks
    BY <2>2
  <2> HIDE DEF n, M, p, c
  <2> QED
    BY <2>1, <2>2, <2>4, <2>5
<1>1. FrameLen(c) \in Nat /\ FrameAt(u, p, c)
  BY <1>0, StartsRise DEF Frames_
<1>2. Whole(s, st, m, M)
  <2> SUFFICES ASSUME NEW k \in 1..m PROVE st[k - 1] + FrameLen(s[k]) <= M
    BY DEF Whole
  <2>1. k \in 1..n /\ k \in 0..n /\ m \in k..n
    BY <1>0
  <2>2. st[k] <= p
    BY <2>1, StartsRise
  <2>3. st[k - 1] \in Nat /\ st[k] \in Nat /\ FrameLen(s[k]) \in Nat /\ st[k - 1] + FrameLen(s[k]) <= st[k]
    BY <2>1, StartsRise
  <2> QED
    BY <1>0, <2>2, <2>3
<1>3. p <= M + Align
  BY <1>0
<1>4. CASE M - p < 4
  <2>1. p + 4 > Len(data)
    BY <1>0, <1>4
  <2>2. WalkEndsAt(data, p, "clean")
    BY <2>1 DEF WalkEndsAt, ReadOn
  <2>3. Walk(data) = [chunks |-> Shown(s, 0, m), verdict |-> "clean"]
    BY <1>0, <1>2, <1>3, <2>2, WalksOver
  <2> QED
    BY <1>4, <2>3 DEF WalkGives, Says
<1>5. CASE ~(M - p < 4)
  <2>1. p + 4 <= Len(data) /\ p + FrameLen(c) > Len(data)
    BY <1>0, <1>1, <1>5
  <2>2. ReadsAs(r, p, c, Len(data))
    BY <1>0, <1>1, <2>1, FrameRead
  <2>3. r.what = IF "callstack" \in c.flags /\ p + 8 > M THEN "crash" ELSE "bad"
    BY <2>1, <2>2 DEF ReadsAs
  <2>4. WalkEndsAt(data, p, r.what)
    <3>1. ~(p + 4 > Len(data)) /\ r.what # "chunk" /\ r.what # "end"
      BY <1>0, <2>1, <2>3
    <3> HIDE DEF p
    <3> QED
      BY <3>1 DEF WalkEndsAt, ReadOn
  <2> HIDE DEF r
  <2>5. Walk(data) = [chunks |-> Shown(s, 0, m), verdict |-> r.what]
    BY <1>0, <1>2, <1>3, <2>4, WalksOver
  <2>6. r.what = Says(c, M - p)
    <3>1. p + 8 > M <=> M - p < 8
      BY <1>0
    <3> QED
      BY <1>5, <2>3, <3>1 DEF Says
  <2> QED
    BY <2>5, <2>6 DEF WalkGives
<1> QED
  BY <1>4, <1>5

LEMMA ShownWhole ==
    ASSUME NEW s \in Seq(Chunks)
    PROVE  Shown(s, 0, Len(s)) = [i \in 1..Len(s) |-> [id |-> s[i].id, len |-> s[i].len]]
<1>1. Len(s) \in Nat /\ Len(s) - 0 = Len(s)
  OBVIOUS
<1>2. \A i \in 1..Len(s) : 0 + i = i
  OBVIOUS
<1> QED
  BY <1>1, <1>2 DEF Shown

LEMMA ShownFront ==
    ASSUME NEW s \in Seq(Chunks), s # <<>>
    PROVE  Shown(Front(s), 0, Len(Front(s))) = Shown(s, 0, Len(s) - 1)
<1> DEFINE fr == Front(s)
<1>1. Len(fr) = Len(s) - 1 /\ \A i \in 1..Len(fr) : fr[i] = s[i]
  BY FrontIs
<1>2. \A i \in 1..(Len(fr) - 0) : i \in 1..Len(fr) /\ 0 + i = i
  BY FrontIs
<1> HIDE DEF fr
<1> QED
  BY <1>1, <1>2 DEF Shown, fr

LEMMA WalkFromInv == FramingInv => WalkIsTheLayout
<1> SUFFICES ASSUME FramingInv PROVE WalkIsTheLayout
  OBVIOUS
<1> DEFINE s == written
           n == Len(s)
           u == Laid(s)
           l == Len(u) - cut
           fr == Front(s)
           left == Len(Stream) - Len(Laid(fr))
           whole == s = <<>> \/ left >= Len(Frame_(s[n]))
           seen == IF whole THEN s ELSE fr
           verdict == IF whole THEN "clean" ELSE Says(s[n], left)
<1>1. s \in Seq(Chunks) /\ cut \in Nat /\ (cut # 0 => s # <<>> /\ cut <= Len(u) - Len(Laid(fr)))
  BY DEF FramingInv
<1>2. PICK st : /\ Starts(st, s) /\ Frames_(u, s, st)
                /\ u \in Seq(AnyByte) /\ Len(u) = st[n]
  BY <1>1, LaidIs
<1>3. n \in Nat /\ st[0] = 0 /\ st[n] \in Nat /\ (s # <<>> => fr \in Seq(Chunks) /\ Len(fr) = n - 1 /\ n >= 1)
  BY <1>1, <1>2, FrontIs DEF Starts
<1>4. ASSUME s # <<>>
      PROVE  Len(Laid(fr)) = st[n - 1] /\ st[n - 1] \in Nat /\ st[n - 1] <= st[n]
  <2>1. PICK b : Starts(b, fr) /\ Len(Laid(fr)) = b[Len(fr)]
    BY <1>3, <1>4, LaidIs
  <2>2. Len(fr) <= Len(s) /\ \A k \in 1..Len(fr) : fr[k] = s[k]
    BY <1>1, <1>3, <1>4, FrontIs
  <2>3. b[Len(fr)] = st[Len(fr)]
    BY <1>1, <1>2, <1>3, <1>4, <2>1, <2>2, StartsAgree
  <2>4. n - 1 \in 0..n /\ n \in (n - 1)..n
    BY <1>3, <1>4
  <2>5. st[n - 1] <= st[n]
    BY <1>1, <1>2, <2>4, StartsRise
  <2>6. st[n - 1] \in Nat
    BY <1>2, <2>4 DEF Starts
  <2> QED
    BY <1>3, <1>4, <2>1, <2>3, <2>5, <2>6
<1>5. l \in 0..Len(u) /\ (s # <<>> => st[n - 1] <= l)
  BY <1>1, <1>2, <1>3, <1>4
<1>6. Stream \in Seq(AnyByte) /\ Len(Stream) = l /\ SameUpTo(Stream, u, l)
  BY <1>2, <1>5, CutIs DEF Stream
<1>7. l <= st[n] /\ l \in Nat
  BY <1>2, <1>3, <1>5
<1> HIDE DEF u, l
<1>8. WalkGives(Stream, seen, Len(seen), verdict)
  <2>1. CASE s = <<>>
    <3>1. n = 0 /\ seen = s /\ verdict = "clean"
      BY <2>1
    <3>2. WalkGives(Stream, s, n, "clean")
      BY <1>1, <1>2, <1>6, <1>7, <3>1, WalksAll
    <3> QED
      BY <3>1, <3>2
  <2>2. CASE s # <<>>
    <3>1. n >= 1 /\ n # 0 /\ s[n] \in Chunks
      BY <1>1, <2>2
    <3>2. Len(Frame_(s[n])) = FrameLen(s[n]) /\ FrameLen(s[n]) \in Nat
      BY <3>1, FrameOf DEF FrameIs
    <3>3. left = l - st[n - 1] /\ st[n - 1] \in Nat /\ st[n - 1] <= l
      BY <1>4, <1>5, <1>6, <2>2
    <3> HIDE DEF left
    <3>4. CASE l >= st[n - 1] + FrameLen(s[n])
      <4>1. whole
        BY <1>7, <3>2, <3>3, <3>4
      <4>2. seen = s /\ verdict = "clean"
        BY <4>1
      <4>3. WalkGives(Stream, s, n, "clean")
        BY <1>1, <1>2, <1>6, <1>7, <3>4, WalksAll
      <4> QED
        BY <4>2, <4>3
    <3>5. CASE ~(l >= st[n - 1] + FrameLen(s[n]))
      <4>1. ~whole
        BY <1>7, <2>2, <3>2, <3>3, <3>5
      <4>2. seen = fr /\ verdict = Says(s[n], l - st[n - 1])
        BY <3>3, <4>1
      <4>3. WalkGives(Stream, s, n - 1, Says(s[n], l - st[n - 1]))
        <5>1. l < st[n - 1] + FrameLen(s[n])
          BY <1>7, <3>2, <3>3, <3>5
        <5> QED
          BY <1>1, <1>2, <1>6, <3>1, <3>3, <5>1, WalksShort
      <4>4. Shown(fr, 0, Len(fr)) = Shown(s, 0, n - 1)
        BY <1>1, <2>2, ShownFront
      <4> HIDE DEF seen, verdict, fr
      <4> QED
        BY <4>2, <4>3, <4>4 DEF WalkGives
    <3> QED
      BY <3>4, <3>5
  <2> QED
    BY <2>1, <2>2
<1>9. Shown(seen, 0, Len(seen)) = [i \in 1..Len(seen) |-> [id |-> seen[i].id, len |-> seen[i].len]]
  <2>1. seen \in Seq(Chunks)
    BY <1>1, <1>3
  <2> HIDE DEF seen
  <2> QED
    BY <2>1, ShownWhole
<1>10. verdict = IF whole \/ left < 4 THEN "clean"
                 ELSE IF "callstack" \in s[n].flags /\ left < 8 THEN "crash" ELSE "bad"
  BY DEF Says
<1> QED
  BY <1>8, <1>9, <1>10 DEF WalkGives, WalkIsTheLayout

(* A stream of whole chunks, cut anywhere in the last one, is walked over the *)
(* chunks whose payload is there; and what is left of a frame is reported     *)
(* unless it is three bytes or fewer, which read as clean, or less than its   *)
(* stack's count, which raises.                                               *)
THEOREM WalksAreTheLayout == FramingSpec => []WalkIsTheLayout
<1>1. FramingInit => FramingInv
  <2>1. <<>> \in Seq(Chunks)
    OBVIOUS
  <2> QED
    BY <2>1 DEF FramingInit, FramingInv
<1> QED
  BY <1>1, FramingInvStep, WalkFromInv, PTL DEF FramingSpec

-----------------------------------------------------------------------------
(***************************************************************************)
(* Slices.  The offsets of a set, gone through in ascending order.         *)
(***************************************************************************)
Offsets(from, to) == [i \in 1..(to - from) |-> from + i - 1]
Noted(set, seen, at) == IF at \in set THEN Append(seen, at) ELSE seen
AscendingFrom(f, set, q) ==
    [t \in SUBSET DOMAIN q |-> IF t = {} THEN <<>> ELSE LET x == Max(t) IN Noted(set, f[t \ {x}], q[x])]

LEMMA AscendingDef ==
    ASSUME NEW set, NEW from, NEW to
    PROVE  LET q == Offsets(from, to)
           IN  Ascending(set, from, to) = (CHOOSE f : f = AscendingFrom(f, set, q))[DOMAIN q]
BY DEF Ascending, FoldLeft, MapThenFoldSet, AscendingFrom, Noted, Offsets

LEMMA NotedIn == ASSUME NEW set, NEW w \in Seq(Nat), NEW at \in Nat PROVE Noted(set, w, at) \in Seq(Nat)
BY DEF Noted

LEMMA AscendingExists ==
    ASSUME NEW set, NEW n \in Nat, NEW q \in [1..n -> Nat]
    PROVE  \E f : f = AscendingFrom(f, set, q)
<1> DEFINE A == Seq(Nat)
           G == [j \in 1..n |-> [w \in A |-> Noted(set, w, q[j])]]
<1>0. DOMAIN q = 1..n /\ (\A j \in 1..n : q[j] \in Nat) /\ <<>> \in A
  OBVIOUS
<1> HIDE DEF A
<1>1. \A w \in A, j \in 1..n : Noted(set, w, q[j]) \in A
  BY <1>0, NotedIn DEF A
<1>2. G \in [1..n -> [A -> A]]
  BY <1>1
<1>3. \A j \in 1..n, w \in A : G[j][w] = Noted(set, w, q[j])
  OBVIOUS
<1> HIDE DEF G
<1>4. Chainable(n, A, <<>>, G)
  BY <1>0, <1>2 DEF Chainable
<1>5. PICK f : Rungs(f, n, A, <<>>, G)
  BY <1>4, RungsExist
<1>6. f \in [SUBSET (1..n) -> A] /\ f[{}] = <<>>
  BY <1>5 DEF Rungs
<1>7. ASSUME NEW t \in SUBSET (1..n), t # {}
      PROVE  f[t] = Noted(set, f[t \ {Max(t)}], q[Max(t)])
  <2>1. Max(t) \in t /\ f[t] = G[Max(t)][f[t \ {Max(t)}]]
    BY <1>5, <1>7 DEF Rungs
  <2>2. f[t \ {Max(t)}] \in A /\ Max(t) \in 1..n
    BY <1>6, <2>1
  <2> QED
    BY <1>3, <2>1, <2>2
<1>8. f = AscendingFrom(f, set, q)
  BY <1>0, <1>6, <1>7 DEF AscendingFrom
<1> QED
  BY <1>8

(* What has been noted after each offset.                                    *)
NotedChain(h, set, from, n) ==
    h[0] = <<>> /\ \A k \in 1..n : h[k] = Noted(set, h[k - 1], from + k - 1)

LEMMA AscendingChain ==
    ASSUME NEW set, NEW from \in Nat, NEW n \in Nat
    PROVE  \E h : NotedChain(h, set, from, n) /\ h[n] = Ascending(set, from, from + n)
<1> DEFINE q == Offsets(from, from + n)
           f == CHOOSE f : f = AscendingFrom(f, set, q)
           h == [k \in 0..n |-> f[1..k]]
<1>0. from + n - from = n
  OBVIOUS
<1>1. q \in [1..n -> Nat] /\ DOMAIN q = 1..n /\ \A k \in 1..n : q[k] = from + k - 1
  BY <1>0 DEF Offsets
<1> HIDE DEF q
<1>2. f = AscendingFrom(f, set, q)
  BY <1>1, AscendingExists
<1>3. Ascending(set, from, from + n) = f[1..n]
  BY <1>1, AscendingDef DEF q
<1> HIDE DEF f
<1>4. \A t \in SUBSET (1..n) : t = {} => f[t] = <<>>
  BY <1>1, <1>2 DEF AscendingFrom
<1>5. \A t \in SUBSET (1..n) : t # {} => f[t] = Noted(set, f[t \ {Max(t)}], q[Max(t)])
  BY <1>1, <1>2 DEF AscendingFrom
<1>6. h[0] = <<>>
  <2>1. 1..0 = {} /\ 0 \in 0..n
    OBVIOUS
  <2> QED
    BY <1>4, <2>1
<1>7. ASSUME NEW k \in 1..n PROVE h[k] = Noted(set, h[k - 1], from + k - 1)
  <2>1. k \in 0..n /\ k - 1 \in 0..n
    OBVIOUS
  <2> DEFINE t == 1..k
  <2>2. t \in SUBSET (1..n) /\ t # {} /\ Max(t) = k /\ t \ {k} = 1..(k - 1)
    BY Rung
  <2> HIDE DEF t
  <2>3. f[t] = Noted(set, f[t \ {Max(t)}], q[Max(t)])
    BY <1>5, <2>2
  <2> QED
    BY <1>1, <2>1, <2>2, <2>3 DEF t
<1>8. h[n] = Ascending(set, from, from + n)
  BY <1>3
<1> QED
  BY <1>6, <1>7, <1>8 DEF NotedChain

LEMMA NotedTyped ==
    ASSUME NEW set, NEW from \in Nat, NEW n \in Nat, NEW h, NotedChain(h, set, from, n)
    PROVE  \A k \in 0..n : h[k] \in Seq(Nat)
<1> DEFINE good == {k \in 0..n : h[k] \in Seq(Nat)}
<1>1. 0 \in good
  <2>1. <<>> \in Seq(Nat) /\ 0 \in 0..n
    OBVIOUS
  <2> QED
    BY <2>1 DEF NotedChain
<1>2. ASSUME NEW k \in (0 + 1)..n, k - 1 \in good PROVE k \in good
  <2>1. k \in 1..n /\ k \in 0..n /\ from + k - 1 \in Nat
    OBVIOUS
  <2>2. Noted(set, h[k - 1], from + k - 1) \in Seq(Nat)
    BY <1>2, <2>1, NotedIn
  <2> QED
    BY <2>1, <2>2 DEF NotedChain
<1> HIDE DEF good
<1>3. \A k \in 0..n : k \in good
  <2>1. 0 \in Nat
    OBVIOUS
  <2> QED
    BY <1>1, <1>2, <2>1, Climbs
<1> QED
  BY <1>3 DEF good

AscendsBy(set, a, n, b) == \E h : NotedChain(h, set, a, n) /\ h[n] = Ascending(set, a, b)

LEMMA AscendingTo ==
    ASSUME NEW set, NEW a \in Nat, NEW n \in Nat, NEW b, b = a + n
    PROVE  AscendsBy(set, a, n, b)
<1>1. \E h : NotedChain(h, set, a, n) /\ h[n] = Ascending(set, a, a + n)
  BY AscendingChain
<1> QED
  BY <1>1 DEF AscendsBy

(* Two sets alike between two ends list alike between them.                  *)
Alike(S, T, a, b) == \A x \in a..(b - 1) : x \in S <=> x \in T

LEMMA AscendingAlike ==
    ASSUME NEW S, NEW T, NEW a \in Nat, NEW b \in Nat, a <= b, Alike(S, T, a, b)
    PROVE  Ascending(S, a, b) = Ascending(T, a, b)
<1> DEFINE n == b - a
<1>0. n \in Nat /\ b = a + n
  OBVIOUS
<1> HIDE DEF n
<1>1. PICK g : NotedChain(g, S, a, n) /\ g[n] = Ascending(S, a, b)
  <2>1. AscendsBy(S, a, n, b)
    BY <1>0, AscendingTo
  <2> QED
    BY <2>1 DEF AscendsBy
<1>2. PICK h : NotedChain(h, T, a, n) /\ h[n] = Ascending(T, a, b)
  <2>1. AscendsBy(T, a, n, b)
    BY <1>0, AscendingTo
  <2> QED
    BY <2>1 DEF AscendsBy
<1> DEFINE good == {k \in 0..n : g[k] = h[k]}
<1>3. 0 \in good
  BY <1>0, <1>1, <1>2 DEF NotedChain
<1>4. ASSUME NEW k \in (0 + 1)..n, k - 1 \in good PROVE k \in good
  <2>1. k \in 1..n /\ k \in 0..n /\ a + k - 1 \in a..(b - 1)
    BY <1>0
  <2>2. g[k] = Noted(S, g[k - 1], a + k - 1) /\ h[k] = Noted(T, h[k - 1], a + k - 1)
    BY <1>1, <1>2, <2>1 DEF NotedChain
  <2>3. g[k] = h[k]
    BY <1>4, <2>1, <2>2 DEF Noted, Alike
  <2> QED
    BY <2>1, <2>3
<1> HIDE DEF good
<1>5. \A k \in 0..n : k \in good
  <2>1. 0 \in Nat
    OBVIOUS
  <2> QED
    BY <1>0, <1>3, <1>4, <2>1, Climbs
<1> QED
  BY <1>0, <1>1, <1>2, <1>5 DEF good

LEMMA NotedAfter ==
    ASSUME NEW set, NEW w \in Seq(Nat), NEW v \in Seq(Nat), NEW at \in Nat
    PROVE  Noted(set, w \o v, at) = w \o Noted(set, v, at)
<1>1. CASE at \in set
  <2>1. Append(w \o v, at) = w \o Append(v, at)
    OBVIOUS
  <2> QED
    BY <1>1, <2>1 DEF Noted
<1>2. CASE at \notin set
  BY <1>2 DEF Noted
<1> QED
  BY <1>1, <1>2

(* Two ranges that meet list one after the other as the whole.               *)
LEMMA AscendingMeet ==
    ASSUME NEW set, NEW a \in Nat, NEW b \in Nat, NEW c \in Nat, a <= b, b <= c
    PROVE  Ascending(set, a, b) \o Ascending(set, b, c) = Ascending(set, a, c)
<1> DEFINE m == b - a
           n == c - b
           l == m + n
<1>0. m \in Nat /\ n \in Nat /\ l \in Nat /\ l = m + n /\ b = a + m /\ c = b + n /\ c = a + l
  OBVIOUS
<1> HIDE DEF m, n, l
<1>1. PICK g : NotedChain(g, set, a, m) /\ g[m] = Ascending(set, a, b)
  <2>1. AscendsBy(set, a, m, b)
    BY <1>0, AscendingTo
  <2> QED
    BY <2>1 DEF AscendsBy
<1>2. PICK e : NotedChain(e, set, b, n) /\ e[n] = Ascending(set, b, c)
  <2>1. AscendsBy(set, b, n, c)
    BY <1>0, AscendingTo
  <2> QED
    BY <2>1 DEF AscendsBy
<1>3. PICK h : NotedChain(h, set, a, l) /\ h[l] = Ascending(set, a, c)
  <2>1. AscendsBy(set, a, l, c)
    BY <1>0, AscendingTo
  <2> QED
    BY <2>1 DEF AscendsBy
<1> DEFINE near == {k \in 0..m : g[k] = h[k]}
           far == {k \in 0..n : h[m + k] = g[m] \o e[k]}
<1>4. g[m] = h[m]
  <2>1. 0 \in near
    BY <1>0, <1>1, <1>3 DEF NotedChain
  <2>2. ASSUME NEW k \in (0 + 1)..m, k - 1 \in near PROVE k \in near
    <3>1. k \in 1..m /\ k \in 0..m /\ k \in 1..l
      BY <1>0
    <3>2. g[k] = Noted(set, g[k - 1], a + k - 1)
      BY <1>1, <3>1 DEF NotedChain
    <3>3. h[k] = Noted(set, h[k - 1], a + k - 1)
      BY <1>3, <3>1 DEF NotedChain
    <3> QED
      BY <2>2, <3>1, <3>2, <3>3
  <2> HIDE DEF near
  <2>3. 0 \in Nat /\ m \in 0..m
    BY <1>0
  <2>4. \A k \in 0..m : k \in near
    BY <1>0, <2>1, <2>2, <2>3, Climbs
  <2> QED
    BY <2>3, <2>4 DEF near
<1>5. g[m] \in Seq(Nat) /\ \A k \in 0..n : e[k] \in Seq(Nat)
  <2>1. m \in 0..m
    BY <1>0
  <2> QED
    BY <1>0, <1>1, <1>2, <2>1, NotedTyped
<1>6. h[l] = g[m] \o e[n]
  <2>1. 0 \in far
    <3>1. g[m] \o <<>> = g[m] /\ e[0] = <<>>
      BY <1>2, <1>5 DEF NotedChain
    <3>2. m + 0 = m /\ 0 \in 0..n
      BY <1>0
    <3>3. h[m + 0] = g[m] \o e[0]
      BY <1>4, <3>1, <3>2
    <3> QED
      BY <3>2, <3>3
  <2>2. ASSUME NEW k \in (0 + 1)..n, k - 1 \in far PROVE k \in far
    <3>1. /\ k \in 1..n /\ k \in 0..n /\ k - 1 \in 0..n /\ m + k \in 1..l /\ m + k - 1 = m + (k - 1)
          /\ b + k - 1 \in Nat /\ a + (m + k) - 1 = b + k - 1
      BY <1>0
    <3>2. h[m + k] = Noted(set, h[m + (k - 1)], b + k - 1)
      <4> DEFINE i == m + k
      <4>1. i \in 1..l /\ i - 1 = m + (k - 1) /\ a + i - 1 = b + k - 1
        BY <1>0, <3>1
      <4> HIDE DEF i
      <4>2. h[i] = Noted(set, h[i - 1], a + i - 1)
        BY <1>3, <4>1 DEF NotedChain
      <4> QED
        BY <4>1, <4>2 DEF i
    <3>3. e[k] = Noted(set, e[k - 1], b + k - 1)
      BY <1>2, <3>1 DEF NotedChain
    <3>4. h[m + (k - 1)] = g[m] \o e[k - 1]
      BY <2>2
    <3>5. Noted(set, g[m] \o e[k - 1], b + k - 1) = g[m] \o Noted(set, e[k - 1], b + k - 1)
      BY <1>5, <3>1, NotedAfter
    <3> QED
      BY <3>1, <3>2, <3>3, <3>4, <3>5
  <2> HIDE DEF far
  <2>3. 0 \in Nat /\ n \in 0..n
    BY <1>0
  <2>4. \A k \in 0..n : k \in far
    BY <1>0, <2>1, <2>2, <2>3, Climbs
  <2> QED
    BY <1>0, <2>3, <2>4 DEF far
<1> QED
  BY <1>1, <1>2, <1>3, <1>6

LEMMA TwoLeast ==
    ASSUME NEW x \in Int, NEW y \in Int
    PROVE  Min({x, y}) = IF x <= y THEN x ELSE y
<1>1. \E m \in {x, y} : \A z \in {x, y} : m <= z
  OBVIOUS
<1>2. Min({x, y}) \in {x, y} /\ \A z \in {x, y} : Min({x, y}) <= z
  BY <1>1 DEF Min
<1> QED
  BY <1>2

LEMMA TwoMost ==
    ASSUME NEW x \in Int, NEW y \in Int
    PROVE  Max({x, y}) = IF x <= y THEN y ELSE x
<1>1. \E m \in {x, y} : \A z \in {x, y} : m >= z
  OBVIOUS
<1>2. Max({x, y}) \in {x, y} /\ \A z \in {x, y} : Max({x, y}) >= z
  BY <1>1 DEF Max
<1> QED
  BY <1>2

LEMMA QuotientIs ==
    ASSUME NEW x \in Nat, NEW w \in Nat \ {0}
    PROVE  x \div w \in Nat /\ w * (x \div w) <= x /\ x < w * (x \div w) + w
OBVIOUS

LEMMA TimesRises ==
    ASSUME NEW w \in Nat \ {0}, NEW p \in Nat, NEW q \in Nat, p > q
    PROVE  w * q + w <= w * p
<1> DEFINE d == p - (q + 1)
<1>1. d \in Nat /\ p = q + 1 + d
  OBVIOUS
<1> HIDE DEF d
<1>2. w * p = w * q + w + w * d
  BY <1>1
<1>3. w * d \in Nat /\ w * q \in Nat
  BY <1>1
<1> QED
  BY <1>2, <1>3

LEMMA QuotientRises ==
    ASSUME NEW x \in Nat, NEW y \in Nat, NEW w \in Nat \ {0}, x <= y
    PROVE  x \div w <= y \div w
<1> DEFINE p == x \div w
           q == y \div w
<1>1. p \in Nat /\ q \in Nat /\ w * p <= x /\ y < w * q + w
  BY QuotientIs
<1> HIDE DEF p, q
<1>2. w * p \in Nat /\ w * q \in Nat
  BY <1>1
<1>3. ASSUME p > q PROVE FALSE
  <2>1. w * q + w <= w * p
    BY <1>1, <1>3, TimesRises
  <2> QED
    BY <1>1, <1>2, <2>1
<1> QED
  BY <1>1, <1>3 DEF p, q

LEMMA QuotientWhole ==
    ASSUME NEW t \in Nat, NEW w \in Nat \ {0}
    PROVE  (t * w) \div w = t
<1> DEFINE x == t * w
           q == x \div w
<1>1. x \in Nat /\ x = w * t
  OBVIOUS
<1> HIDE DEF x
<1>2. q \in Nat /\ w * q <= x /\ x < w * q + w
  BY <1>1, QuotientIs
<1> HIDE DEF q
<1>3. w * q \in Nat
  BY <1>2
<1>4. ASSUME q > t PROVE FALSE
  <2>1. w * t + w <= w * q
    BY <1>2, <1>4, TimesRises
  <2> QED
    BY <1>1, <1>2, <1>3, <2>1
<1>5. ASSUME t > q PROVE FALSE
  <2>1. w * q + w <= w * t
    BY <1>2, <1>5, TimesRises
  <2> QED
    BY <1>1, <1>2, <1>3, <2>1
<1> QED
  BY <1>2, <1>4, <1>5 DEF q, x

(* The cuts of a find: from the first byte to the last, none behind another. *)
FindCut(w, k) == (Total * k) \div w

LEMMA FindCutIs ==
    ASSUME Total \in Nat, NEW w \in Nat \ {0}
    PROVE  /\ FindCut(w, 0) = 0 /\ FindCut(w, w) = Total
           /\ \A k \in 0..w : FindCut(w, k) \in Nat /\ FindCut(w, k) <= Total
           /\ \A k \in 1..w : FindCut(w, k - 1) <= FindCut(w, k)
<1> DEFINE t == Total
<1>0. t \in Nat
  OBVIOUS
<1> HIDE DEF t
<1>1. (t * 0) \div w = 0
  <2>1. t * 0 = 0 * w
    BY <1>0
  <2>2. (0 * w) \div w = 0
    BY QuotientWhole
  <2> QED
    BY <2>1, <2>2
<1>2. (t * w) \div w = t
  BY <1>0, QuotientWhole
<1>3. ASSUME NEW j \in Nat, NEW k \in Nat, j <= k
      PROVE  t * j \in Nat /\ t * k \in Nat /\ t * j <= t * k
  <2>1. k - j \in Nat /\ k = j + (k - j)
    BY <1>3
  <2>2. t * (k - j) \in Nat /\ t * j \in Nat
    BY <1>0, <2>1
  <2>3. t * k = t * j + t * (k - j)
    BY <1>0, <2>1
  <2> QED
    BY <2>2, <2>3
<1>4. ASSUME NEW j \in Nat, NEW k \in Nat, j <= k
      PROVE  (t * j) \div w \in Nat /\ (t * j) \div w <= (t * k) \div w
  <2>1. t * j \in Nat /\ t * k \in Nat /\ t * j <= t * k
    BY <1>3, <1>4
  <2> DEFINE x == t * j
             y == t * k
  <2> HIDE DEF x, y
  <2>2. x \div w \in Nat /\ x \div w <= y \div w
    BY <2>1, QuotientIs, QuotientRises DEF x, y
  <2> QED
    BY <2>2 DEF x, y
<1>5. ASSUME NEW k \in 0..w PROVE FindCut(w, k) \in Nat /\ FindCut(w, k) <= Total
  <2>1. k \in Nat /\ w \in Nat /\ k <= w
    OBVIOUS
  <2>2. (t * k) \div w \in Nat /\ (t * k) \div w <= (t * w) \div w
    BY <1>4, <2>1
  <2> QED
    BY <1>2, <2>2 DEF FindCut, t
<1>6. ASSUME NEW k \in 1..w PROVE FindCut(w, k - 1) <= FindCut(w, k)
  <2>1. k - 1 \in Nat /\ k \in Nat /\ k - 1 <= k
    OBVIOUS
  <2> QED
    BY <1>4, <2>1 DEF FindCut, t
<1> QED
  BY <1>1, <1>2, <1>5, <1>6 DEF FindCut, t

(* What a slice finds of a pattern: the offsets of the whole find inside it.  *)
LEMMA FoundIs ==
    ASSUME Total \in Nat, NEW needle, Len(needle) \in Nat \ {0}, NEW a \in Nat, NEW b \in Nat, b <= Total,
           NEW x \in a..(b - 1)
    PROVE  x \in FindRange(<<a, b>>, needle) <=> x \in Hits(needle, 0, Total)
<1> DEFINE l == Len(needle)
           t == Total
           limit == Min({t, b + l - 1})
           from == Max({0, a - (l - 1)})
           There(y) == SubSeq(bytes, y + 1, y + l) = needle
<1>0. l \in Nat /\ l >= 1 /\ t \in Nat /\ b <= t /\ x \in Nat /\ a <= x /\ x < b
  OBVIOUS
<1>1. FindRange(<<a, b>>, needle) = {at \in {at \in from..(limit - l) : There(at)} : a <= at /\ at < b}
  BY DEF FindRange, Hits
<1>2. Hits(needle, 0, Total) = {at \in 0..(t - l) : There(at)}
  BY DEF Hits
<1> HIDE DEF l, t, There
<1>3. limit = IF t <= b + l - 1 THEN t ELSE b + l - 1
  BY <1>0, TwoLeast
<1>4. from = IF 0 <= a - (l - 1) THEN a - (l - 1) ELSE 0
  BY <1>0, TwoMost
<1> HIDE DEF limit, from
<1>5. x \in from..(limit - l) <=> x \in 0..(t - l)
  BY <1>0, <1>3, <1>4
<1> QED
  BY <1>0, <1>1, <1>2, <1>5

(***************************************************************************)
(* The parts strung together.                                              *)
(***************************************************************************)
Strung(needle, seen, r) == seen \o Ascending(FindRange(r, needle), r[1], r[2])
FindFrom(f, needle, q) ==
    [t \in SUBSET DOMAIN q |-> IF t = {} THEN <<>> ELSE LET x == Max(t) IN Strung(needle, f[t \ {x}], q[x])]

LEMMA FindDef ==
    ASSUME NEW w, NEW needle
    PROVE  LET q == FindCuts(w)
           IN  FindAll(w, needle) = (CHOOSE f : f = FindFrom(f, needle, q))[DOMAIN q]
BY DEF FindAll, FoldLeft, MapThenFoldSet, FindFrom, Strung

LEMMA AscendingTyped ==
    ASSUME NEW set, NEW a \in Nat, NEW b \in Nat, a <= b
    PROVE  Ascending(set, a, b) \in Seq(Nat)
<1> DEFINE n == b - a
<1>1. n \in Nat /\ b = a + n /\ n \in 0..n
  OBVIOUS
<1> HIDE DEF n
<1>2. AscendsBy(set, a, n, b)
  BY <1>1, AscendingTo
<1>3. PICK h : NotedChain(h, set, a, n) /\ h[n] = Ascending(set, a, b)
  BY <1>2 DEF AscendsBy
<1> QED
  BY <1>1, <1>3, NotedTyped

LEMMA FindExists ==
    ASSUME NEW needle, NEW n \in Nat, NEW q, DOMAIN q = 1..n,
           \A k \in 1..n : q[k][1] \in Nat /\ q[k][2] \in Nat /\ q[k][1] <= q[k][2]
    PROVE  \E f : f = FindFrom(f, needle, q)
<1> DEFINE A == Seq(Nat)
           G == [j \in 1..n |-> [w \in A |-> Strung(needle, w, q[j])]]
<1>0. <<>> \in A
  OBVIOUS
<1>1. ASSUME NEW w \in A, NEW j \in 1..n PROVE Strung(needle, w, q[j]) \in A
  <2> DEFINE part == Ascending(FindRange(q[j], needle), q[j][1], q[j][2])
  <2>1. part \in A
    BY AscendingTyped
  <2> HIDE DEF part
  <2>2. w \o part \in A
    BY <2>1
  <2> QED
    BY <2>2 DEF Strung, part
<1> HIDE DEF A
<1>2. G \in [1..n -> [A -> A]]
  BY <1>1
<1>3. \A j \in 1..n, w \in A : G[j][w] = Strung(needle, w, q[j])
  OBVIOUS
<1> HIDE DEF G
<1>4. Chainable(n, A, <<>>, G)
  BY <1>0, <1>2 DEF Chainable
<1>5. PICK f : Rungs(f, n, A, <<>>, G)
  BY <1>4, RungsExist
<1>6. f \in [SUBSET (1..n) -> A] /\ f[{}] = <<>>
  BY <1>5 DEF Rungs
<1>7. ASSUME NEW t \in SUBSET (1..n), t # {}
      PROVE  f[t] = Strung(needle, f[t \ {Max(t)}], q[Max(t)])
  <2>1. Max(t) \in t /\ f[t] = G[Max(t)][f[t \ {Max(t)}]]
    BY <1>5, <1>7 DEF Rungs
  <2>2. f[t \ {Max(t)}] \in A /\ Max(t) \in 1..n
    BY <1>6, <2>1
  <2> QED
    BY <1>3, <2>1, <2>2
<1>8. f = FindFrom(f, needle, q)
  BY <1>6, <1>7 DEF FindFrom
<1> QED
  BY <1>8

LEMMA FindChain ==
    ASSUME Total \in Nat, NEW w \in Nat \ {0}, NEW needle
    PROVE  \E h : /\ h[0] = <<>> /\ h[w] = FindAll(w, needle)
                  /\ \A k \in 1..w : h[k] = Strung(needle, h[k - 1], <<FindCut(w, k - 1), FindCut(w, k)>>)
<1> DEFINE q == FindCuts(w)
           f == CHOOSE f : f = FindFrom(f, needle, q)
           h == [k \in 0..w |-> f[1..k]]
<1>1. DOMAIN q = 1..w /\ \A k \in 1..w : q[k] = <<FindCut(w, k - 1), FindCut(w, k)>>
  BY DEF FindCuts, FindCut
<1>2. \A k \in 1..w : q[k][1] \in Nat /\ q[k][2] \in Nat /\ q[k][1] <= q[k][2]
  <2> SUFFICES ASSUME NEW k \in 1..w PROVE q[k][1] \in Nat /\ q[k][2] \in Nat /\ q[k][1] <= q[k][2]
    OBVIOUS
  <2>1. k \in 0..w /\ k - 1 \in 0..w
    OBVIOUS
  <2>2. q[k][1] = FindCut(w, k - 1) /\ q[k][2] = FindCut(w, k)
    BY <1>1
  <2> HIDE DEF q
  <2> QED
    BY <2>1, <2>2, FindCutIs
<1> HIDE DEF q
<1>3. f = FindFrom(f, needle, q)
  BY <1>1, <1>2, FindExists
<1>4. FindAll(w, needle) = f[1..w]
  BY <1>1, FindDef DEF q
<1> HIDE DEF f
<1>5. \A t \in SUBSET (1..w) : t = {} => f[t] = <<>>
  BY <1>1, <1>3 DEF FindFrom
<1>6. \A t \in SUBSET (1..w) : t # {} => f[t] = Strung(needle, f[t \ {Max(t)}], q[Max(t)])
  BY <1>1, <1>3 DEF FindFrom
<1>7. h[0] = <<>>
  <2>1. 1..0 = {} /\ 0 \in 0..w
    OBVIOUS
  <2> QED
    BY <1>5, <2>1
<1>8. ASSUME NEW k \in 1..w PROVE h[k] = Strung(needle, h[k - 1], <<FindCut(w, k - 1), FindCut(w, k)>>)
  <2>1. k \in 0..w /\ k - 1 \in 0..w
    OBVIOUS
  <2> DEFINE t == 1..k
  <2>2. t \in SUBSET (1..w) /\ t # {} /\ Max(t) = k /\ t \ {k} = 1..(k - 1)
    BY Rung
  <2> HIDE DEF t
  <2>3. f[t] = Strung(needle, f[t \ {Max(t)}], q[Max(t)])
    BY <1>6, <2>2
  <2> QED
    BY <1>1, <2>1, <2>2, <2>3 DEF t
<1>9. h[w] = FindAll(w, needle)
  BY <1>4
<1> QED
  BY <1>7, <1>8, <1>9

LEMMA FindAllIs ==
    ASSUME Total \in Nat, NEW w \in Nat \ {0}, NEW needle, Len(needle) \in Nat \ {0}
    PROVE  FindAll(w, needle) = Ascending(Hits(needle, 0, Total), 0, Total)
<1>1. PICK h : /\ h[0] = <<>> /\ h[w] = FindAll(w, needle)
               /\ \A k \in 1..w : h[k] = Strung(needle, h[k - 1], <<FindCut(w, k - 1), FindCut(w, k)>>)
  BY FindChain
<1> DEFINE S == Hits(needle, 0, Total)
           good == {k \in 0..w : h[k] = Ascending(S, 0, FindCut(w, k))}
<1> HIDE DEF S
<1>2. 0 \in good
  <2>1. PICK e : NotedChain(e, S, 0, 0) /\ e[0] = Ascending(S, 0, 0)
    <3>1. 0 \in Nat /\ 0 = 0 + 0
      OBVIOUS
    <3>2. AscendsBy(S, 0, 0, 0)
      BY <3>1, AscendingTo
    <3> QED
      BY <3>2 DEF AscendsBy
  <2>2. Ascending(S, 0, 0) = <<>>
    BY <2>1 DEF NotedChain
  <2> QED
    BY <1>1, <2>2, FindCutIs
<1>3. ASSUME NEW k \in (0 + 1)..w, k - 1 \in good PROVE k \in good
  <2> DEFINE a == FindCut(w, k - 1)
             b == FindCut(w, k)
  <2>1. k \in 1..w /\ k \in 0..w /\ k - 1 \in 0..w
    OBVIOUS
  <2>2. a \in Nat /\ b \in Nat /\ a <= b /\ b <= Total
    BY <2>1, FindCutIs
  <2>3. h[k] = Strung(needle, h[k - 1], <<a, b>>)
    BY <1>1, <2>1
  <2>4. h[k - 1] = Ascending(S, 0, a)
    BY <1>3
  <2> HIDE DEF a, b
  <2>5. Ascending(FindRange(<<a, b>>, needle), a, b) = Ascending(S, a, b)
    <3>1. Alike(FindRange(<<a, b>>, needle), S, a, b)
      BY <2>2, FoundIs DEF S, Alike
    <3> QED
      BY <2>2, <3>1, AscendingAlike
  <2>6. Ascending(S, 0, a) \o Ascending(S, a, b) = Ascending(S, 0, b)
    <3>1. 0 \in Nat /\ 0 <= a
      BY <2>2
    <3> QED
      BY <2>2, <3>1, AscendingMeet
  <2>7. <<a, b>>[1] = a /\ <<a, b>>[2] = b
    OBVIOUS
  <2>8. h[k] = Ascending(S, 0, b)
    BY <2>3, <2>4, <2>5, <2>6, <2>7 DEF Strung
  <2> QED
    BY <2>1, <2>8 DEF b
<1> HIDE DEF good
<1>4. \A k \in 0..w : k \in good
  <2>1. 0 \in Nat /\ w \in Nat
    OBVIOUS
  <2> QED
    BY <1>2, <1>3, <2>1, Climbs
<1>5. w \in good
  BY <1>4
<1> QED
  BY <1>1, <1>5, FindCutIs DEF good, S

(***************************************************************************)
(* The slices: where each ends, and that no run crosses an end.            *)
(***************************************************************************)
Step(want) == Max({1, Total \div want})
CutAfter(want, start) == IF start + Step(want) >= Total THEN Total ELSE SafeCut(start + Step(want))
CutEnds(f, want) ==
    [k \in 0..want |-> IF k = 0 THEN 0
                       ELSE IF k = want \/ f[k - 1] = Total THEN Total ELSE CutAfter(want, f[k - 1])]
Sliced(want, ends) == [k \in 1..Min({k \in 1..want : ends[k] = Total}) |-> <<ends[k - 1], ends[k]>>]

LEMMA SplitDef ==
    ASSUME NEW want
    PROVE  SplitRanges(want) = IF want < 2 \/ Total = 0 THEN <<<<0, Total>>>>
                               ELSE Sliced(want, CHOOSE f : f = CutEnds(f, want))
BY DEF SplitRanges, Sliced, CutEnds, CutAfter, Step

LEMMA StepIs == ASSUME Total \in Nat, NEW want \in Nat \ {0} PROVE Step(want) \in Nat /\ Step(want) >= 1
<1> DEFINE d == Total \div want
<1>1. d \in Nat
  BY QuotientIs
<1> HIDE DEF d
<1>2. Max({1, d}) = IF 1 <= d THEN d ELSE 1
  BY <1>1, TwoMost
<1> QED
  BY <1>1, <1>2 DEF Step, d

(* A cut: further on, at the end or where no run goes on.                    *)
LEMMA CutAfterIs ==
    ASSUME Total \in Nat, CutSearch \in Nat, NEW want \in Nat \ {0}, NEW s \in 0..Total
    PROVE  /\ CutAfter(want, s) \in 0..Total /\ s <= CutAfter(want, s)
           /\ CutAfter(want, s) # Total => At(CutAfter(want, s)) \notin Printable
<1> DEFINE p == s + Step(want)
           safe == {at \in p..(Min({Total, p + CutSearch}) - 1) : At(at) \notin Printable}
<1>1. p \in Nat /\ s <= p
  BY StepIs
<1>2. CutAfter(want, s) = IF p >= Total THEN Total ELSE IF safe = {} THEN Total ELSE Min(safe)
  BY DEF CutAfter, SafeCut
<1> HIDE DEF p
<1>3. Min({Total, p + CutSearch}) = IF Total <= p + CutSearch THEN Total ELSE p + CutSearch
  BY <1>1, TwoLeast
<1>4. \A at \in safe : at \in Nat /\ p <= at /\ at < Total /\ At(at) \notin Printable
  BY <1>1, <1>3
<1> HIDE DEF safe
<1>5. ASSUME safe # {} PROVE Min(safe) \in safe
  <2>1. safe \in SUBSET Nat
    BY <1>4
  <2> QED
    BY <1>5, <2>1, NatMinIs
<1> QED
  BY <1>1, <1>2, <1>4, <1>5

LEMMA EndsExist ==
    ASSUME Total \in Nat, CutSearch \in Nat, NEW want \in Nat \ {0}
    PROVE  \E f : f = CutEnds(f, want) /\ f \in [0..want -> 0..Total]
<1> DEFINE A == 0..Total
           G == [j \in 1..want |-> [w \in A |-> IF j = want \/ w = Total THEN Total ELSE CutAfter(want, w)]]
<1>1. 0 \in A /\ Total \in A
  OBVIOUS
<1>2. \A w \in A : CutAfter(want, w) \in A
  BY CutAfterIs
<1> HIDE DEF A
<1>3. G \in [1..want -> [A -> A]]
  BY <1>1, <1>2
<1>4. \A j \in 1..want, w \in A : G[j][w] = IF j = want \/ w = Total THEN Total ELSE CutAfter(want, w)
  OBVIOUS
<1> HIDE DEF G
<1>5. Chainable(want, A, 0, G)
  BY <1>1, <1>3 DEF Chainable
<1>6. PICK f : ChainOf(f, want, A, 0, G)
  BY <1>5, ChainExists
<1>7. f \in [0..want -> A] /\ f[0] = 0 /\ \A k \in 1..want : f[k] = G[k][f[k - 1]]
  BY <1>6 DEF ChainOf
<1>8. ASSUME NEW k \in 0..want
      PROVE  f[k] = IF k = 0 THEN 0 ELSE IF k = want \/ f[k - 1] = Total THEN Total ELSE CutAfter(want, f[k - 1])
  <2>1. CASE k = 0
    BY <1>7, <2>1
  <2>2. CASE k # 0
    <3>1. k \in 1..want /\ k - 1 \in 0..want
      BY <2>2
    <3>2. f[k - 1] \in A /\ f[k] = G[k][f[k - 1]]
      BY <1>7, <3>1
    <3> QED
      BY <1>4, <2>2, <3>1, <3>2
  <2> QED
    BY <2>1, <2>2
<1>9. f = CutEnds(f, want)
  BY <1>7, <1>8 DEF CutEnds
<1> QED
  BY <1>7, <1>9 DEF A

(* Ranges that meet from the first byte to the last, at places no run crosses. *)
MeetSafely(q, n, b) ==
    /\ n \in Nat \ {0} /\ b \in [0..n -> Nat] /\ b[0] = 0 /\ b[n] = Total
    /\ q \in Seq(Nat \X Nat) /\ DOMAIN q = 1..n /\ \A k \in 1..n : q[k] = <<b[k - 1], b[k]>> /\ b[k - 1] <= b[k]
    /\ \A k \in 1..(n - 1) : At(b[k]) \notin Printable

LEMMA SplitIs ==
    ASSUME Total \in Nat, CutSearch \in Nat, NEW want \in Nat \ {0}
    PROVE  \E n, b : MeetSafely(SplitRanges(want), n, b)
<1>1. CASE want < 2 \/ Total = 0
  <2> DEFINE b == [k \in 0..1 |-> IF k = 0 THEN 0 ELSE Total]
             q == <<<<0, Total>>>>
  <2>1. SplitRanges(want) = q
    BY <1>1, SplitDef
  <2>2. b \in [0..1 -> Nat] /\ b[0] = 0 /\ b[1] = Total
    OBVIOUS
  <2>3. q \in Seq(Nat \X Nat) /\ DOMAIN q = 1..1 /\ q[1] = <<0, Total>>
    OBVIOUS
  <2> HIDE DEF b, q
  <2>4. \A k \in 1..1 : k = 1 /\ k - 1 = 0
    OBVIOUS
  <2>5. 1..(1 - 1) = {} /\ 1 \in Nat \ {0}
    OBVIOUS
  <2>6. MeetSafely(q, 1, b)
    BY <2>2, <2>3, <2>4, <2>5 DEF MeetSafely
  <2> QED
    BY <2>1, <2>6
<1>2. CASE ~(want < 2 \/ Total = 0)
  <2> DEFINE f == CHOOSE f : f = CutEnds(f, want)
             last == {k \in 1..want : f[k] = Total}
             n == Min(last)
             b == [k \in 0..n |-> f[k]]
             q == Sliced(want, f)
  <2>1. PICK g : g = CutEnds(g, want) /\ g \in [0..want -> 0..Total]
    BY EndsExist
  <2>2. f = CutEnds(f, want)
    BY <2>1
  <2>3. SplitRanges(want) = q
    BY <1>2, SplitDef
  <2> HIDE DEF f
  <2>4. \A k \in 0..want : f[k] = IF k = 0 THEN 0
                                  ELSE IF k = want \/ f[k - 1] = Total THEN Total ELSE CutAfter(want, f[k - 1])
    BY <2>2 DEF CutEnds
  <2>5. f[0] = 0
    BY <2>4
  <2>6. \A k \in 0..want : f[k] \in 0..Total
    <3> DEFINE good == {k \in 0..want : f[k] \in 0..Total}
    <3>1. 0 \in good
      BY <2>5
    <3>2. ASSUME NEW k \in (0 + 1)..want, k - 1 \in good PROVE k \in good
      <4>1. k \in 0..want /\ k # 0 /\ f[k - 1] \in 0..Total
        BY <3>2
      <4>2. CutAfter(want, f[k - 1]) \in 0..Total /\ Total \in 0..Total
        BY <4>1, CutAfterIs
      <4> QED
        BY <2>4, <4>1, <4>2
    <3> HIDE DEF good
    <3>3. \A k \in 0..want : k \in good
      <4>1. 0 \in Nat
        OBVIOUS
      <4> QED
        BY <3>1, <3>2, <4>1, Climbs
    <3> QED
      BY <3>3 DEF good
  <2>7. last \in SUBSET Nat /\ want \in last
    BY <2>4
  <2>8. n \in 1..want /\ f[n] = Total /\ \A k \in 1..want : f[k] = Total => n <= k
    <3>1. n \in last /\ \A k \in last : n <= k
      BY <2>7, NatMinIs
    <3> QED
      BY <3>1
  <2>9. DOMAIN q = 1..n /\ \A k \in 1..n : q[k] = <<f[k - 1], f[k]>>
    BY DEF Sliced
  <2> HIDE DEF n, last, q
  <2>10. ASSUME NEW k \in 1..n PROVE f[k - 1] <= f[k] /\ (k < n => At(f[k]) \notin Printable)
    <3>1. k \in 0..want /\ k # 0 /\ k - 1 \in 0..want /\ (k = n \/ (k < n /\ k < want /\ k \in 1..want))
      BY <2>8
    <3>2. f[k - 1] \in 0..Total
      BY <2>6, <3>1
    <3>3. CASE k = n
      BY <2>8, <3>2, <3>3
    <3>4. CASE k < n
      <4>1. f[k] # Total /\ k < want
        BY <2>8, <3>1, <3>4
      <4>2. f[k] = CutAfter(want, f[k - 1])
        BY <2>4, <3>1, <4>1
      <4> QED
        BY <3>2, <4>1, <4>2, CutAfterIs
    <3> QED
      BY <3>1, <3>3, <3>4
  <2>11. b \in [0..n -> Nat] /\ b[0] = 0 /\ b[n] = Total
    BY <2>5, <2>6, <2>8
  <2>12. \A k \in 1..n : q[k] = <<b[k - 1], b[k]>> /\ b[k - 1] <= b[k]
    <3> SUFFICES ASSUME NEW k \in 1..n PROVE q[k] = <<b[k - 1], b[k]>> /\ b[k - 1] <= b[k]
      OBVIOUS
    <3>1. k \in 0..n /\ k - 1 \in 0..n
      BY <2>8
    <3> QED
      BY <2>9, <2>10, <3>1
  <2>13. \A k \in 1..(n - 1) : At(b[k]) \notin Printable
    BY <2>8, <2>10
  <2>14. q \in Seq(Nat \X Nat)
    <3>1. \A k \in 1..n : <<f[k - 1], f[k]>> \in Nat \X Nat
      BY <2>6, <2>8
    <3>2. q \in [1..n -> Nat \X Nat] /\ n \in Nat
      BY <2>8, <3>1 DEF q, Sliced, n, last
    <3> QED
      BY <3>2
  <2> HIDE DEF b
  <2>15. MeetSafely(q, n, b)
    BY <2>8, <2>9, <2>11, <2>12, <2>13, <2>14 DEF MeetSafely
  <2> QED
    BY <2>3, <2>15
<1> QED
  BY <1>1, <1>2

(***************************************************************************)
(* The runs of two slices that meet where no run goes on are those of the  *)
(* whole.                                                                  *)
(***************************************************************************)
IsRun(x, y, a, c, minlen) ==
    /\ x \in a..c /\ y \in a..c /\ x < y /\ y - x >= minlen
    /\ \A at \in x..(y - 1) : At(at) \in Printable
    /\ x = a \/ At(x - 1) \notin Printable
    /\ y = c \/ At(y) \notin Printable

LEMMA RunsInIs ==
    ASSUME NEW a, NEW c, NEW minlen, NEW r
    PROVE  r \in RunsIn(<<a, c>>, minlen) <=> r \in (a..c) \X (a..c) /\ IsRun(r[1], r[2], a, c, minlen)
<1>1. RunsIn(<<a, c>>, minlen) =
        {q \in (a..c) \X (a..c) :
            /\ q[1] < q[2] /\ q[2] - q[1] >= minlen
            /\ \A at \in q[1]..(q[2] - 1) : At(at) \in Printable
            /\ q[1] = a \/ At(q[1] - 1) \notin Printable
            /\ q[2] = c \/ At(q[2]) \notin Printable}
  BY DEF RunsIn
<1>2. \A q \in (a..c) \X (a..c) : q[1] \in a..c /\ q[2] \in a..c
  OBVIOUS
<1> QED
  BY <1>1, <1>2 DEF IsRun

LEMMA RunsSplit ==
    ASSUME NEW b \in Nat, NEW c \in Nat, b <= c, At(b) \notin Printable, NEW minlen, NEW x, NEW y
    PROVE  /\ IsRun(x, y, 0, c, minlen) <=> IsRun(x, y, 0, b, minlen) \/ IsRun(x, y, b, c, minlen)
           /\ ~(IsRun(x, y, 0, b, minlen) /\ IsRun(x, y, b, c, minlen))
<1>1. ASSUME IsRun(x, y, 0, c, minlen) PROVE IsRun(x, y, 0, b, minlen) \/ IsRun(x, y, b, c, minlen)
  <2>1. x \in Nat /\ y \in Nat /\ x < y /\ y <= c
    BY <1>1 DEF IsRun
  <2>2. b \notin x..(y - 1)
    BY <1>1 DEF IsRun
  <2>3. y <= b \/ x > b
    BY <2>1, <2>2
  <2>4. CASE y <= b
    <3>1. x \in 0..b /\ y \in 0..b /\ (y = c => y = b)
      BY <2>1, <2>4
    <3> QED
      BY <1>1, <3>1 DEF IsRun
  <2>5. CASE x > b
    <3>1. x \in b..c /\ y \in b..c /\ x # 0
      BY <2>1, <2>5
    <3> QED
      BY <1>1, <3>1 DEF IsRun
  <2> QED
    BY <2>3, <2>4, <2>5
<1>2. ASSUME IsRun(x, y, 0, b, minlen) PROVE IsRun(x, y, 0, c, minlen)
  <2>1. x \in 0..c /\ y \in 0..c
    BY <1>2 DEF IsRun
  <2> QED
    BY <1>2, <2>1 DEF IsRun
<1>3. ASSUME IsRun(x, y, b, c, minlen) PROVE IsRun(x, y, 0, c, minlen)
  <2>1. x \in 0..c /\ y \in 0..c /\ x \in x..(y - 1)
    BY <1>3 DEF IsRun
  <2>2. x # b
    BY <1>3, <2>1 DEF IsRun
  <2> QED
    BY <1>3, <2>1, <2>2 DEF IsRun
<1>4. ~(IsRun(x, y, 0, b, minlen) /\ IsRun(x, y, b, c, minlen))
  BY DEF IsRun
<1> QED
  BY <1>1, <1>2, <1>3, <1>4

LEMMA RunsMeet ==
    ASSUME NEW b \in Nat, NEW c \in Nat, b <= c, At(b) \notin Printable, NEW minlen
    PROVE  /\ RunsIn(<<0, c>>, minlen) = RunsIn(<<0, b>>, minlen) \cup RunsIn(<<b, c>>, minlen)
           /\ RunsIn(<<0, b>>, minlen) \cap RunsIn(<<b, c>>, minlen) = {}
<1>1. ASSUME NEW r
      PROVE  r \in RunsIn(<<0, c>>, minlen) <=> r \in RunsIn(<<0, b>>, minlen) \/ r \in RunsIn(<<b, c>>, minlen)
  <2>1. ASSUME NEW lo \in Nat, NEW hi \in Nat, lo <= b \/ hi <= c,
               IsRun(r[1], r[2], lo, hi, minlen), r \in Nat \X Nat
        PROVE  r \in (lo..hi) \X (lo..hi)
    <3>1. r[1] \in lo..hi /\ r[2] \in lo..hi
      BY <2>1 DEF IsRun
    <3> QED
      BY <2>1, <3>1
  <2>2. ASSUME NEW lo \in Nat, NEW hi \in Nat, r \in (lo..hi) \X (lo..hi) PROVE r \in Nat \X Nat
    BY <2>2
  <2>3. ASSUME NEW lo \in Nat, NEW hi \in Nat, lo <= b \/ hi <= c
        PROVE  r \in RunsIn(<<lo, hi>>, minlen) <=> r \in Nat \X Nat /\ IsRun(r[1], r[2], lo, hi, minlen)
    BY <2>1, <2>2, <2>3, RunsInIs
  <2>4. 0 \in Nat /\ 0 <= b
    OBVIOUS
  <2> QED
    BY <2>3, <2>4, RunsSplit
<1>2. ASSUME NEW r, r \in RunsIn(<<0, b>>, minlen), r \in RunsIn(<<b, c>>, minlen) PROVE FALSE
  BY <1>2, RunsInIs, RunsSplit
<1> QED
  BY <1>1, <1>2

LEMMA RunsFew ==
    ASSUME NEW a \in Nat, NEW c \in Nat, NEW minlen
    PROVE  IsFiniteSet(RunsIn(<<a, c>>, minlen)) /\ RunsIn(<<a, c>>, minlen) \in SUBSET (Nat \X Nat)
<1> DEFINE R == RunsIn(<<a, c>>, minlen)
           P == (a..c) \X (a..c)
<1>1. R \in SUBSET P
  BY RunsInIs
<1>2. IsFiniteSet(a..c)
  BY FS_Interval
<1>3. IsFiniteSet(P)
  BY <1>2, FS_Product
<1>4. P \in SUBSET (Nat \X Nat)
  OBVIOUS
<1> HIDE DEF P, R
<1>5. IsFiniteSet(R)
  BY <1>1, <1>3, FS_Subset
<1> QED
  BY <1>1, <1>4, <1>5 DEF R

(***************************************************************************)
(* What a set of runs says of each text, and of two sets apart put         *)
(* together.                                                               *)
(***************************************************************************)
OfText(runs, t) == {r \in runs : Text(r) = t}
TextsOf(runs) == {Text(r) : r \in runs}
FirstOnes(runs, t) == {r[1] : r \in OfText(runs, t)}
Tally(runs) == [t \in TextsOf(runs) |-> [count |-> Cardinality(OfText(runs, t)), first |-> Min(FirstOnes(runs, t))]]

LEMMA ScanIsTally ==
    ASSUME NEW range, NEW minlen PROVE ScanRange(range, minlen) = Tally(RunsIn(range, minlen))
BY DEF ScanRange, Tally, TextsOf, FirstOnes, OfText

LEMMA OfTextIs ==
    ASSUME NEW runs \in SUBSET (Nat \X Nat), IsFiniteSet(runs), NEW t
    PROVE  /\ IsFiniteSet(OfText(runs, t)) /\ Cardinality(OfText(runs, t)) \in Nat
           /\ FirstOnes(runs, t) \in SUBSET Nat
           /\ t \in TextsOf(runs) <=> OfText(runs, t) # {}
           /\ t \in TextsOf(runs) => FirstOnes(runs, t) # {}
<1>1. OfText(runs, t) \in SUBSET runs
  BY DEF OfText
<1>2. IsFiniteSet(OfText(runs, t))
  BY <1>1, FS_Subset
<1>3. Cardinality(OfText(runs, t)) \in Nat
  BY <1>2, FS_CardinalityType
<1>4. FirstOnes(runs, t) \in SUBSET Nat
  BY <1>1 DEF FirstOnes
<1>5. t \in TextsOf(runs) <=> OfText(runs, t) # {}
  BY DEF TextsOf, OfText
<1>6. OfText(runs, t) # {} => FirstOnes(runs, t) # {}
  BY DEF FirstOnes
<1> QED
  BY <1>2, <1>3, <1>4, <1>5, <1>6

LEMMA MinOfBoth ==
    ASSUME NEW X \in SUBSET Nat, NEW Y \in SUBSET Nat, X # {}, Y # {}
    PROVE  Min(X \cup Y) = Min({Min(X), Min(Y)})
<1> DEFINE x == Min(X)
           y == Min(Y)
           z == Min(X \cup Y)
<1>1. x \in X /\ \A v \in X : x <= v
  BY NatMinIs
<1>2. y \in Y /\ \A v \in Y : y <= v
  BY NatMinIs
<1>3. z \in X \cup Y /\ \A v \in X \cup Y : z <= v
  <2>1. X \cup Y \in SUBSET Nat /\ X \cup Y # {}
    OBVIOUS
  <2> QED
    BY <2>1, NatMinIs
<1> HIDE DEF x, y, z
<1>4. x \in Nat /\ y \in Nat /\ z \in Nat /\ z <= x /\ z <= y /\ (x <= z \/ y <= z)
  BY <1>1, <1>2, <1>3
<1>5. Min({x, y}) = IF x <= y THEN x ELSE y
  BY <1>4, TwoLeast
<1>6. z = Min({x, y})
  BY <1>4, <1>5
<1> QED
  BY <1>6 DEF x, y, z

LEMMA TalliesMerge ==
    ASSUME NEW A \in SUBSET (Nat \X Nat), NEW B \in SUBSET (Nat \X Nat), IsFiniteSet(A), IsFiniteSet(B), A \cap B = {}
    PROVE  Merge(Tally(A), Tally(B)) = Tally(A \cup B)
<1>1. DOMAIN Tally(A) = TextsOf(A) /\ DOMAIN Tally(B) = TextsOf(B) /\ TextsOf(A \cup B) = TextsOf(A) \cup TextsOf(B)
  BY DEF Tally, TextsOf
<1>2. ASSUME NEW t
      PROVE OfText(A \cup B, t) = OfText(A, t) \cup OfText(B, t) /\ OfText(A, t) \cap OfText(B, t) = {}
            /\ FirstOnes(A \cup B, t) = FirstOnes(A, t) \cup FirstOnes(B, t)
  <2>1. OfText(A \cup B, t) = OfText(A, t) \cup OfText(B, t) /\ OfText(A, t) \cap OfText(B, t) = {}
    BY DEF OfText
  <2>2. FirstOnes(A \cup B, t) = FirstOnes(A, t) \cup FirstOnes(B, t)
    BY <2>1 DEF FirstOnes
  <2> QED
    BY <2>1, <2>2
<1> DEFINE Of(R, t) == [count |-> Cardinality(OfText(R, t)), first |-> Min(FirstOnes(R, t))]
<1>3. ASSUME NEW R, NEW t \in TextsOf(R)
      PROVE Tally(R)[t] = Of(R, t) /\ Tally(R)[t].count = Cardinality(OfText(R, t))
            /\ Tally(R)[t].first = Min(FirstOnes(R, t))
  BY <1>3 DEF Tally
<1>4. ASSUME NEW t \in TextsOf(A), t \notin TextsOf(B) PROVE Tally(A)[t] = Of(A \cup B, t)
  <2>1. OfText(B, t) = {}
    BY <1>4, OfTextIs
  <2>2. OfText(A \cup B, t) = OfText(A, t)
    BY <1>2, <2>1
  <2>3. FirstOnes(A \cup B, t) = FirstOnes(A, t)
    BY <2>2 DEF FirstOnes
  <2> QED
    BY <1>3, <2>2, <2>3
<1>5. ASSUME NEW t \in TextsOf(B), t \notin TextsOf(A) PROVE Tally(B)[t] = Of(A \cup B, t)
  <2>1. OfText(A, t) = {}
    BY <1>5, OfTextIs
  <2>2. OfText(A \cup B, t) = OfText(B, t)
    BY <1>2, <2>1
  <2>3. FirstOnes(A \cup B, t) = FirstOnes(B, t)
    BY <2>2 DEF FirstOnes
  <2> QED
    BY <1>3, <2>2, <2>3
<1>6. ASSUME NEW t \in TextsOf(A), t \in TextsOf(B)
      PROVE  [count |-> Tally(A)[t].count + Tally(B)[t].count, first |-> Min({Tally(A)[t].first, Tally(B)[t].first})]
             = Of(A \cup B, t)
  <2>1. Cardinality(OfText(A \cup B, t)) = Cardinality(OfText(A, t)) + Cardinality(OfText(B, t))
    <3> DEFINE X == OfText(A, t)
               Y == OfText(B, t)
    <3>1. IsFiniteSet(X) /\ IsFiniteSet(Y) /\ Cardinality(X) \in Nat /\ Cardinality(Y) \in Nat
      BY OfTextIs
    <3>2. X \cap Y = {} /\ OfText(A \cup B, t) = X \cup Y
      BY <1>2
    <3> HIDE DEF X, Y
    <3>3. Cardinality(X \cup Y) = Cardinality(X) + Cardinality(Y) - Cardinality(X \cap Y)
      BY <3>1, FS_Union
    <3>4. Cardinality(X \cap Y) = 0
      BY <3>2, FS_EmptySet
    <3>5. Cardinality(X \cup Y) = Cardinality(X) + Cardinality(Y)
      BY <3>1, <3>3, <3>4
    <3>6. Cardinality(OfText(A \cup B, t)) = Cardinality(X) + Cardinality(Y)
      BY <3>2, <3>5
    <3> QED
      BY <3>6 DEF X, Y
  <2>2. Min(FirstOnes(A \cup B, t)) = Min({Min(FirstOnes(A, t)), Min(FirstOnes(B, t))})
    <3> DEFINE X == FirstOnes(A, t)
               Y == FirstOnes(B, t)
    <3>1. X \in SUBSET Nat /\ Y \in SUBSET Nat /\ X # {} /\ Y # {}
      BY <1>6, OfTextIs
    <3>2. FirstOnes(A \cup B, t) = X \cup Y
      BY <1>2
    <3> HIDE DEF X, Y
    <3>3. Min(X \cup Y) = Min({Min(X), Min(Y)})
      BY <3>1, MinOfBoth
    <3> QED
      BY <3>2, <3>3 DEF X, Y
  <2>3. /\ Tally(A)[t].count = Cardinality(OfText(A, t)) /\ Tally(A)[t].first = Min(FirstOnes(A, t))
        /\ Tally(B)[t].count = Cardinality(OfText(B, t)) /\ Tally(B)[t].first = Min(FirstOnes(B, t))
    BY <1>3, <1>6
  <2> QED
    BY <2>1, <2>2, <2>3
<1>7. Tally(A \cup B) = [t \in TextsOf(A) \cup TextsOf(B) |-> Of(A \cup B, t)]
  BY <1>1 DEF Tally
<1> HIDE DEF Of
<1>8. Merge(Tally(A), Tally(B)) = [t \in TextsOf(A) \cup TextsOf(B) |-> Of(A \cup B, t)]
  BY <1>1, <1>4, <1>5, <1>6 DEF Merge
<1> QED
  BY <1>7, <1>8

(***************************************************************************)
(* The slices merged one after the other.                                  *)
(***************************************************************************)
Seen == [count : Nat, first : Nat]
Tallies == UNION {[D -> Seen] : D \in SUBSET {Text(r) : r \in Nat \X Nat}}

LEMMA TallyTyped ==
    ASSUME NEW R \in SUBSET (Nat \X Nat), IsFiniteSet(R)
    PROVE  Tally(R) \in Tallies
<1>1. TextsOf(R) \in SUBSET {Text(r) : r \in Nat \X Nat}
  BY DEF TextsOf
<1>2. ASSUME NEW t \in TextsOf(R)
      PROVE [count |-> Cardinality(OfText(R, t)), first |-> Min(FirstOnes(R, t))] \in Seen
  <2>1. Cardinality(OfText(R, t)) \in Nat /\ FirstOnes(R, t) \in SUBSET Nat /\ FirstOnes(R, t) # {}
    BY OfTextIs
  <2>2. Min(FirstOnes(R, t)) \in Nat
    BY <2>1, NatMinIs
  <2> QED
    BY <2>1, <2>2 DEF Seen
<1>3. Tally(R) \in [TextsOf(R) -> Seen]
  BY <1>2 DEF Tally
<1> QED
  BY <1>1, <1>3 DEF Tallies

LEMMA MergeTyped ==
    ASSUME NEW X \in Tallies, NEW Y \in Tallies
    PROVE  Merge(X, Y) \in Tallies
<1> DEFINE T == {Text(r) : r \in Nat \X Nat}
           D == DOMAIN X \cup DOMAIN Y
<1>1. DOMAIN X \in SUBSET T /\ DOMAIN Y \in SUBSET T
  BY DEF Tallies
<1>2. (\A t \in DOMAIN X : X[t] \in Seen) /\ (\A t \in DOMAIN Y : Y[t] \in Seen)
  BY DEF Tallies
<1>3. D \in SUBSET T
  BY <1>1
<1>4. ASSUME NEW t \in DOMAIN X, t \in DOMAIN Y
      PROVE  [count |-> X[t].count + Y[t].count, first |-> Min({X[t].first, Y[t].first})] \in Seen
  <2>1. X[t] \in Seen /\ Y[t] \in Seen
    BY <1>2, <1>4
  <2>2. X[t].count \in Nat /\ X[t].first \in Nat /\ Y[t].count \in Nat /\ Y[t].first \in Nat
    BY <2>1 DEF Seen
  <2>3. Min({X[t].first, Y[t].first}) \in Nat
    BY <2>2, TwoLeast
  <2>4. X[t].count + Y[t].count \in Nat
    BY <2>2
  <2> QED
    BY <2>3, <2>4 DEF Seen
<1> HIDE DEF T
<1>5. Merge(X, Y) \in [D -> Seen]
  BY <1>2, <1>4 DEF Merge
<1> QED
  BY <1>3, <1>5 DEF Tallies, T

LEMMA MergeFirst == ASSUME NEW Y \in Tallies PROVE Merge(<<>>, Y) = Y
<1>1. DOMAIN <<>> = {}
  OBVIOUS
<1>2. Y = [t \in DOMAIN Y |-> Y[t]]
  BY DEF Tallies
<1> QED
  BY <1>1, <1>2 DEF Merge

ScanFrom(f, minlen, into, q) ==
    [t \in SUBSET DOMAIN q |-> IF t = {} THEN into
                               ELSE LET x == Max(t) IN Merge(f[t \ {x}], ScanRange(q[x], minlen))]

LEMMA ScanDef ==
    ASSUME NEW q, NEW minlen, NEW into
    PROVE  ScanSlices(q, minlen, into) = (CHOOSE f : f = ScanFrom(f, minlen, into, q))[DOMAIN q]
BY DEF ScanSlices, FoldLeft, MapThenFoldSet, ScanFrom

LEMMA ScanExists ==
    ASSUME NEW minlen, NEW n \in Nat, NEW q, DOMAIN q = 1..n, \A k \in 1..n : ScanRange(q[k], minlen) \in Tallies
    PROVE  \E f : f = ScanFrom(f, minlen, <<>>, q)
<1> DEFINE A == Tallies
           G == [j \in 1..n |-> [w \in A |-> Merge(w, ScanRange(q[j], minlen))]]
<1>0. <<>> \in A
  <2>1. <<>> \in [{} -> Seen] /\ {} \in SUBSET {Text(r) : r \in Nat \X Nat}
    OBVIOUS
  <2> QED
    BY <2>1 DEF Tallies
<1>1. \A w \in A, j \in 1..n : Merge(w, ScanRange(q[j], minlen)) \in A
  BY MergeTyped
<1> HIDE DEF A
<1>2. G \in [1..n -> [A -> A]]
  BY <1>1
<1>3. \A j \in 1..n, w \in A : G[j][w] = Merge(w, ScanRange(q[j], minlen))
  OBVIOUS
<1> HIDE DEF G
<1>4. Chainable(n, A, <<>>, G)
  BY <1>0, <1>2 DEF Chainable
<1>5. PICK f : Rungs(f, n, A, <<>>, G)
  BY <1>4, RungsExist
<1>6. f \in [SUBSET (1..n) -> A] /\ f[{}] = <<>>
  BY <1>5 DEF Rungs
<1>7. ASSUME NEW t \in SUBSET (1..n), t # {}
      PROVE  f[t] = Merge(f[t \ {Max(t)}], ScanRange(q[Max(t)], minlen))
  <2>1. Max(t) \in t /\ f[t] = G[Max(t)][f[t \ {Max(t)}]]
    BY <1>5, <1>7 DEF Rungs
  <2>2. f[t \ {Max(t)}] \in A /\ Max(t) \in 1..n
    BY <1>6, <2>1
  <2> QED
    BY <1>3, <2>1, <2>2
<1>8. f = ScanFrom(f, minlen, <<>>, q)
  BY <1>6, <1>7 DEF ScanFrom
<1> QED
  BY <1>8

(* Slices that meet safely give the tally of the whole.                      *)
LEMMA ScanIs ==
    ASSUME Total \in Nat, NEW minlen, NEW q, NEW n, NEW b, MeetSafely(q, n, b)
    PROVE  ScanSlices(q, minlen, <<>>) = ScanRange(<<0, Total>>, minlen)
<1> DEFINE f == CHOOSE f : f = ScanFrom(f, minlen, <<>>, q)
           R(x, y) == RunsIn(<<x, y>>, minlen)
<1>1. /\ n \in Nat \ {0} /\ b \in [0..n -> Nat] /\ b[0] = 0 /\ b[n] = Total
      /\ DOMAIN q = 1..n /\ \A k \in 1..n : q[k] = <<b[k - 1], b[k]>> /\ b[k - 1] <= b[k]
      /\ \A k \in 1..(n - 1) : At(b[k]) \notin Printable
  BY DEF MeetSafely
<1>2. ASSUME NEW k \in 1..n
      PROVE  /\ b[k - 1] \in Nat /\ b[k] \in Nat /\ b[k - 1] <= b[k]
             /\ ScanRange(q[k], minlen) = Tally(R(b[k - 1], b[k])) /\ ScanRange(q[k], minlen) \in Tallies
  <2>1. k \in 0..n /\ k - 1 \in 0..n
    BY <1>1
  <2>2. b[k - 1] \in Nat /\ b[k] \in Nat /\ b[k - 1] <= b[k]
    BY <1>1, <2>1
  <2>3. ScanRange(q[k], minlen) = Tally(R(b[k - 1], b[k]))
    BY <1>1, ScanIsTally
  <2>4. Tally(R(b[k - 1], b[k])) \in Tallies
    BY <2>2, RunsFew, TallyTyped
  <2> QED
    BY <2>2, <2>3, <2>4
<1>3. f = ScanFrom(f, minlen, <<>>, q)
  BY <1>1, <1>2, ScanExists
<1>4. ScanSlices(q, minlen, <<>>) = f[1..n]
  BY <1>1, ScanDef
<1> HIDE DEF f
<1>5. \A t \in SUBSET (1..n) : t = {} => f[t] = <<>>
  BY <1>1, <1>3 DEF ScanFrom
<1>6. \A t \in SUBSET (1..n) : t # {} => f[t] = Merge(f[t \ {Max(t)}], ScanRange(q[Max(t)], minlen))
  BY <1>1, <1>3 DEF ScanFrom
<1>7. ASSUME NEW k \in 1..n PROVE f[1..k] = Merge(f[1..(k - 1)], Tally(R(b[k - 1], b[k])))
  <2> DEFINE t == 1..k
  <2>1. n \in Nat
    BY <1>1
  <2>2. t \in SUBSET (1..n) /\ t # {} /\ Max(t) = k /\ t \ {k} = 1..(k - 1)
    BY <2>1, Rung
  <2> HIDE DEF t
  <2>3. f[t] = Merge(f[t \ {Max(t)}], ScanRange(q[Max(t)], minlen))
    BY <1>6, <2>2
  <2> QED
    BY <1>2, <2>2, <2>3 DEF t
<1> DEFINE good == {k \in 1..n : f[1..k] = Tally(R(0, b[k]))}
<1>8. 1 \in good
  <2>1. 1 \in 1..n /\ 1 - 1 = 0 /\ 1..0 = {}
    BY <1>1
  <2>2. f[1..0] = <<>>
    BY <1>5, <2>1
  <2>3. f[1..1] = Merge(<<>>, Tally(R(0, b[1])))
    BY <1>1, <1>7, <2>1, <2>2
  <2>4. Tally(R(0, b[1])) \in Tallies
    BY <1>1, <1>2, <2>1
  <2> QED
    BY <2>1, <2>3, <2>4, MergeFirst
<1>9. ASSUME NEW k \in (1 + 1)..n, k - 1 \in good PROVE k \in good
  <2> DEFINE x == b[k - 1]
             y == b[k]
  <2>1. k \in 1..n /\ k - 1 \in 1..n /\ k - 1 \in 1..(n - 1)
    BY <1>1
  <2>2. x \in Nat /\ y \in Nat /\ x <= y /\ At(x) \notin Printable
    BY <1>1, <1>2, <2>1
  <2>3. f[1..k] = Merge(Tally(R(0, x)), Tally(R(x, y)))
    BY <1>7, <1>9, <2>1
  <2> HIDE DEF x, y
  <2>4. R(0, y) = R(0, x) \cup R(x, y) /\ R(0, x) \cap R(x, y) = {}
    BY <2>2, RunsMeet
  <2>5. /\ IsFiniteSet(R(0, x)) /\ R(0, x) \in SUBSET (Nat \X Nat)
        /\ IsFiniteSet(R(x, y)) /\ R(x, y) \in SUBSET (Nat \X Nat)
    <3>1. 0 \in Nat
      OBVIOUS
    <3> QED
      BY <2>2, <3>1, RunsFew
  <2> HIDE DEF R
  <2>6. Merge(Tally(R(0, x)), Tally(R(x, y))) = Tally(R(0, x) \cup R(x, y))
    BY <2>4, <2>5, TalliesMerge
  <2>7. f[1..k] = Tally(R(0, y))
    BY <2>3, <2>4, <2>6
  <2> QED
    BY <2>1, <2>7 DEF y
<1> HIDE DEF good
<1>10. n \in good
  <2>1. 1 \in Nat /\ n \in Nat /\ n \in 1..n
    BY <1>1
  <2>2. \A k \in 1..n : k \in good
    BY <1>8, <1>9, <2>1, Climbs
  <2> QED
    BY <2>1, <2>2
<1>11. f[1..n] = Tally(R(0, Total))
  BY <1>1, <1>10 DEF good
<1> QED
  BY <1>4, <1>11, ScanIsTally

LEMMA ScanRunsIs ==
    ASSUME Total \in Nat, CutSearch \in Nat, NEW w \in Nat \ {0}, NEW minlen, NEW back
    PROVE  ScanRuns(w, minlen, back) = ScanRange(<<0, Total>>, minlen)
<1> DEFINE q == SplitRanges(w)
<1>1. PICK n, b : MeetSafely(q, n, b)
  BY SplitIs
<1> HIDE DEF q
<1>2. ScanSlices(q, minlen, <<>>) = ScanRange(<<0, Total>>, minlen)
  BY <1>1, ScanIs
<1>3. SubSeq(q, 1, Len(q)) = q
  <2>1. q \in Seq(Nat \X Nat)
    BY <1>1 DEF MeetSafely
  <2> QED
    BY <2>1
<1>4. ScanRuns(w, minlen, back) =
        IF back = Len(q) THEN ScanSlices(SubSeq(q, 1, back), minlen, <<>>) ELSE ScanSlices(q, minlen, <<>>)
  BY DEF ScanRuns, q
<1> QED
  BY <1>2, <1>3, <1>4

-----------------------------------------------------------------------------
SlicesInv == bytes \in Seq(Printable \cup {Other})

LEMMA SliceFromInv == SlicesInv => SlicesEqualOnePass
<1> SUFFICES ASSUME SlicesInv PROVE SlicesEqualOnePass
  OBVIOUS
<1>1. Total \in Nat
  BY DEF SlicesInv, Total
<1>2. CutSearch \in Nat /\ Workers \subseteq Nat \ {0} /\ \A needle \in Needles : Len(needle) \in Nat \ {0}
  <2>1. \A needle \in Needles : Len(needle) \in Nat \ {0}
    <3> SUFFICES ASSUME NEW needle \in Needles PROVE Len(needle) \in Nat \ {0}
      OBVIOUS
    <3>1. needle \in Seq(Printable \cup {Other}) /\ needle # <<>>
      BY SlicesAssumption
    <3> QED
      BY <3>1
  <2> QED
    BY <2>1, SlicesAssumption
<1>3. \A n \in Workers, minlen \in MinLens :
         \A back \in 0..Len(SplitRanges(n)) : ScanRuns(n, minlen, back) = ScanRange(<<0, Total>>, minlen)
  BY <1>1, <1>2, ScanRunsIs
<1>4. \A n \in Workers, needle \in Needles : FindAll(n, needle) = Ascending(Hits(needle, 0, Total), 0, Total)
  BY <1>1, <1>2, FindAllIs
<1> QED
  BY <1>3, <1>4 DEF SlicesEqualOnePass

(* However a stream is shared between workers and wherever their pool fails,   *)
(* runs and patterns come out as one pass over the whole stream has them.      *)
THEOREM SlicesAreOnePass == SlicesSpec => []SlicesEqualOnePass
<1>1. SlicesInit => SlicesInv
  BY DEF SlicesInit, SlicesInv
<1>2. SlicesInv /\ [SlicesNext]_bytes => SlicesInv'
  BY DEF SlicesInv, SlicesNext
<1> QED
  BY <1>1, <1>2, SliceFromInv, PTL DEF SlicesSpec
=============================================================================
