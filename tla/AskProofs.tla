------------------------------ MODULE AskProofs ------------------------------
(* Proofs about Ask, for every path of stores, question, ladder of endpoints   *)
(* and list of withheld topics: what is withheld, what is found, when an ask    *)
(* may refuse and when it may give raw retrieval.                              *)
EXTENDS Ask, FiniteSetTheorems, SequenceTheorems, WellFoundedInduction, TLAPS

(* The order of the hits *)

Asked(j) == j.question \in Questions /\ j.keyword \in BOOLEAN

LEMMA RankType == ASSUME NEW j, Asked(j), NEW b \in Blocks PROVE Rank(j, b) \in Nat
BY AskAssumption DEF Asked, Rank

LEMMA BeforeOrder ==
  ASSUME NEW j, Asked(j), NEW a \in Blocks, NEW b \in Blocks, NEW c \in Blocks
  PROVE  /\ ~Before(j, a, a)
         /\ Before(j, a, b) /\ Before(j, b, c) => Before(j, a, c)
         /\ a = b \/ Before(j, a, b) \/ Before(j, b, a)
         /\ ~Before(j, a, b) => Rank(j, a) <= Rank(j, b)
<1>1. Rank(j, a) \in Nat /\ Rank(j, b) \in Nat /\ Rank(j, c) \in Nat
  BY RankType
<1>2. Place[a] \in Nat /\ Place[b] \in Nat /\ Place[c] \in Nat /\ (Place[a] = Place[b] => a = b)
  BY AskAssumption
<1> QED BY <1>1, <1>2 DEF Before

\* the order depends on the question and on how the stores were searched, only
LEMMA SameOrder ==
  ASSUME NEW j, NEW r, r.question = j.question, r.keyword = j.keyword
  PROVE  /\ \A b : Rank(r, b) = Rank(j, b)
         /\ \A H, b : Ahead(r, H, b) = Ahead(j, H, b)
         /\ \A H : Best(r, H) = Best(j, H) /\ Top(r, H) = Top(j, H)
         /\ \A s : Candidates(r, s) = Candidates(j, s)
         /\ KBest(r) = KBest(j)
<1>1. \A b : Rank(r, b) = Rank(j, b)
  BY DEF Rank
<1>2. \A a, b : Before(r, a, b) = Before(j, a, b)
  BY <1>1 DEF Before
<1>3. \A H, b : Ahead(r, H, b) = Ahead(j, H, b)
  BY <1>2 DEF Ahead
<1>4. \A H : Best(r, H) = Best(j, H) /\ Top(r, H) = Top(j, H)
  BY <1>3 DEF Best, Top
<1>5. \A s : Candidates(r, s) = Candidates(j, s)
  BY <1>1 DEF Candidates
<1>6. KBest(r) = KBest(j)
  BY <1>4, <1>5 DEF KBest
<1> QED BY <1>1, <1>3, <1>4, <1>5, <1>6

LEMMA FiniteBlocks == ASSUME NEW H \in SUBSET Blocks PROVE IsFiniteSet(H)
BY AskAssumption, FS_Subset

LEMMA CountLess ==
  ASSUME NEW T \in SUBSET Blocks, NEW S \in SUBSET T
  PROVE  /\ Cardinality(S) \in Nat /\ Cardinality(T) \in Nat /\ Cardinality(S) <= Cardinality(T)
         /\ S # T => Cardinality(S) < Cardinality(T)
<1>1. IsFiniteSet(T) /\ IsFiniteSet(S)
  BY FiniteBlocks
<1>2. Cardinality(S) \in Nat /\ Cardinality(T) \in Nat
  BY <1>1, FS_CardinalityType
<1>3. Cardinality(S) <= Cardinality(T) /\ (Cardinality(S) = Cardinality(T) => S = T)
  BY <1>1, FS_Subset
<1> QED BY <1>2, <1>3

\* a non-empty set of numbers has a least one
LEMMA Least == ASSUME NEW T \in SUBSET Nat, T # {} PROVE \E n \in T : \A m \in T : n <= m
<1>1. PICK n \in T : \A m \in T : ~(<<m, n>> \in OpToRel(<, Nat))
  BY NatLessThanWellFounded, WFMin
<1>2. \A m \in T : ~(m < n)
  BY <1>1 DEF OpToRel
<1> QED BY <1>2

\* what comes first, and what comes last
LEMMA FirstOf ==
  ASSUME NEW j, Asked(j), NEW H \in SUBSET Blocks, H # {}
  PROVE  /\ Top(j, H) \in H /\ Ahead(j, H, Top(j, H)) = {}
         /\ \A b \in H : Rank(j, b) <= Rank(j, Top(j, H))
         /\ \A b \in H : Ahead(j, H, b) = {} => b = Top(j, H)
<1> DEFINE n(b) == Cardinality(Ahead(j, H, b))
<1>1. \A b \in H : n(b) \in Nat /\ Ahead(j, H, b) \in SUBSET Blocks
  BY CountLess DEF Ahead
<1>2. PICK b \in H : \A a \in H : n(b) <= n(a)
  <2> DEFINE T == {n(b) : b \in H}
  <2>1. T \in SUBSET Nat /\ T # {}
    BY <1>1
  <2> HIDE DEF n
  <2>2. PICK k \in T : \A m \in T : k <= m
    BY <2>1, Least
  <2> QED BY <2>2
<1>3. ASSUME NEW a \in H, Before(j, a, b) PROVE FALSE
  <2>1. Ahead(j, H, a) \subseteq Ahead(j, H, b) /\ a \in Ahead(j, H, b) /\ a \notin Ahead(j, H, a)
    BY <1>3, BeforeOrder DEF Ahead
  <2>2. n(a) < n(b)
    BY <1>1, <2>1, CountLess
  <2> QED BY <1>1, <1>2, <2>2
<1>4. Ahead(j, H, b) = {}
  BY <1>3 DEF Ahead
<1>5. Top(j, H) \in H /\ Ahead(j, H, Top(j, H)) = {}
  BY <1>4 DEF Top
<1> HIDE DEF n
<1>6. \A c \in H : ~Before(j, c, Top(j, H))
  BY <1>5 DEF Ahead
<1>7. \A c \in H : Rank(j, c) <= Rank(j, Top(j, H))
  BY <1>5, <1>6, BeforeOrder
<1>8. ASSUME NEW c \in H, Ahead(j, H, c) = {} PROVE c = Top(j, H)
  <2>1. ~Before(j, Top(j, H), c)
    BY <1>5, <1>8 DEF Ahead
  <2> QED BY <1>5, <1>6, <2>1, BeforeOrder
<1> QED BY <1>5, <1>7, <1>8

LEMMA LastOf ==
  ASSUME NEW j, Asked(j), NEW H \in SUBSET Blocks, H # {}
  PROVE  \E b \in H : H = Ahead(j, H, b) \cup {b}
<1> DEFINE After(b) == {a \in H : Before(j, b, a)}
           n(b) == Cardinality(After(b))
<1>1. \A b \in H : n(b) \in Nat /\ After(b) \in SUBSET Blocks
  BY CountLess
<1>2. PICK b \in H : \A a \in H : n(b) <= n(a)
  <2> DEFINE T == {n(b) : b \in H}
  <2>1. T \in SUBSET Nat /\ T # {}
    BY <1>1
  <2> HIDE DEF n
  <2>2. PICK k \in T : \A m \in T : k <= m
    BY <2>1, Least
  <2> QED BY <2>2
<1>3. ASSUME NEW a \in H, Before(j, b, a) PROVE FALSE
  <2>1. After(a) \subseteq After(b) /\ a \in After(b) /\ a \notin After(a)
    BY <1>3, BeforeOrder
  <2>2. n(a) < n(b)
    BY <1>1, <2>1, CountLess
  <2> QED BY <1>1, <1>2, <2>2
<1>4. \A a \in H : a = b \/ Before(j, a, b)
  BY <1>3, BeforeOrder
<1> QED BY <1>4 DEF Ahead

\* "taking each store's own top-k first is still globally correct" (searchcompose.py)
LEMMA BestOfPart ==
  ASSUME NEW j, NEW G \in SUBSET Blocks, NEW H \in SUBSET G, NEW b \in H, b \in Best(j, G)
  PROVE  b \in Best(j, H)
<1>1. Ahead(j, H, b) \subseteq Ahead(j, G, b) /\ Ahead(j, G, b) \in SUBSET Blocks
  BY DEF Ahead
<1>2. /\ Cardinality(Ahead(j, H, b)) <= Cardinality(Ahead(j, G, b))
      /\ Cardinality(Ahead(j, H, b)) \in Nat /\ Cardinality(Ahead(j, G, b)) \in Nat
  BY <1>1, CountLess
<1>3. Cardinality(Ahead(j, G, b)) < K
  BY DEF Best
<1> QED BY <1>2, <1>3, AskAssumption DEF Best

-----------------------------------------------------------------------------
(* The evidence pack *)

LEMMA TotalOne == ASSUME NEW b \in Blocks PROVE Total({b}) = Length(b)
<1> DEFINE Sum(f, S) == IF S = {} THEN 0
                        ELSE LET c == CHOOSE c \in S : TRUE IN Length(c) + f[S \ {c}]
           IsSum(f) == f = [S \in SUBSET {b} |-> Sum(f, S)]
           g == [S \in SUBSET {b} |-> IF S = {} THEN 0 ELSE Length(b) + 0]
<1>1. Total({b}) = (CHOOSE f : IsSum(f))[{b}]
  BY DEF Total
<1>2. IsSum(g)
  <2>1. ASSUME NEW S \in SUBSET {b} PROVE g[S] = Sum(g, S)
    <3>1. CASE S = {}
      BY <3>1
    <3>2. CASE S # {}
      <4>1. S = {b} /\ (CHOOSE c \in S : TRUE) = b /\ S \ {b} = {}
        BY <3>2
      <4> QED BY <4>1
    <3> QED BY <3>1, <3>2
  <2> HIDE DEF Sum
  <2> QED BY <2>1
<1> HIDE DEF IsSum, g
<1>3. PICK h : h = (CHOOSE f : IsSum(f)) /\ IsSum(h)
  BY <1>2
<1>4. h[{b}] = Length(b) + 0
  <2>1. h[{b}] = Sum(h, {b}) /\ h[{}] = 0
    BY <1>3 DEF IsSum
  <2>2. (CHOOSE c \in {b} : TRUE) = b /\ {b} \ {b} = {}
    OBVIOUS
  <2> QED BY <2>1, <2>2
<1>5. Length(b) + 0 = Length(b)
  BY AskAssumption DEF Length
<1> QED BY <1>1, <1>3, <1>4, <1>5

\* the recursion that Total goes by, f being the sums of the smaller sets
Sum(f, S) == IF S = {} THEN 0 ELSE LET c == CHOOSE c \in S : TRUE IN Length(c) + f[S \ {c}]

LEMMA SumEmpty == ASSUME NEW f PROVE Sum(f, {}) = 0
BY DEF Sum

LEMMA SumStep ==
  ASSUME NEW S \in SUBSET Blocks, S # {}
  PROVE  \E c \in S :
           /\ Length(c) \in Nat /\ S \ {c} \in SUBSET Blocks
           /\ Cardinality(S) \in Nat /\ Cardinality(S \ {c}) \in Nat
           /\ Cardinality(S \ {c}) < Cardinality(S)
           /\ \A f : Sum(f, S) = Length(c) + f[S \ {c}]
<1> DEFINE c == CHOOSE c \in S : TRUE
<1>1. c \in S /\ S \ {c} \subseteq S /\ S \ {c} # S
  OBVIOUS
<1>2. Length(c) \in Nat
  BY <1>1, AskAssumption DEF Length
<1>3. \A f : Sum(f, S) = Length(c) + f[S \ {c}]
  BY DEF Sum
<1> HIDE DEF c
<1>4. /\ Cardinality(S) \in Nat /\ Cardinality(S \ {c}) \in Nat
      /\ Cardinality(S \ {c}) < Cardinality(S)
  BY <1>1, CountLess
<1> QED BY <1>1, <1>2, <1>3, <1>4

\* there are sums of all sets of at most n blocks, for every n: the least n without them
\* would have a predecessor
LEMMA SumsExist ==
  ASSUME NEW n \in Nat
  PROVE  \E g \in [SUBSET Blocks -> Nat] :
           \A S \in SUBSET Blocks : Cardinality(S) <= n => g[S] = Sum(g, S)
<1> DEFINE P(m) == \E g \in [SUBSET Blocks -> Nat] :
                     \A S \in SUBSET Blocks : Cardinality(S) <= m => g[S] = Sum(g, S)
<1>1. P(0)
  <2> DEFINE g == [S \in SUBSET Blocks |-> 0]
  <2>1. ASSUME NEW S \in SUBSET Blocks, Cardinality(S) <= 0 PROVE g[S] = Sum(g, S)
    <3>1. S = {}
      <4>1. SUFFICES ASSUME S # {} PROVE FALSE
        OBVIOUS
      <4>2. PICK c \in S : /\ Cardinality(S) \in Nat /\ Cardinality(S \ {c}) \in Nat
                           /\ Cardinality(S \ {c}) < Cardinality(S)
        BY <4>1, SumStep
      <4> QED BY <2>1, <4>2
    <3> QED BY <3>1, SumEmpty
  <2> QED BY <2>1
<1>2. ASSUME NEW m \in Nat, P(m) PROVE P(m + 1)
  <2>1. PICK g \in [SUBSET Blocks -> Nat] :
           \A S \in SUBSET Blocks : Cardinality(S) <= m => g[S] = Sum(g, S)
    BY <1>2
  <2> DEFINE h == [S \in SUBSET Blocks |-> IF Cardinality(S) <= m THEN g[S] ELSE Sum(g, S)]
  <2>2. ASSUME NEW S \in SUBSET Blocks PROVE Sum(g, S) \in Nat
    <3>1. CASE S = {}
      BY <3>1, SumEmpty
    <3>2. CASE S # {}
      <4>1. PICK c \in S : /\ Length(c) \in Nat /\ S \ {c} \in SUBSET Blocks
                           /\ Sum(g, S) = Length(c) + g[S \ {c}]
        BY <3>2, SumStep
      <4> QED BY <2>1, <4>1
    <3> QED BY <3>1, <3>2
  <2>3. h \in [SUBSET Blocks -> Nat]
    BY <2>2
  <2>4. ASSUME NEW S \in SUBSET Blocks, Cardinality(S) <= m + 1 PROVE h[S] = Sum(h, S)
    <3>1. h[S] = Sum(g, S)
      BY <2>1
    <3>2. CASE S = {}
      BY <3>1, <3>2, SumEmpty
    <3>3. CASE S # {}
      <4>1. PICK c \in S : /\ S \ {c} \in SUBSET Blocks
                           /\ Cardinality(S) \in Nat /\ Cardinality(S \ {c}) \in Nat
                           /\ Cardinality(S \ {c}) < Cardinality(S)
                           /\ \A f : Sum(f, S) = Length(c) + f[S \ {c}]
        BY <3>3, SumStep
      <4>2. S \ {c} \in SUBSET Blocks /\ Cardinality(S \ {c}) <= m
        BY <2>4, <4>1
      <4>3. Sum(g, S) = Length(c) + g[S \ {c}] /\ Sum(h, S) = Length(c) + h[S \ {c}]
        BY <4>1
      <4>4. h[S \ {c}] = g[S \ {c}]
        BY <4>2
      <4> QED BY <3>1, <4>3, <4>4
    <3> QED BY <3>2, <3>3
  <2> HIDE DEF h
  <2> QED BY <2>3, <2>4
<1> HIDE DEF P
<1>3. \A m \in Nat : P(m)
  <2> DEFINE Bad == {m \in Nat : ~P(m)}
  <2>1. SUFFICES ASSUME Bad # {} PROVE FALSE
    OBVIOUS
  <2>2. PICK m \in Bad : \A k \in Bad : m <= k
    BY <2>1, Least
  <2>3. m # 0
    BY <1>1
  <2>4. m - 1 \in Nat /\ (m - 1) + 1 = m
    BY <2>3
  <2>5. P(m - 1)
    BY <2>2, <2>4
  <2>6. P(m)
    BY <1>2, <2>4, <2>5
  <2> QED BY <2>6
<1> QED BY <1>3 DEF P

LEMMA TotalType == ASSUME NEW H \in SUBSET Blocks PROVE Total(H) \in Nat
<1> DEFINE IsSum(f) == f = [S \in SUBSET H |-> Sum(f, S)]
<1>1. Total(H) = (CHOOSE f : IsSum(f))[H]
  BY DEF Total, Sum
<1>2. \E f : IsSum(f)
  <2>1. Cardinality(Blocks) \in Nat /\ \A S \in SUBSET Blocks : Cardinality(S) <= Cardinality(Blocks)
    BY CountLess
  <2>2. PICK g \in [SUBSET Blocks -> Nat] : \A S \in SUBSET Blocks : g[S] = Sum(g, S)
    BY <2>1, SumsExist
  <2> DEFINE f == [S \in SUBSET H |-> g[S]]
  <2>3. ASSUME NEW S \in SUBSET H PROVE f[S] = Sum(f, S)
    <3>1. CASE S = {}
      BY <2>2, <3>1, SumEmpty
    <3>2. CASE S # {}
      <4>1. PICK c \in S : /\ Sum(g, S) = Length(c) + g[S \ {c}]
                           /\ Sum(f, S) = Length(c) + f[S \ {c}]
        BY <3>2, SumStep
      <4> QED BY <2>2, <4>1
    <3> QED BY <3>1, <3>2
  <2>4. f = [S \in SUBSET H |-> Sum(f, S)]
    <3> HIDE DEF Sum
    <3> QED BY <2>3
  <2> QED BY <2>4
<1> HIDE DEF IsSum
<1>3. PICK h : h = (CHOOSE f : IsSum(f)) /\ IsSum(h)
  BY <1>2
<1>4. \A S \in SUBSET H : h[S] = Sum(h, S)
  BY <1>3 DEF IsSum
<1>5. \A S \in SUBSET H : h[S] \in Nat
  <2> DEFINE Bad == {S \in SUBSET H : h[S] \notin Nat}
             T == {Cardinality(S) : S \in Bad}
  <2>1. SUFFICES ASSUME Bad # {} PROVE FALSE
    OBVIOUS
  <2>2. T \in SUBSET Nat /\ T # {}
    BY <2>1, CountLess
  <2>3. PICK S \in Bad : \A R \in Bad : Cardinality(S) <= Cardinality(R)
    <3>1. PICK k \in T : \A m \in T : k <= m
      BY <2>2, Least
    <3> QED BY <3>1
  <2>4. S # {}
    <3>1. {} \in SUBSET H
      OBVIOUS
    <3>2. h[{}] = 0
      BY <1>4, <3>1, SumEmpty
    <3>3. h[S] \notin Nat
      BY <2>3
    <3>4. 0 \in Nat
      OBVIOUS
    <3> HIDE DEF Bad, T
    <3> QED BY <3>2, <3>3, <3>4
  <2>5. PICK c \in S : /\ Length(c) \in Nat /\ Sum(h, S) = Length(c) + h[S \ {c}]
                       /\ Cardinality(S) \in Nat /\ Cardinality(S \ {c}) \in Nat
                       /\ Cardinality(S \ {c}) < Cardinality(S)
    BY <2>4, SumStep
  <2>6. h[S \ {c}] \in Nat
    BY <2>3, <2>5
  <2> QED BY <1>4, <2>3, <2>5, <2>6
<1> QED BY <1>1, <1>3, <1>5

LEMMA PackFits ==
  ASSUME NEW j, Asked(j), j.hits \in SUBSET Blocks, j.hits # {}, NEW e \in Rungs
  PROVE  \/ Total(PackFor(e, j)) <= Budget[e]
         \/ Total(PackFor(e, j)) <= Text[Top(j, j.hits)] + HeaderLine
<1> DEFINE P == PackFor(e, j)
<1>1. P \in SUBSET j.hits /\ P \in SUBSET Blocks
  BY DEF PackFor, UpTo
<1>2. Top(j, j.hits) \in P
  BY FirstOf DEF PackFor, UpTo, Fits
<1>3. PICK b \in P : P = Ahead(j, P, b) \cup {b}
  BY <1>1, <1>2, LastOf
<1>4. Ahead(j, P, b) = Ahead(j, j.hits, b)
  <2>1. ASSUME NEW a \in Ahead(j, j.hits, b) PROVE a \in P
    <3>1. \A c \in Ahead(j, j.hits, a) : c \in Ahead(j, j.hits, b)
      BY <1>1, BeforeOrder DEF Ahead
    <3>2. \A c \in Ahead(j, j.hits, b) : Fits(j, Budget[e], c)
      BY DEF PackFor, UpTo
    <3>3. a \in j.hits /\ \A c \in Ahead(j, j.hits, a) \cup {a} : Fits(j, Budget[e], c)
      BY <3>1, <3>2 DEF Ahead
    <3> QED BY <3>3 DEF PackFor, UpTo
  <2> QED BY <1>1, <2>1 DEF Ahead
<1>5. P = Ahead(j, j.hits, b) \cup {b} /\ Fits(j, Budget[e], b) /\ b \in j.hits
  BY <1>3, <1>4 DEF PackFor, UpTo
<1>6. CASE Ahead(j, j.hits, b) = {}
  <2>1. b = Top(j, j.hits) /\ Total(P) = Length(b)
    BY <1>5, <1>6, FirstOf, TotalOne
  <2>2. Length(b) <= Text[b] + HeaderLine
    BY <1>5, AskAssumption DEF Length
  <2> QED BY <2>1, <2>2
<1>7. CASE Ahead(j, j.hits, b) # {}
  BY <1>5, <1>7 DEF Fits
<1> QED BY <1>6, <1>7

-----------------------------------------------------------------------------
(* The inductive invariant *)

Members(seq) == {seq[n] : n \in DOMAIN seq}

LEMMA HeadTail ==
  ASSUME NEW T, NEW s \in Seq(T), s # <<>>
  PROVE  /\ Head(s) \in T /\ Tail(s) \in Seq(T)
         /\ Members(s) = {Head(s)} \cup Members(Tail(s))
<1>1. /\ Len(s) \in Nat \ {0} /\ DOMAIN s = 1..Len(s) /\ \A n \in 1..Len(s) : s[n] \in T
      /\ Head(s) = s[1] /\ Tail(s) \in Seq(T) /\ Len(Tail(s)) = Len(s) - 1
      /\ \A n \in 1..(Len(s) - 1) : Tail(s)[n] = s[n + 1]
  BY EmptySeq, LenProperties, HeadTailProperties
<1>2. DOMAIN Tail(s) = 1..(Len(s) - 1)
  BY <1>1
<1>3. Members(Tail(s)) \subseteq Members(s)
  <2>1. \A n \in 1..(Len(s) - 1) : n + 1 \in 1..Len(s)
    BY <1>1
  <2> QED BY <1>1, <1>2, <2>1 DEF Members
<1>4. ASSUME NEW n \in 1..Len(s), n # 1 PROVE s[n] \in Members(Tail(s))
  <2>1. n - 1 \in 1..(Len(s) - 1) /\ (n - 1) + 1 = n
    BY <1>1, <1>4
  <2>2. Tail(s)[n - 1] = s[n]
    BY <1>1, <2>1
  <2> QED BY <1>2, <2>1, <2>2 DEF Members
<1>5. 1 \in 1..Len(s) /\ Head(s) \in T
  BY <1>1
<1> QED BY <1>1, <1>3, <1>4, <1>5 DEF Members

\* of each store searched, the best that may be shown are among the hits
Searched(j) ==
  /\ \A b \in j.hits : \E s \in DOMAIN Index : b \in Candidates(j, s)
  /\ \A s \in DOMAIN Index :
       s \in Members(j.left) \/ \A b \in Best(j, Candidates(j, s)) : b \in j.hits \/ MayBeWithheld(b)

\* what excuses an endpoint: its budget or the first block is too much for its context
Excused(j, e) == Budget[e] > Window[e] \/ Text[Top(j, j.hits)] + HeaderLine > Window[e]

IsJob(j) == j = [f \in {"question", "keyword", "left", "hits", "rungs", "failed", "pack", "size"} |-> j[f]]

\* what one assignment does to a job
LEMMA Fields ==
  ASSUME NEW j, IsJob(j), NEW x
  PROVE  /\ IsJob([j EXCEPT !.question = x]) /\ IsJob([j EXCEPT !.keyword = x])
         /\ IsJob([j EXCEPT !.left = x]) /\ IsJob([j EXCEPT !.hits = x])
         /\ IsJob([j EXCEPT !.rungs = x]) /\ IsJob([j EXCEPT !.failed = x])
         /\ IsJob([j EXCEPT !.pack = x]) /\ IsJob([j EXCEPT !.size = x])
BY DEF IsJob

JobOK(l, j) ==
  /\ l \in {"idle", "search", "ladder", "complete"}
  /\ IsJob(j)
  /\ j.left \in Seq(DOMAIN Index) /\ j.rungs \in Seq(Rungs)
  /\ j.hits \in SUBSET Blocks /\ j.pack \in SUBSET j.hits
  /\ l # "idle" => Asked(j)
  /\ l = "search" => Searched(j)
  /\ l \in {"idle", "search"} => j.pack = {}
  /\ l \in {"ladder", "complete"} =>
       j.hits # {} /\ \A b \in KBest(j) : b \in j.hits \/ MayBeWithheld(b)
  /\ l = "complete" =>
       /\ j.rungs # <<>> /\ j.size \in Nat
       /\ \/ j.size <= Budget[Head(j.rungs)]
          \/ j.size <= Text[Top(j, j.hits)] + HeaderLine

\* nothing that the last filter has seen on the list goes on
Clear(S, list) == Unredacted \/ \A b \in S : Topic[b] \notin Withheld(list)

\* an endpoint that would have served throughout is still ahead of the ladder
StillAhead(j, st) == \A e \in st : e \in Members(j.rungs) \/ Excused(j, e)

AskOK(l, j, list, st) ==
  l \in {"ladder", "complete"} => Clear(j.hits, list) /\ StillAhead(j, st)

ResultOK(l, r, list, st) ==
  /\ l # "idle" => r = NoResult
  /\ Clear(r.sources, list)
  /\ r.kind = "refused" =>
       \A b \in KBest(r) : MayBeWithheld(b) \/ (~r.keyword /\ Rank(r, b) < MinSim)
  /\ r.kind = "degraded" =>
       \A e \in st : Budget[e] > Window[e] \/ Text[Top(r, r.sources)] + HeaderLine > Window[e]

WorldOK == redact \subseteq DOMAIN Withholds /\ server \in [Rungs -> Servers] /\ steady \subseteq ServersNow

IndInv ==
  /\ WorldOK
  /\ JobOK(pc, job)
  /\ AskOK(pc, job, listed, steady)
  /\ ResultOK(pc, result, listed, steady)

LEMMA ClearResult == ASSUME NEW l, NEW list, NEW st PROVE ResultOK(l, NoResult, list, st)
BY DEF ResultOK, NoResult, Clear

LEMMA NoJobOK == JobOK("idle", NoJob)
<1>1. <<>> \in Seq(DOMAIN Index) /\ <<>> \in Seq(Rungs)
  OBVIOUS
<1>2. IsJob(NoJob)
  BY DEF IsJob, NoJob
<1> QED BY <1>1, <1>2 DEF JobOK, NoJob

LEMMA IdleAsk == ASSUME NEW j, NEW list, NEW st PROVE AskOK("idle", j, list, st) /\ AskOK("search", j, list, st)
BY DEF AskOK

LEMMA InitInd == Init => IndInv
<1> SUFFICES ASSUME Init PROVE IndInv
  OBVIOUS
<1>1. WorldOK
  BY AskAssumption DEF Init, WorldOK
<1> QED BY <1>1, ClearResult, NoJobOK, IdleAsk DEF Init, IndInv

\* a new ask
LEMMA StartStep == ASSUME IndInv, AskStart PROVE IndInv'
<1>1. WorldOK'
  <2>1. ServersNow' = ServersNow
    BY DEF AskStart, world, around, ServersNow, Serves
  <2> QED BY <2>1 DEF AskStart, world, around, WorldOK, IndInv
<1>2. PICK q \in Questions, k \in BOOLEAN :
        job' = [NoJob EXCEPT !.question = q, !.keyword = k, !.left = Stores]
  BY DEF AskStart
<1> DEFINE j == [NoJob EXCEPT !.question = q, !.keyword = k, !.left = Stores]
<1>3. /\ IsJob(j) /\ j.question = q /\ j.keyword = k /\ j.left = Stores
      /\ j.hits = {} /\ j.rungs = <<>> /\ j.pack = {}
  BY NoJobOK DEF JobOK, IsJob, NoJob
<1> HIDE DEF j
<1>4. JobOK("search", j)
  <2>1. <<>> \in Seq(Rungs) /\ Members(Stores) = DOMAIN Index
    BY AskAssumption DEF Members
  <2>2. Searched(j) /\ Asked(j)
    BY <1>3, <2>1 DEF Searched, Asked
  <2> QED BY <1>3, <2>1, <2>2, AskAssumption DEF JobOK
<1>5. pc' = "search" /\ result' = NoResult /\ job' = j
  BY <1>2 DEF AskStart, j
<1> QED BY <1>1, <1>4, <1>5, ClearResult, IdleAsk DEF IndInv

LEMMA CandidateBlocks ==
  ASSUME NEW j, NEW s \in DOMAIN Index
  PROVE  Candidates(j, s) \in SUBSET Blocks /\ Best(j, Candidates(j, s)) \subseteq Candidates(j, s)
BY DEF Candidates, Best, Blocks

\* what a list withholds may be withheld
LEMMA ListedMayBe ==
  ASSUME NEW list, list \subseteq DOMAIN Withholds, NEW b, Topic[b] \in Withheld(list)
  PROVE  MayBeWithheld(b)
BY DEF MayBeWithheld, Withheld

LEMMA SearchStep == ASSUME IndInv, SearchStore PROVE IndInv'
<1>0. PICK list \in {redact, {}} :
        job' = [job EXCEPT !.left = Tail(@), !.hits = @ \cup Retrieved(job, Head(job.left), list)]
  BY DEF SearchStore
<1> DEFINE s == Head(job.left)
           j == [job EXCEPT !.left = Tail(job.left), !.hits = job.hits \cup Retrieved(job, s, list)]
<1>1. /\ pc = "search" /\ pc' = "search" /\ job' = j /\ result' = result
      /\ UNCHANGED <<listed, steady, redact, server>> /\ JobOK("search", job) /\ job.left # <<>>
  BY <1>0 DEF SearchStore, around, IndInv
<1>2. s \in DOMAIN Index /\ Tail(job.left) \in Seq(DOMAIN Index)
      /\ Members(job.left) = {s} \cup Members(Tail(job.left))
  BY <1>1, HeadTail DEF JobOK
<1>3. /\ IsJob(j) /\ j.question = job.question /\ j.keyword = job.keyword
      /\ j.left = Tail(job.left) /\ j.hits = job.hits \cup Retrieved(job, s, list)
      /\ j.rungs = job.rungs /\ j.pack = job.pack
  BY <1>1 DEF JobOK, IsJob
<1> HIDE DEF j, s
<1>4. Retrieved(job, s, list) \subseteq Candidates(job, s) /\ Candidates(job, s) \in SUBSET Blocks
  BY <1>2, CandidateBlocks DEF Retrieved, Visible
<1>5. \A b \in Best(job, Candidates(job, s)) : b \in Retrieved(job, s, list) \/ MayBeWithheld(b)
  <2>1. list \subseteq DOMAIN Withholds
    BY DEF IndInv, WorldOK
  <2> QED BY <2>1, ListedMayBe DEF Retrieved, Visible
<1>6. \A t : Candidates(j, t) = Candidates(job, t) /\ \A H : Best(j, H) = Best(job, H)
  BY <1>3, SameOrder
<1>7. Searched(j)
  <2>1. ASSUME NEW b \in j.hits PROVE \E t \in DOMAIN Index : b \in Candidates(j, t)
    BY <1>1, <1>2, <1>3, <1>4, <1>6 DEF JobOK, Searched
  <2>2. ASSUME NEW t \in DOMAIN Index, t \notin Members(j.left)
        PROVE  \A b \in Best(j, Candidates(j, t)) : b \in j.hits \/ MayBeWithheld(b)
    BY <1>1, <1>2, <1>3, <1>5, <1>6, <2>2 DEF JobOK, Searched
  <2> QED BY <2>1, <2>2 DEF Searched
<1>8. JobOK("search", j)
  BY <1>1, <1>2, <1>3, <1>4, <1>7 DEF JobOK, Asked
<1>9. WorldOK'
  BY <1>1 DEF IndInv, WorldOK, ServersNow, Serves
<1> QED BY <1>1, <1>8, <1>9, IdleAsk DEF IndInv

\* what the stores gave, merged and filtered: all of the best that may be shown
LEMMA Found ==
  ASSUME IndInv, pc = "search", job.left = <<>>,
         NEW list \in {redact, {}}, NEW H, H = Shown(Merged(job), list)
  PROVE  /\ H \in SUBSET Blocks /\ Clear(H, list)
         /\ \A b \in KBest(job) : b \in H \/ MayBeWithheld(b)
<1> DEFINE G == UNION {Candidates(job, s) : s \in DOMAIN Index}
<1>1. JobOK("search", job) /\ Members(job.left) = {}
  BY DEF IndInv, Members
<1>2. job.hits \in SUBSET G /\ G \in SUBSET Blocks
  <2>1. \A s \in DOMAIN Index : Candidates(job, s) \in SUBSET Blocks
    BY CandidateBlocks
  <2> QED BY <1>1, <2>1 DEF JobOK, Searched
<1>3. H \subseteq job.hits /\ Clear(H, list)
  BY DEF Shown, Visible, Merged, Best, Clear
<1>4. ASSUME NEW b \in KBest(job) PROVE b \in H \/ MayBeWithheld(b)
  <2>1. b \in Best(job, G) /\ b \in G
    BY DEF KBest, Best
  <2>2. PICK s \in DOMAIN Index : b \in Candidates(job, s)
    BY <2>1
  <2>3. Candidates(job, s) \in SUBSET G
    OBVIOUS
  <2>4. b \in Best(job, Candidates(job, s))
    BY <1>2, <2>1, <2>2, <2>3, BestOfPart
  <2>5. b \in job.hits \/ MayBeWithheld(b)
    BY <1>1, <2>4 DEF JobOK, Searched
  <2>6. b \in job.hits => b \in Merged(job)
    BY <1>2, <2>1, BestOfPart DEF Merged
  <2>7. b \in Merged(job) => b \in H \/ MayBeWithheld(b)
    <3>1. list \subseteq DOMAIN Withholds
      BY DEF IndInv, WorldOK
    <3> QED BY <3>1, ListedMayBe DEF Shown, Visible
  <2> QED BY <2>5, <2>6, <2>7
<1> QED BY <1>2, <1>3, <1>4

\* the three ends of an ask leave its record
LEMMA Ends ==
  ASSUME NEW kind, NEW e, NEW hits, NEW sources, NEW why, Return(kind, e, hits, sources, why)
  PROVE  /\ pc' = "idle" /\ job' = NoJob /\ result'.kind = kind /\ result'.sources = sources
         /\ result'.question = job.question /\ result'.keyword = job.keyword
BY DEF Return

LEMMA EndStep ==
  ASSUME IndInv, UNCHANGED <<around, steady>>, pc' = "idle", job' = NoJob,
         ResultOK("idle", result', listed', steady)
  PROVE  IndInv'
<1>1. WorldOK'
  BY DEF around, IndInv, WorldOK, ServersNow, Serves
<1> QED BY <1>1, NoJobOK, IdleAsk DEF IndInv

LEMMA FilterStep == ASSUME IndInv, Filter PROVE IndInv'
<1>0. PICK list \in {redact, {}} :
        LET hits == Shown(Merged(job), list) IN
        /\ listed' = list
        /\ IF Weak(job, hits)
           THEN Return("refused", NoOne, hits, hits, IF hits = {} THEN "no match" ELSE "below the floor")
           ELSE /\ job' = [job EXCEPT !.hits = hits, !.rungs = Endpoints]
                /\ pc' = "ladder"
                /\ UNCHANGED result
  BY DEF Filter
<1> DEFINE H == Shown(Merged(job), list)
<1>1. /\ pc = "search" /\ job.left = <<>> /\ listed' = list
      /\ UNCHANGED <<around, steady>> /\ JobOK("search", job)
  BY <1>0 DEF Filter, IndInv
<1>2. /\ H \in SUBSET Blocks /\ Clear(H, list)
      /\ \A b \in KBest(job) : b \in H \/ MayBeWithheld(b)
  BY <1>1, Found
<1>3. Asked(job)
  BY <1>1 DEF JobOK
<1>4. CASE Weak(job, H)
  <2>1. Return("refused", NoOne, H, H, IF H = {} THEN "no match" ELSE "below the floor")
    BY <1>0, <1>4
  <2>2. /\ pc' = "idle" /\ job' = NoJob /\ result'.kind = "refused" /\ result'.sources = H
        /\ result'.question = job.question /\ result'.keyword = job.keyword
    BY <2>1, Ends
  <2> HIDE DEF H
  <2>3. ASSUME NEW b \in KBest(result')
        PROVE  MayBeWithheld(b) \/ (~result'.keyword /\ Rank(result', b) < MinSim)
    <3>1. b \in KBest(job) /\ Rank(result', b) = Rank(job, b)
      BY <2>2, <2>3, SameOrder
    <3>2. SUFFICES ASSUME b \in H PROVE ~job.keyword /\ Rank(job, b) < MinSim
      BY <1>2, <2>2, <3>1
    <3>3. ~job.keyword /\ Rank(job, Top(job, H)) < MinSim
      BY <1>4, <3>2 DEF Weak
    <3>4. Rank(job, b) <= Rank(job, Top(job, H)) /\ Top(job, H) \in Blocks
      BY <1>2, <1>3, <3>2, FirstOf
    <3>5. Rank(job, b) \in Nat /\ Rank(job, Top(job, H)) \in Nat /\ MinSim \in Nat
      BY <1>2, <1>3, <3>2, <3>4, RankType, AskAssumption
    <3> QED BY <3>3, <3>4, <3>5
  <2>4. ResultOK("idle", result', list, steady)
    BY <1>2, <2>2, <2>3 DEF ResultOK
  <2> QED BY <1>1, <2>2, <2>4, EndStep
<1>5. CASE ~Weak(job, H)
  <2> DEFINE j == [job EXCEPT !.hits = H, !.rungs = Endpoints]
  <2>1. pc' = "ladder" /\ job' = j /\ result' = result /\ H # {}
    BY <1>0, <1>5 DEF Weak
  <2>2. /\ IsJob(j) /\ j.question = job.question /\ j.keyword = job.keyword
        /\ j.left = job.left /\ j.hits = H /\ j.rungs = Endpoints /\ j.pack = {}
    BY <1>1 DEF JobOK, IsJob
  <2> HIDE DEF j, H
  <2>3. KBest(j) = KBest(job)
    BY <2>2, SameOrder
  <2>4. JobOK("ladder", j)
    BY <1>1, <1>2, <1>3, <2>1, <2>2, <2>3, AskAssumption DEF JobOK, Asked
  <2>5. steady \subseteq Members(Endpoints)
    BY DEF IndInv, WorldOK, ServersNow, Rungs, Members
  <2>6. AskOK("ladder", j, list, steady)
    BY <1>2, <2>2, <2>5 DEF AskOK, StillAhead
  <2>7. WorldOK'
    BY <1>1 DEF around, IndInv, WorldOK, ServersNow, Serves
  <2>8. ResultOK("ladder", result, list, steady)
    <3>1. result = NoResult
      BY <1>1 DEF IndInv, ResultOK
    <3> QED BY <3>1, ClearResult
  <2> QED BY <1>1, <2>1, <2>4, <2>6, <2>7, <2>8 DEF IndInv
<1> QED BY <1>4, <1>5

\* a step of the ladder that gives no result
LEMMA LadderStep ==
  ASSUME IndInv, UNCHANGED <<world, result, steady, listed>>,
         pc \in {"ladder", "complete"}, pc' \in {"ladder", "complete"},
         JobOK(pc', job'), job'.hits = job.hits, StillAhead(job', steady)
  PROVE  IndInv'
<1>1. WorldOK'
  BY DEF world, around, IndInv, WorldOK, ServersNow, Serves
<1>2. AskOK(pc', job', listed, steady)
  BY DEF IndInv, AskOK
<1>3. result = NoResult
  BY DEF IndInv, ResultOK
<1> QED BY <1>1, <1>2, <1>3, ClearResult DEF IndInv

LEMMA AtLadder ==
  ASSUME IndInv, pc \in {"ladder", "complete"}
  PROVE  /\ JobOK(pc, job) /\ Asked(job) /\ job.hits # {} /\ StillAhead(job, steady)
         /\ \A b \in KBest(job) : b \in job.hits \/ MayBeWithheld(b)
         /\ job.rungs # <<>> => /\ Rung \in Rungs /\ Tail(job.rungs) \in Seq(Rungs)
                                /\ Members(job.rungs) = {Rung} \cup Members(Tail(job.rungs))
<1>1. /\ JobOK(pc, job) /\ Asked(job) /\ job.hits # {} /\ StillAhead(job, steady)
      /\ \A b \in KBest(job) : b \in job.hits \/ MayBeWithheld(b)
  BY DEF IndInv, JobOK, AskOK
<1> QED BY <1>1, HeadTail DEF JobOK, Rung

LEMMA CertifyStep == ASSUME IndInv, Certify PROVE IndInv'
<1> DEFINE P == PackFor(Rung, job)
           j == [job EXCEPT !.pack = P, !.size = Total(P)]
<1>1. /\ pc = "ladder" /\ job.rungs # <<>> /\ pc' = "complete" /\ job' = j
      /\ UNCHANGED <<world, result, steady, listed>>
  BY DEF Certify, AtRung
<1>2. /\ JobOK("ladder", job) /\ Asked(job) /\ job.hits # {} /\ StillAhead(job, steady) /\ Rung \in Rungs
      /\ \A b \in KBest(job) : b \in job.hits \/ MayBeWithheld(b)
  BY <1>1, AtLadder
<1>3. P \in SUBSET job.hits /\ job.hits \in SUBSET Blocks
  BY <1>2 DEF PackFor, UpTo, JobOK
<1>4. Total(P) \in Nat /\ (Total(P) <= Budget[Rung] \/ Total(P) <= Text[Top(job, job.hits)] + HeaderLine)
  BY <1>2, <1>3, TotalType, PackFits
<1>5. /\ IsJob(j) /\ j.question = job.question /\ j.keyword = job.keyword /\ j.left = job.left
      /\ j.hits = job.hits /\ j.rungs = job.rungs /\ j.pack = P /\ j.size = Total(P)
  BY <1>2 DEF JobOK, IsJob
<1> HIDE DEF j, P
<1>6. KBest(j) = KBest(job) /\ Top(j, j.hits) = Top(job, job.hits)
  BY <1>5, SameOrder
<1>7. JobOK("complete", j)
  BY <1>1, <1>2, <1>3, <1>4, <1>5, <1>6 DEF JobOK, Asked, Rung
<1>8. StillAhead(j, steady)
  BY <1>2, <1>5, <1>6 DEF StillAhead, Excused
<1> QED BY <1>1, <1>5, <1>7, <1>8, LadderStep

LEMMA SkipStep == ASSUME IndInv, Skip PROVE IndInv'
<1> DEFINE j == [job EXCEPT !.rungs = Tail(job.rungs)]
<1>1. /\ pc = "ladder" /\ job.rungs # <<>> /\ pc' = pc /\ job' = j /\ ~Certifies(Rung)
      /\ UNCHANGED <<world, result, steady, listed>>
  BY DEF Skip, AtRung
<1>2. /\ JobOK("ladder", job) /\ Asked(job) /\ job.hits # {} /\ StillAhead(job, steady)
      /\ Tail(job.rungs) \in Seq(Rungs) /\ Members(job.rungs) = {Rung} \cup Members(Tail(job.rungs))
      /\ \A b \in KBest(job) : b \in job.hits \/ MayBeWithheld(b)
  BY <1>1, AtLadder
<1>3. /\ IsJob(j) /\ j.question = job.question /\ j.keyword = job.keyword /\ j.left = job.left
      /\ j.hits = job.hits /\ j.rungs = Tail(job.rungs) /\ j.pack = job.pack
  BY <1>2 DEF JobOK, IsJob
<1> HIDE DEF j
<1>4. KBest(j) = KBest(job) /\ Top(j, j.hits) = Top(job, job.hits)
  BY <1>3, SameOrder
<1>5. JobOK("ladder", j)
  BY <1>2, <1>3, <1>4 DEF JobOK, Asked
<1>6. Rung \notin steady
  BY <1>1 DEF IndInv, WorldOK, ServersNow, Serves, Certifies
<1>7. StillAhead(j, steady)
  BY <1>2, <1>3, <1>4, <1>6 DEF StillAhead, Excused
<1> QED BY <1>1, <1>3, <1>5, <1>7, LadderStep

LEMMA FailStep == ASSUME IndInv, CompleteFails PROVE IndInv'
<1> DEFINE j == [job EXCEPT !.rungs = Tail(job.rungs), !.failed = TRUE, !.pack = {}, !.size = 0]
<1>1. /\ pc = "complete" /\ job.rungs # <<>> /\ pc' = "ladder" /\ job' = j /\ ~Completes
      /\ UNCHANGED <<world, result, steady, listed>>
  BY DEF CompleteFails, AtRung
<1>2. /\ JobOK("complete", job) /\ Asked(job) /\ job.hits # {} /\ StillAhead(job, steady)
      /\ Tail(job.rungs) \in Seq(Rungs) /\ Members(job.rungs) = {Rung} \cup Members(Tail(job.rungs))
      /\ Rung \in Rungs /\ \A b \in KBest(job) : b \in job.hits \/ MayBeWithheld(b)
  BY <1>1, AtLadder
<1>3. /\ IsJob(j) /\ j.question = job.question /\ j.keyword = job.keyword /\ j.left = job.left
      /\ j.hits = job.hits /\ j.rungs = Tail(job.rungs) /\ j.pack = {}
  BY <1>2 DEF JobOK, IsJob
<1> HIDE DEF j
<1>4. KBest(j) = KBest(job) /\ Top(j, j.hits) = Top(job, job.hits)
  BY <1>3, SameOrder
<1>5. JobOK("ladder", j)
  BY <1>2, <1>3, <1>4 DEF JobOK, Asked
<1>6. Rung \in steady => Excused(job, Rung)
  <2>1. SUFFICES ASSUME Rung \in steady PROVE Excused(job, Rung)
    OBVIOUS
  <2>2. ~(job.size <= Window[Rung])
    BY <1>1, <2>1 DEF Completes, IndInv, WorldOK, ServersNow
  <2>3. job.size \in Nat /\ \/ job.size <= Budget[Rung]
                            \/ job.size <= Text[Top(job, job.hits)] + HeaderLine
    BY <1>2 DEF JobOK, Rung
  <2>4. Top(job, job.hits) \in Blocks
    BY <1>2, FirstOf DEF JobOK
  <2>5. Budget[Rung] \in Nat /\ Window[Rung] \in Nat /\ Text[Top(job, job.hits)] + HeaderLine \in Nat
    BY <1>2, <2>4, AskAssumption
  <2> QED BY <2>2, <2>3, <2>5 DEF Excused
<1>7. StillAhead(j, steady)
  BY <1>2, <1>3, <1>4, <1>6 DEF StillAhead, Excused
<1> QED BY <1>1, <1>3, <1>5, <1>7, LadderStep

LEMMA AnswerStep == ASSUME IndInv, Complete PROVE IndInv'
<1>1. /\ pc = "complete" /\ Return("answer", Rung, job.hits, job.pack, "")
      /\ UNCHANGED <<world, steady, listed>>
  BY DEF Complete, AtRung
<1>2. /\ pc' = "idle" /\ job' = NoJob /\ result'.kind = "answer" /\ result'.sources = job.pack
  BY <1>1, Ends
<1>3. Clear(job.pack, listed)
  BY <1>1 DEF IndInv, JobOK, AskOK, Clear
<1>4. ResultOK("idle", result', listed, steady)
  BY <1>2, <1>3 DEF ResultOK
<1> QED BY <1>1, <1>2, <1>4, EndStep DEF world

LEMMA ExhaustedStep == ASSUME IndInv, Exhausted PROVE IndInv'
<1>1. /\ pc = "ladder" /\ job.rungs = <<>> /\ UNCHANGED <<world, steady, listed>>
  BY DEF Exhausted
<1>2. PICK why : Return("degraded", NoOne, job.hits, job.hits, why)
  BY DEF Exhausted
<1>3. /\ pc' = "idle" /\ job' = NoJob /\ result'.kind = "degraded" /\ result'.sources = job.hits
      /\ result'.question = job.question /\ result'.keyword = job.keyword
  BY <1>2, Ends
<1>4. Clear(job.hits, listed) /\ StillAhead(job, steady) /\ Members(job.rungs) = {}
  BY <1>1 DEF IndInv, AskOK, Members
<1>5. Top(result', result'.sources) = Top(job, job.hits)
  BY <1>3, SameOrder
<1>6. ResultOK("idle", result', listed, steady)
  BY <1>3, <1>4, <1>5 DEF ResultOK, StillAhead, Excused
<1> QED BY <1>1, <1>3, <1>6, EndStep DEF world

\* the world around an ask
LEMMA EventStep ==
  ASSUME IndInv,
         \/ \E e \in Rungs, s \in Servers : ServerChanges(e, s)
         \/ \E t \in Topics : HeadWritten(t)
         \/ \E e \in DOMAIN Withholds : ListEdited(e)
         \/ UNCHANGED vars
  PROVE  IndInv'
<1>1. UNCHANGED <<pc, job, result, listed>> /\ steady' \subseteq steady
  BY DEF ServerChanges, HeadWritten, ListEdited, vars
<1>2. WorldOK'
  <2>1. CASE \E e \in Rungs, s \in Servers : ServerChanges(e, s)
    BY <2>1 DEF ServerChanges, IndInv, WorldOK
  <2>2. CASE \E t \in Topics : HeadWritten(t)
    BY <2>2 DEF HeadWritten, IndInv, WorldOK, ServersNow, Serves
  <2>3. CASE \E e \in DOMAIN Withholds : ListEdited(e)
    BY <2>3 DEF ListEdited, IndInv, WorldOK, ServersNow, Serves
  <2>4. CASE UNCHANGED vars
    BY <2>4 DEF vars, IndInv, WorldOK, ServersNow, Serves
  <2> QED BY <2>1, <2>2, <2>3, <2>4
<1>3. AskOK(pc, job, listed, steady') /\ ResultOK(pc, result, listed, steady')
  BY <1>1 DEF IndInv, AskOK, StillAhead, ResultOK
<1> QED BY <1>1, <1>2, <1>3 DEF IndInv

LEMMA NextInd == ASSUME IndInv, [Next]_vars PROVE IndInv'
BY StartStep, SearchStep, FilterStep, CertifyStep, SkipStep, AnswerStep, FailStep, ExhaustedStep,
   EventStep DEF Next, AskStep

-----------------------------------------------------------------------------
(* What an ask promises *)

\* A topic that the last filter of the hits reads on the redaction list is in no evidence
\* pack and in no result, however the list is edited, or cannot be opened, while the stores
\* are searched and the endpoints tried (filter_redacted, ask.py:293).
THEOREM WithheldStaysOut == Spec => []WithheldNeverSent
<1>1. IndInv => WithheldNeverSent
  <2>1. ASSUME IndInv PROVE Clear(job.pack, listed) /\ Clear(result.sources, listed)
    BY <2>1 DEF IndInv, JobOK, AskOK, ResultOK, Clear
  <2> QED BY <2>1 DEF WithheldNeverSent, Clear
<1> QED BY <1>1, InitInd, NextInd, PTL DEF Spec

\* The best K blocks of all stores together reach the ladder, but for those that may be
\* withheld: taking each store's own best K first loses none (searchcompose.py:95), for
\* any path of stores, any question and any K.
THEOREM PerStoreBestIsEnough == Spec => []BestHitsReachTheLadder
<1>1. IndInv => BestHitsReachTheLadder
  BY DEF IndInv, JobOK, BestHitsReachTheLadder
<1> QED BY <1>1, InitInd, NextInd, PTL DEF Spec

\* When ask refuses for lack of evidence (ask.py:505) no block among the best K of all
\* stores that may be shown clears the floor, and after a search for words there is none.
THEOREM RefusesHonestly == Spec => []RefusalIsHonest
<1>1. IndInv => RefusalIsHonest
  BY DEF IndInv, ResultOK, RefusalIsHonest
<1> QED BY <1>1, InitInd, NextInd, PTL DEF Spec

\* Raw retrieval is for an ask that no endpoint could have served: one that would have
\* served throughout was tried, with a pack of its own, and its budget or the first block
\* is more than its context takes (the ladder, ask.py:507-548), for any ladder and hits.
THEOREM LadderFindsItsRung == Spec => []ServingRungAnswers
<1>1. IndInv => ServingRungAnswers
  BY DEF IndInv, ResultOK, ServingRungAnswers
<1> QED BY <1>1, InitInd, NextInd, PTL DEF Spec
=============================================================================
