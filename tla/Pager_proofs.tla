---------------------------- MODULE Pager_proofs ----------------------------
(***************************************************************************)
(* Proofs about Pager, for every configuration PagerAssumption admits and  *)
(* any number of blocks.  The policies take the first blocks of an order;  *)
(* what that leaves, in number and in rank, is the subject of the first    *)
(* lemmas, and no argument below looks at how a list is sorted.            *)
(***************************************************************************)
EXTENDS Pager, FiniteSetTheorems, FunctionTheorems, TLAPS

\* A strict total order of the blocks.
Sorts(order) ==
  /\ \A a \in Blocks : <<a, a>> \notin order
  /\ \A a, b \in Blocks : a # b => <<a, b>> \in order \/ <<b, a>> \in order
  /\ \A a, b, c \in Blocks :
       <<a, b>> \in order /\ <<b, c>> \in order => <<a, c>> \in order

Before(S, b, order) == {a \in S : <<a, b>> \in order}
-----------------------------------------------------------------------------
LEMMA BlocksFinite ==
  ASSUME NEW S \in SUBSET Blocks
  PROVE  IsFiniteSet(S) /\ Cardinality(S) \in Nat
<1>1. IsFiniteSet(Blocks)
  BY PagerAssumption, FS_Interval DEF Blocks
<1> QED
  BY <1>1, FS_Subset, FS_CardinalityType

\* Fewer elements come before a block than before one behind it.
LEMMA BeforeGrows ==
  ASSUME NEW order, Sorts(order), NEW S \in SUBSET Blocks,
         NEW a \in S, NEW b \in S, <<a, b>> \in order
  PROVE  Cardinality(Before(S, a, order)) < Cardinality(Before(S, b, order))
<1> DEFINE A == Before(S, a, order)
           B == Before(S, b, order)
<1>1. A \subseteq B /\ a \in B /\ a \notin A
  BY DEF Sorts, Before
<1>2. B \in SUBSET Blocks /\ A \in SUBSET Blocks
  BY DEF Before
<1> HIDE DEF A, B
<1>3. /\ IsFiniteSet(B) /\ Cardinality(B) \in Nat /\ Cardinality(A) \in Nat
  BY <1>2, BlocksFinite
<1>4. /\ Cardinality(A) <= Cardinality(B)
      /\ Cardinality(B) = Cardinality(A) => B = A
  BY <1>1, <1>3, FS_Subset
<1>5. Cardinality(A) < Cardinality(B)
  BY <1>1, <1>3, <1>4
<1> QED
  BY <1>5 DEF A, B

\* The number of elements before each is a numbering of S from 0.
LEMMA Ranking ==
  ASSUME NEW order, Sorts(order), NEW S \in SUBSET Blocks
  PROVE  [b \in S |-> Cardinality(Before(S, b, order))]
           \in Bijection(S, 0 .. Cardinality(S) - 1)
<1> DEFINE m == Cardinality(S)
           F == [b \in S |-> Cardinality(Before(S, b, order))]
<1>1. IsFiniteSet(S) /\ m \in Nat
  BY BlocksFinite
<1>2. ASSUME NEW b \in S PROVE F[b] \in 0 .. m - 1
  <2>1. /\ Before(S, b, order) \in SUBSET S /\ b \notin Before(S, b, order)
    BY DEF Before, Sorts
  <2>2. /\ Cardinality(Before(S, b, order)) \in Nat
        /\ Cardinality(Before(S, b, order)) <= m
        /\ Cardinality(Before(S, b, order)) # m
    BY <1>1, <2>1, BlocksFinite, FS_Subset
  <2> QED
    BY <1>1, <2>2
<1>3. F \in [S -> 0 .. m - 1]
  BY <1>2
<1>4. ASSUME NEW a \in S, NEW b \in S, F[a] = F[b] PROVE a = b
  <2>1. ASSUME a # b PROVE FALSE
    <3>1. <<a, b>> \in order \/ <<b, a>> \in order
      BY <2>1 DEF Sorts
    <3>2. F[a] < F[b] \/ F[b] < F[a]
      BY <3>1, BeforeGrows
    <3> QED
      BY <1>2, <1>4, <3>2
  <2> QED
    BY <2>1
<1> HIDE DEF F
<1>5. F \in Injection(S, 0 .. m - 1)
  BY <1>3, <1>4, Fun_IsInj
<1>6. IsFiniteSet(0 .. m - 1) /\ Cardinality(0 .. m - 1) = m
  BY <1>1, FS_Interval
<1>7. F \in Surjection(S, 0 .. m - 1)
  BY <1>5, <1>6, FS_Injection
<1>8. F \in Bijection(S, 0 .. m - 1)
  BY <1>5, <1>7 DEF Bijection
<1> QED
  BY <1>8 DEF F

\* First takes n elements, or all there are, and none before one it leaves.
LEMMA FirstTakes ==
  ASSUME NEW order, Sorts(order), NEW S \in SUBSET Blocks, NEW n \in Nat
  PROVE  /\ First(S, n, order) \subseteq S
         /\ Cardinality(First(S, n, order)) = AtMost(n, Cardinality(S))
         /\ n >= Cardinality(S) => First(S, n, order) = S
         /\ \A a \in First(S, n, order), b \in S \ First(S, n, order) :
              <<a, b>> \in order
<1> DEFINE m == Cardinality(S)
           T == First(S, n, order)
           F == [b \in S |-> Cardinality(Before(S, b, order))]
<1>1. m \in Nat
  BY BlocksFinite
<1>2. T = {b \in S : F[b] < n}
  BY DEF First, Before
<1>3. F \in Bijection(S, 0 .. m - 1)
  BY Ranking
<1>4. \A b \in S : F[b] = Cardinality(Before(S, b, order))
  OBVIOUS
<1> HIDE DEF F, T
<1>5. F \in [S -> 0 .. m - 1]
  BY <1>3 DEF Bijection, Injection, Surjection, IsInjective
<1>6. \A a, b \in S : F[a] = F[b] => a = b
  BY <1>3 DEF Bijection, Injection, Surjection, IsInjective
<1>7. \A k \in 0 .. m - 1 : \E b \in S : F[b] = k
  BY <1>3 DEF Bijection, Injection, Surjection, IsInjective
<1>8. ASSUME NEW a \in T, NEW b \in S \ T PROVE <<a, b>> \in order
  <2>1. F[a] < n /\ ~(F[b] < n) /\ a \in S
    BY <1>2
  <2>2. F[a] \in Nat /\ F[b] \in Nat
    BY <1>1, <1>5, <2>1
  <2>3. ASSUME <<b, a>> \in order PROVE FALSE
    <3>1. F[b] < F[a]
      BY <1>4, <2>1, <2>3, BeforeGrows
    <3> QED
      BY <2>1, <2>2, <3>1
  <2>4. a # b
    BY <2>1
  <2> QED
    BY <2>1, <2>3, <2>4 DEF Sorts
<1>9. ASSUME n >= m PROVE T = S
  BY <1>1, <1>2, <1>5, <1>9
<1>10. ASSUME n < m PROVE Cardinality(T) = n
  <2> DEFINE G == [b \in T |-> F[b]]
  <2>1. G \in [T -> 0 .. n - 1]
    BY <1>1, <1>2, <1>5
  <2>2. \A a, b \in T : G[a] = G[b] => a = b
    BY <1>2, <1>6
  <2>3. ASSUME NEW k \in 0 .. n - 1 PROVE \E b \in T : G[b] = k
    <3>1. k \in 0 .. m - 1 /\ k < n
      BY <1>1, <1>10
    <3>2. PICK b \in S : F[b] = k
      BY <1>7, <3>1
    <3> QED
      BY <1>2, <3>1, <3>2
  <2> HIDE DEF G
  <2>4. G \in Bijection(T, 0 .. n - 1)
    BY <2>1, <2>2, <2>3, Fun_IsBij
  <2>5. IsFiniteSet(T)
    BY <1>2, BlocksFinite
  <2>6. Cardinality(0 .. n - 1) = Cardinality(T)
    BY <2>4, <2>5, FS_Bijection DEF ExistsBijection
  <2> QED
    BY <2>6, FS_Interval
<1>11. T \subseteq S /\ Cardinality(T) = AtMost(n, m)
  BY <1>1, <1>2, <1>9, <1>10 DEF AtMost
<1> QED
  BY <1>8, <1>9, <1>11 DEF T

\* A set that is not empty has a block that the order puts first.
LEMMA Leads ==
  ASSUME NEW order, Sorts(order), NEW S \in SUBSET Blocks, S # {}
  PROVE  \E b \in S : \A a \in S \ {b} : <<b, a>> \in order
<1> DEFINE T == First(S, 1, order)
<1>1. IsFiniteSet(S) /\ Cardinality(S) \in Nat /\ Cardinality(S) # 0
  BY BlocksFinite, FS_EmptySet
<1>2. /\ T \subseteq S /\ Cardinality(T) = AtMost(1, Cardinality(S))
      /\ \A a \in T, b \in S \ T : <<a, b>> \in order
  <2>1. PICK n \in Nat : n = 1
    OBVIOUS
  <2>2. First(S, n, order) \subseteq S
    BY ONLY FirstTakes, Sorts(order), S \in SUBSET Blocks, n \in Nat
  <2>3. Cardinality(First(S, n, order)) = AtMost(n, Cardinality(S))
    BY ONLY FirstTakes, Sorts(order), S \in SUBSET Blocks, n \in Nat
  <2>4. \A a \in First(S, n, order), b \in S \ First(S, n, order) :
          <<a, b>> \in order
    BY ONLY FirstTakes, Sorts(order), S \in SUBSET Blocks, n \in Nat
  <2> QED
    BY <2>1, <2>2, <2>3, <2>4, Zenon
<1> HIDE DEF T
<1>3. IsFiniteSet(T) /\ Cardinality(T) = 1
  BY <1>1, <1>2, BlocksFinite DEF AtMost
<1>4. PICK b : T = {b}
  BY <1>3, FS_Singleton
<1> QED
  BY <1>2, <1>4

LEMMA DisjointUnion ==
  ASSUME NEW S \in SUBSET Blocks, NEW T \in SUBSET Blocks, S \cap T = {}
  PROVE  Cardinality(S \cup T) = Cardinality(S) + Cardinality(T)
<1>1. IsFiniteSet(S) /\ IsFiniteSet(T) /\ Cardinality(S) \in Nat
      /\ Cardinality(T) \in Nat
  BY BlocksFinite
<1>2. Cardinality(S \cap T) = 0
  BY FS_EmptySet
<1>3. Cardinality(S \cup T)
        = Cardinality(S) + Cardinality(T) - Cardinality(S \cap T)
  BY <1>1, FS_Union
<1> QED
  BY <1>1, <1>2, <1>3

LEMMA SubsetSmaller ==
  ASSUME NEW T \in SUBSET Blocks, NEW S \in SUBSET T
  PROVE  /\ Cardinality(S) <= Cardinality(T)
         /\ Cardinality(S) = Cardinality(T) => S = T
  BY BlocksFinite, FS_Subset
-----------------------------------------------------------------------------
(* The orders of the policies.                                             *)

LEMMA SortsById == Sorts(ById)
<1>1. Blocks \subseteq Int
  BY PagerAssumption DEF Blocks
<1> QED
  BY <1>1 DEF Sorts, ById, Pairs

LEMMA SortsByScore ==
  ASSUME score \in [Blocks -> Nat]
  PROVE  Sorts(ByScore) /\ Sorts(ByLowScore)
<1>1. Blocks \subseteq Int
  BY PagerAssumption DEF Blocks
<1>2. \A a, b \in Blocks :
        /\ <<a, b>> \in ByScore <=>
             score[a] > score[b] \/ (score[a] = score[b] /\ a < b)
        /\ <<a, b>> \in ByLowScore <=>
             score[a] < score[b] \/ (score[a] = score[b] /\ a < b)
  BY DEF ByScore, ByLowScore, ById, Pairs
<1>3. \A a \in Blocks : score[a] \in Nat
  OBVIOUS
<1>4. /\ \A a \in Blocks : <<a, a>> \notin ByScore /\ <<a, a>> \notin ByLowScore
  BY <1>1, <1>2, <1>3
<1>5. \A a, b \in Blocks : a # b =>
        /\ <<a, b>> \in ByScore \/ <<b, a>> \in ByScore
        /\ <<a, b>> \in ByLowScore \/ <<b, a>> \in ByLowScore
  BY <1>1, <1>2, <1>3
<1>6. ASSUME NEW a \in Blocks, NEW b \in Blocks, NEW c \in Blocks
      PROVE  /\ <<a, b>> \in ByScore /\ <<b, c>> \in ByScore
                => <<a, c>> \in ByScore
             /\ <<a, b>> \in ByLowScore /\ <<b, c>> \in ByLowScore
                => <<a, c>> \in ByLowScore
  BY <1>1, <1>2, <1>3
<1> QED
  BY <1>4, <1>5, <1>6 DEF Sorts

LEMMA SortsPins ==
  ASSUME NEW order, Sorts(order)
  PROVE  Sorts(PinsThen(order))
<1>1. \A a, b \in Blocks : <<a, b>> \in PinsThen(order) <=>
        \/ a \in pinned /\ b \notin pinned
        \/ (a \in pinned <=> b \in pinned) /\ <<a, b>> \in order
  BY DEF PinsThen, Pairs
<1> QED
  BY <1>1 DEF Sorts

\* max_by and min_by find a block, unless there is none.
LEMMA BestExists ==
  ASSUME score \in [Blocks -> Nat], NEW S \in SUBSET Blocks, S # {}
  PROVE  (\E b : IsBest(b, S)) /\ (\E w : IsWorst(w, S))
<1> DEFINE order == {p \in Pairs : \/ score[p[1]] > score[p[2]]
                                   \/ score[p[1]] = score[p[2]] /\ p[1] > p[2]}
<1>1. Blocks \subseteq Int /\ \A a \in Blocks : score[a] \in Nat
  BY PagerAssumption DEF Blocks
<1>2. \A a, b \in Blocks : <<a, b>> \in order <=>
        score[a] > score[b] \/ (score[a] = score[b] /\ a > b)
  BY DEF Pairs
<1> HIDE DEF order
<1>3. ASSUME NEW a \in Blocks, NEW b \in Blocks, NEW c \in Blocks
      PROVE  <<a, b>> \in order /\ <<b, c>> \in order => <<a, c>> \in order
  BY <1>1, <1>2
<1>4. Sorts(order)
  BY <1>1, <1>2, <1>3 DEF Sorts
<1>5. \E b : IsBest(b, S)
  <2>1. PICK b \in S : \A a \in S \ {b} : <<b, a>> \in order
    BY <1>4, Leads
  <2>2. ASSUME NEW a \in S
        PROVE  score[a] <= score[b] /\ (score[a] = score[b] => a <= b)
    <3>1. CASE a = b
      BY <1>1, <3>1
    <3>2. CASE a # b
      <4>1. a \in Blocks /\ b \in Blocks /\ <<b, a>> \in order
        BY <2>1, <3>2
      <4>2. score[b] > score[a] \/ (score[b] = score[a] /\ b > a)
        BY <1>2, <4>1
      <4> QED
        BY <1>1, <4>1, <4>2
    <3> QED
      BY <3>1, <3>2
  <2> QED
    BY <2>2 DEF IsBest
<1>6. \E w : IsWorst(w, S)
  <2>1. PICK w \in S : \A a \in S \ {w} : <<w, a>> \in ByLowScore
    BY SortsByScore, Leads
  <2>2. ASSUME NEW a \in S
        PROVE  score[w] <= score[a] /\ (score[a] = score[w] => w <= a)
    <3>1. CASE a = w
      BY <1>1, <3>1
    <3>2. CASE a # w
      <4>1. a \in Blocks /\ w \in Blocks /\ <<w, a>> \in ByLowScore
        BY <2>1, <3>2
      <4>2. score[w] < score[a] \/ (score[w] = score[a] /\ w < a)
        BY <4>1 DEF ByLowScore, ById
      <4> QED
        BY <1>1, <4>1, <4>2
    <3> QED
      BY <3>1, <3>2
  <2> QED
    BY <2>2 DEF IsWorst
<1> QED
  BY <1>5, <1>6
-----------------------------------------------------------------------------
(* The invariant.                                                          *)

\* Blocks to come are where ensure_blocks puts them.
Pending == \A b \in Blocks \ Live : tier[b] = "ram"

\* Pinned blocks first, in a form that promotions keep.
PinsIn ==
  \/ pinned \subseteq In("vram")
  \/ In("vram") \subseteq pinned /\ Cardinality(In("vram")) = cfg.vram

\* Both budgets are used up before a block goes to the next tier.
FilledUp ==
  /\ Cardinality(In("ram")) <= cfg.ram
  /\ NonVram # {} => Cardinality(In("vram")) = cfg.vram
  /\ In("ssd") # {} => Cardinality(In("ram")) = cfg.ram

NoVramSwap == \A b \in NonVram, w \in Unpinned : ~VramGain(b, w)
NoRamSwap == \A b \in In("ssd"), w \in In("ram") \ pinned : ~RamGain(b, w)

\* Between the loops of heavy_hitter.
Phase ==
  /\ pc \in {"vram", "ram"} => cfg.policy = "heavy_hitter" /\ PinsIn
  /\ pc = "ram" => FilledUp /\ NoVramSwap

\* What a rebalance leaves.
Placed ==
  AfterRebalance =>
    /\ TiersFilled
    /\ cfg.policy # "sinks_heavy_hitter" => PinsIn
    /\ cfg.policy = "heavy_hitter" => NoVramSwap /\ NoRamSwap

IInv == TypeOK /\ Pending /\ VramBudget /\ Phase /\ Placed

\* The configuration and the sets of blocks, as every proof below needs them.
LEMMA Facts ==
  ASSUME TypeOK
  PROVE  /\ cfg.vram \in Nat /\ cfg.ram \in Nat /\ cfg.policy \in Policies
         /\ cfg.promote_margin \in Nat /\ cfg.ram_promote_margin \in Nat
         /\ cfg.recent_window \in Nat /\ cfg.rebalance_interval \in Nat \ {0}
         /\ MaxBlocks \in Nat \ {0} /\ count \in Nat /\ count <= MaxBlocks
         /\ Live \in SUBSET Blocks /\ pinned \in SUBSET Blocks
         /\ score \in [Blocks -> Nat]
         /\ tier \in [Blocks -> {"vram", "ram", "ssd"}]
<1>1. cfg \in [vram : Nat, ram : Nat, recent_window : Nat,
               rebalance_interval : Nat \ {0}, promote_margin : Nat,
               ram_promote_margin : Nat, policy : Policies]
  BY PagerAssumption DEF TypeOK
<1>2. count \in 0 .. MaxBlocks /\ MaxBlocks \in Nat \ {0} /\ MaxScore \in Nat
  BY PagerAssumption DEF TypeOK
<1>3. Live \in SUBSET Blocks
  BY <1>2 DEF Live, Blocks
<1>4. score \in [Blocks -> Nat]
  BY <1>2 DEF TypeOK
<1> QED
  BY <1>1, <1>2, <1>3, <1>4 DEF TypeOK

LEMMA TierSets ==
  ASSUME TypeOK
  PROVE  /\ In("vram") \in SUBSET Blocks /\ In("ram") \in SUBSET Blocks
         /\ In("ssd") \in SUBSET Blocks /\ NonVram \in SUBSET Blocks
         /\ Unpinned \in SUBSET Blocks
         /\ NonVram = Live \ In("vram")
         /\ In("ssd") = Live \ (In("vram") \cup In("ram"))
         /\ In("vram") \cap In("ram") = {}
         /\ Cardinality(In("vram")) \in Nat /\ Cardinality(In("ram")) \in Nat
<1>1. Live \in SUBSET Blocks /\ tier \in [Blocks -> {"vram", "ram", "ssd"}]
  BY Facts
<1>2. In("vram") \in SUBSET Blocks /\ In("ram") \in SUBSET Blocks
  BY <1>1 DEF In
<1> QED
  BY <1>1, <1>2, BlocksFinite DEF In, NonVram, Unpinned
-----------------------------------------------------------------------------
(* The placements.                                                         *)

Tiers == {"vram", "ram", "ssd"}

LEMMA Remainder ==
  ASSUME NEW T \in SUBSET Blocks, NEW S \in SUBSET T
  PROVE  Cardinality(T) = Cardinality(S) + Cardinality(T \ S)
<1>1. S \in SUBSET Blocks /\ T \ S \in SUBSET Blocks /\ S \cap (T \ S) = {}
  OBVIOUS
<1>2. S \cup (T \ S) = T
  OBVIOUS
<1> QED
  BY <1>1, <1>2, DisjointUnion

\* assign_ranked_blocks fills each tier in the order it is given.
LEMMA Assigns ==
  ASSUME TypeOK, NEW order, Sorts(order), tier' = Assigned(order),
         count' = count
  PROVE  /\ tier' \in [Blocks -> Tiers]
         /\ \A b \in Blocks \ Live : tier'[b] = "ram"
         /\ In("vram")' = First(Live, cfg.vram, order)
         /\ Cardinality(In("vram")') = AtMost(cfg.vram, Cardinality(Live))
         /\ Cardinality(In("ram")') <= cfg.ram
         /\ In("ssd")' # {} => Cardinality(In("ram")') = cfg.ram
         /\ NonVram' # {} => Cardinality(In("vram")') = cfg.vram
         /\ \A a \in In("vram")', b \in NonVram' : <<a, b>> \in order
         /\ \A a \in In("ram")', b \in In("ssd")' : <<a, b>> \in order
<1> DEFINE v == cfg.vram
           r == cfg.ram
<1>1. v \in Nat /\ r \in Nat /\ Live \in SUBSET Blocks
  BY Facts
<1>0. PICK m \in Nat : m = v + r
  BY <1>1
<1> DEFINE V == First(Live, v, order)
           K == First(Live, m, order)
<1>2. /\ V \subseteq Live /\ Cardinality(V) = AtMost(v, Cardinality(Live))
      /\ v >= Cardinality(Live) => V = Live
      /\ \A a \in V, b \in Live \ V : <<a, b>> \in order
  BY <1>1, FirstTakes
<1>3. /\ K \subseteq Live /\ Cardinality(K) = AtMost(m, Cardinality(Live))
      /\ m >= Cardinality(Live) => K = Live
      /\ \A a \in K, b \in Live \ K : <<a, b>> \in order
  BY <1>1, FirstTakes
<1>4. V \subseteq K
  <2>1. \A b \in Live : Cardinality(Before(Live, b, order)) \in Nat
    BY <1>1, BlocksFinite DEF Before
  <2> QED
    BY <1>0, <1>1, <2>1 DEF First, Before
<1>5. tier' = [b \in Blocks |-> IF b \in V THEN "vram"
                                ELSE IF b \in Live \ K THEN "ssd" ELSE "ram"]
  BY <1>0 DEF Assigned
<1>6. Live' = Live
  BY DEF Live
<1> HIDE DEF V, K
<1>7. /\ In("vram")' = V /\ In("ram")' = K \ V /\ In("ssd")' = Live \ K
      /\ NonVram' = Live \ V
  BY <1>1, <1>2, <1>3, <1>4, <1>5, <1>6 DEF In, NonVram
<1>8. /\ Cardinality(K) = Cardinality(V) + Cardinality(K \ V)
      /\ Cardinality(V) \in Nat /\ Cardinality(K \ V) \in Nat
      /\ Cardinality(Live) \in Nat
  BY <1>1, <1>2, <1>3, <1>4, Remainder, BlocksFinite
<1> HIDE DEF v, r
<1>9. Cardinality(K \ V) <= r
  BY <1>0, <1>1, <1>2, <1>3, <1>8 DEF AtMost
<1>10. Live \ K # {} => Cardinality(K \ V) = r
  BY <1>0, <1>1, <1>2, <1>3, <1>8 DEF AtMost
<1>11. Live \ V # {} => Cardinality(V) = v
  BY <1>1, <1>2, <1>8 DEF AtMost
<1>12. tier' \in [Blocks -> Tiers] /\ \A b \in Blocks \ Live : tier'[b] = "ram"
  BY <1>2, <1>5 DEF Tiers
<1>13. V = First(Live, v, order)
  BY DEF V
<1> QED
  BY <1>2, <1>3, <1>4, <1>7, <1>9, <1>10, <1>11, <1>12, <1>13 DEF v, r

\* fill_ram and trim_ram leave RAM full, or the SSD empty.
LEMMA Fills ==
  ASSUME TypeOK, NEW t \in [Blocks -> Tiers], tier' = FillRam(t),
         count' = count
  PROVE  /\ tier' \in [Blocks -> Tiers]
         /\ In("vram")' = {b \in Live : t[b] = "vram"}
         /\ \A b \in Blocks \ Live : tier'[b] = t[b]
         /\ Cardinality(In("ram")') <= cfg.ram
         /\ In("ssd")' # {} => Cardinality(In("ram")') = cfg.ram
<1> DEFINE r == cfg.ram
           R == {b \in Live : t[b] = "ram"}
           D == {b \in Live : t[b] = "ssd"}
           n == Cardinality(R)
<1>1. /\ r \in Nat /\ Live \in SUBSET Blocks /\ score \in [Blocks -> Nat]
      /\ Live' = Live
  BY Facts DEF Live
<1>2. /\ R \in SUBSET Blocks /\ D \in SUBSET Blocks /\ R \cap D = {}
      /\ R \subseteq Live /\ D \subseteq Live
  BY <1>1
<1>3. n \in Nat /\ Cardinality(D) \in Nat
  BY <1>2, BlocksFinite
<1>4. Sorts(ByScore) /\ Sorts(ByLowScore)
  BY <1>1, SortsByScore
<1> HIDE DEF r, R, D, n
<1>5. CASE n >= r
  <2> DEFINE X == First(R, n - r, ByLowScore)
  <2>1. n - r \in Nat
    BY <1>1, <1>3, <1>5
  <2>2. X \subseteq R /\ Cardinality(X) = AtMost(n - r, n)
    BY <1>2, <1>4, <2>1, FirstTakes DEF n
  <2>3. tier' = [b \in Blocks |-> IF b \in X THEN "ssd" ELSE t[b]]
    BY <1>5 DEF FillRam, Moved, r, R, D, n
  <2> HIDE DEF X
  <2>4. In("ram")' = R \ X /\ In("vram")' = {b \in Live : t[b] = "vram"}
    BY <1>1, <1>2, <2>2, <2>3 DEF In, R, D
  <2>5. n = Cardinality(X) + Cardinality(R \ X) /\ Cardinality(R \ X) \in Nat
    BY <1>2, <2>2, Remainder, BlocksFinite DEF n
  <2>6. Cardinality(R \ X) = r
    BY <1>1, <1>3, <1>5, <2>2, <2>5 DEF AtMost
  <2>7. tier' \in [Blocks -> Tiers] /\ \A b \in Blocks \ Live : tier'[b] = t[b]
    BY <1>2, <2>2, <2>3 DEF Tiers
  <2> QED
    BY <1>1, <2>4, <2>6, <2>7 DEF r
<1>6. CASE ~(n >= r)
  <2>1. PICK k \in Nat : k = r - n
    BY <1>1, <1>3, <1>6
  <2> DEFINE X == First(D, k, ByScore)
  <2>2. /\ X \subseteq D /\ Cardinality(X) = AtMost(k, Cardinality(D))
        /\ k >= Cardinality(D) => X = D
    BY <1>2, <1>4, <2>1, FirstTakes
  <2>3. tier' = [b \in Blocks |-> IF b \in X THEN "ram" ELSE t[b]]
    BY <1>6, <2>1 DEF FillRam, Moved, r, R, D, n
  <2> HIDE DEF X
  <2>4. /\ In("ram")' = R \cup X /\ In("vram")' = {b \in Live : t[b] = "vram"}
        /\ In("ssd")' = D \ X
    BY <1>1, <1>2, <2>2, <2>3 DEF In, R, D
  <2>5. Cardinality(R \cup X) = n + Cardinality(X) /\ Cardinality(X) \in Nat
    <3>1. R \cap X = {} /\ X \in SUBSET Blocks
      BY <1>2, <2>2
    <3> QED
      BY <1>2, <3>1, DisjointUnion, BlocksFinite DEF n
  <2>6. Cardinality(R \cup X) <= r
    BY <1>1, <1>3, <2>1, <2>2, <2>5 DEF AtMost
  <2>7. D \ X # {} => Cardinality(R \cup X) = r
    BY <1>1, <1>3, <2>1, <2>2, <2>5 DEF AtMost
  <2>8. tier' \in [Blocks -> Tiers] /\ \A b \in Blocks \ Live : tier'[b] = t[b]
    BY <1>2, <2>2, <2>3 DEF Tiers
  <2> QED
    BY <2>4, <2>6, <2>7, <2>8 DEF r
<1> QED
  BY <1>5, <1>6
-----------------------------------------------------------------------------
(* The steps.                                                              *)

LEMMA FrameType ==
  ASSUME TypeOK, UNCHANGED <<cfg, count, score, pinned, tokens, oldTier>>,
         tier' \in [Blocks -> Tiers], pc' \in {"idle", "place", "vram", "ram"},
         settled' \in BOOLEAN
  PROVE  TypeOK' /\ Live' = Live
  BY DEF TypeOK, Live, Tiers

\* A placement by an order with the pinned blocks first.
LEMMA PinsPlaced ==
  ASSUME TypeOK, NEW order, Sorts(order), tier' = Assigned(PinsThen(order)),
         Finish
  PROVE  TypeOK' /\ Pending' /\ VramBudget' /\ FilledUp' /\ PinsIn'
<1>1. Sorts(PinsThen(order)) /\ UNCHANGED <<cfg, count, score, pinned, tokens>>
  BY SortsPins DEF Finish
<1>2. /\ tier' \in [Blocks -> Tiers]
      /\ \A b \in Blocks \ Live : tier'[b] = "ram"
      /\ Cardinality(In("vram")') = AtMost(cfg.vram, Cardinality(Live))
      /\ Cardinality(In("ram")') <= cfg.ram
      /\ In("ssd")' # {} => Cardinality(In("ram")') = cfg.ram
      /\ NonVram' # {} => Cardinality(In("vram")') = cfg.vram
      /\ \A a \in In("vram")', b \in NonVram' : <<a, b>> \in PinsThen(order)
  BY <1>1, Assigns
<1>3. TypeOK' /\ Live' = Live
  BY <1>2, FrameType DEF Finish
<1>4. Pending' /\ FilledUp'
  BY <1>1, <1>2, <1>3 DEF Pending, FilledUp
<1>5. VramBudget'
  <2>1. cfg.vram \in Nat /\ Cardinality(Live) \in Nat
    BY Facts, BlocksFinite
  <2> QED
    BY <1>1, <1>2, <2>1 DEF VramBudget, AtMost
<1>6. PinsIn'
  <2>1. NonVram' = Live \ In("vram")' /\ pinned \subseteq Live
    BY <1>3, TierSets DEF TypeOK, NonVram, In
  <2>2. ASSUME NEW b \in pinned, b \notin In("vram")'
        PROVE  In("vram")' \subseteq pinned /\ Cardinality(In("vram")') = cfg.vram
    <3>1. b \in NonVram'
      BY <2>1, <2>2
    <3>2. ASSUME NEW a \in In("vram")' PROVE a \in pinned
      BY <1>2, <2>2, <3>1 DEF PinsThen
    <3> QED
      BY <1>2, <3>1, <3>2
  <2> QED
    BY <1>1, <2>2 DEF PinsIn
<1> QED
  BY <1>3, <1>4, <1>5, <1>6

LEMMA BaselineInv == ASSUME IInv, PlaceBaseline PROVE IInv'
<1>1. TypeOK /\ Finish /\ cfg' = cfg /\ cfg.policy \in {"recent_only", "sinks_recent"}
  BY DEF IInv, PlaceBaseline, Finish
<1>2. TypeOK' /\ Pending' /\ VramBudget' /\ FilledUp' /\ PinsIn'
  BY <1>1, SortsById, PinsPlaced DEF PlaceBaseline, PinnedById
<1>3. Phase'
  BY <1>1 DEF Finish, Phase
<1>4. Placed'
  BY <1>1, <1>2 DEF Placed, TiersFilled, FilledUp
<1> QED
  BY <1>2, <1>3, <1>4 DEF IInv

LEMMA HeavyFirstInv == ASSUME IInv, PlaceHeavyFirst PROVE IInv'
<1>1. /\ TypeOK /\ Finish /\ UNCHANGED <<cfg, count, score, pinned>>
      /\ tier' = Assigned(PinsThen(ByScore))
  BY DEF IInv, PlaceHeavyFirst, Finish, PinnedByScore
<1>2. /\ score \in [Blocks -> Nat] /\ Sorts(ByScore) /\ Sorts(PinsThen(ByScore))
      /\ cfg.promote_margin \in Nat /\ cfg.ram_promote_margin \in Nat
  BY <1>1, Facts, SortsByScore, SortsPins
<1>3. TypeOK' /\ Pending' /\ VramBudget' /\ FilledUp' /\ PinsIn'
  BY <1>1, <1>2, PinsPlaced
<1>4. /\ \A a \in In("vram")', b \in NonVram' : <<a, b>> \in PinsThen(ByScore)
      /\ \A a \in In("ram")', b \in In("ssd")' : <<a, b>> \in PinsThen(ByScore)
  BY <1>1, <1>2, Assigns
<1>5. ASSUME NEW a, NEW b, <<a, b>> \in PinsThen(ByScore), a \notin pinned
      PROVE  score[a] \in Nat /\ score[b] \in Nat /\ score[a] >= score[b]
  BY <1>2, <1>5 DEF PinsThen, ByScore, Pairs
<1>6. NoVramSwap'
  <2>1. ASSUME NEW b \in NonVram', NEW a \in Unpinned'
        PROVE  ~(score[b] - score[a] > cfg.promote_margin)
    <3>1. a \in In("vram")' /\ a \notin pinned
      BY <1>1 DEF Unpinned
    <3>2. <<a, b>> \in PinsThen(ByScore)
      BY <1>4, <3>1
    <3>3. score[a] \in Nat /\ score[b] \in Nat /\ score[a] >= score[b]
      BY <1>5, <3>1, <3>2
    <3> QED
      BY <1>2, <3>3
  <2> QED
    BY <1>1, <2>1 DEF NoVramSwap, VramGain
<1>7. NoRamSwap'
  <2>1. ASSUME NEW b \in In("ssd")', NEW a \in In("ram")' \ pinned
        PROVE  ~(score[b] - score[a] > cfg.ram_promote_margin)
    <3>1. <<a, b>> \in PinsThen(ByScore)
      BY <1>4
    <3>2. score[a] \in Nat /\ score[b] \in Nat /\ score[a] >= score[b]
      BY <1>5, <3>1
    <3> QED
      BY <1>2, <3>2
  <2> QED
    BY <1>1, <2>1 DEF NoRamSwap, RamGain
<1>8. Phase'
  BY <1>1 DEF Finish, Phase
<1>9. Placed'
  BY <1>3, <1>6, <1>7 DEF Placed, TiersFilled, FilledUp
<1> QED
  BY <1>3, <1>8, <1>9 DEF IInv

LEMMA PinHeavyInv == ASSUME IInv, PinHeavy PROVE IInv'
<1> DEFINE W == In("vram") \cup pinned
           X == First(W, cfg.vram, PinsThen(ByScore))
<1>1. /\ TypeOK /\ Pending /\ cfg.policy = "heavy_hitter" /\ pc' = "vram"
      /\ UNCHANGED <<cfg, count, score, pinned, tokens, oldTier, settled>>
      /\ tier' = [b \in Blocks |-> IF b \notin W THEN tier[b]
                                   ELSE IF b \in X THEN "vram" ELSE "ram"]
  BY DEF IInv, PinHeavy, PinnedByScore
<1>2. /\ cfg.vram \in Nat /\ Live \in SUBSET Blocks /\ pinned \subseteq Live
      /\ tier \in [Blocks -> Tiers] /\ Sorts(PinsThen(ByScore))
  BY <1>1, Facts, SortsByScore, SortsPins DEF TypeOK, Tiers
<1>3. W \subseteq Live /\ W \in SUBSET Blocks
  BY <1>2 DEF In
<1>6. \A b \in Live : tier[b] = "vram" => b \in W
  BY DEF In
<1>7. pinned \subseteq W
  OBVIOUS
<1> HIDE DEF W
<1>4. /\ X \subseteq W /\ Cardinality(X) = AtMost(cfg.vram, Cardinality(W))
      /\ cfg.vram >= Cardinality(W) => X = W
      /\ \A a \in X, b \in W \ X : <<a, b>> \in PinsThen(ByScore)
  BY <1>2, <1>3, FirstTakes
<1>5. Cardinality(W) \in Nat
  BY <1>3, BlocksFinite
<1> HIDE DEF X
<1>8. tier' \in [Blocks -> Tiers]
  BY <1>1, <1>2 DEF Tiers
<1>9. TypeOK' /\ Live' = Live
  <2>1. settled' \in BOOLEAN
    BY <1>1 DEF TypeOK
  <2> QED
    BY <1>1, <1>8, <2>1, FrameType
<1>10. In("vram")' = X
  BY <1>1, <1>2, <1>3, <1>4, <1>6, <1>9 DEF In
<1>11. Pending'
  BY <1>1, <1>2, <1>3, <1>9 DEF Pending
<1>12. VramBudget'
  BY <1>1, <1>2, <1>4, <1>5, <1>10 DEF VramBudget, AtMost
<1>13. PinsIn'
  <2>1. ASSUME NEW b \in pinned \ X
        PROVE  X \subseteq pinned /\ Cardinality(X) = cfg.vram
    <3>1. b \in W \ X
      BY <1>7
    <3>2. ASSUME NEW a \in X PROVE a \in pinned
      BY <1>4, <3>1 DEF PinsThen
    <3>3. Cardinality(X) = cfg.vram
      BY <1>2, <1>4, <1>5, <3>1 DEF AtMost
    <3> QED
      BY <3>2, <3>3
  <2> QED
    BY <1>1, <1>10, <2>1 DEF PinsIn
<1>14. Phase' /\ Placed'
  BY <1>1, <1>13 DEF Phase, Placed, AfterRebalance
<1> QED
  BY <1>9, <1>11, <1>12, <1>14 DEF IInv

LEMMA FillVramInv == ASSUME IInv, FillVram PROVE IInv'
<1> DEFINE V == In("vram")
<1>1. /\ TypeOK /\ Pending /\ VramBudget /\ Phase /\ pc = "vram" /\ ~VramFull
      /\ UNCHANGED <<cfg, count, score, pinned, tokens, pc, oldTier, settled>>
  BY DEF IInv, FillVram
<1>2. PICK best \in NonVram : tier' = [tier EXCEPT ![best] = "vram"]
  BY DEF FillVram
<1>3. /\ V \in SUBSET Blocks /\ Cardinality(V) \in Nat /\ IsFiniteSet(V)
      /\ cfg.vram \in Nat /\ Live \in SUBSET Blocks
      /\ tier \in [Blocks -> Tiers] /\ best \in Live \ V /\ best \in Blocks
  BY <1>1, Facts, TierSets, BlocksFinite DEF Tiers
<1>4. tier' \in [Blocks -> Tiers]
  BY <1>2, <1>3 DEF Tiers
<1>5. TypeOK' /\ Live' = Live
  <2>1. pc' \in {"idle", "place", "vram", "ram"} /\ settled' \in BOOLEAN
    BY <1>1 DEF TypeOK
  <2> QED
    BY <1>1, <1>4, <2>1, FrameType
<1>6. In("vram")' = V \cup {best}
  BY <1>2, <1>3, <1>5 DEF In
<1> HIDE DEF V
<1>7. Cardinality(V) < cfg.vram
  BY <1>1, <1>3 DEF VramFull, V
<1>8. Cardinality(V \cup {best}) = Cardinality(V) + 1
  BY <1>3, FS_AddElement
<1>9. VramBudget'
  <2>1. Cardinality(In("vram")') <= cfg.vram
    <3>1. PICK k \in Nat, m \in Nat : k = Cardinality(V) /\ m = cfg.vram /\ k < m
      BY <1>3, <1>7
    <3>2. Cardinality(In("vram")') = k + 1
      BY <1>6, <1>8, <3>1, Zenon
    <3> QED
      BY <3>1, <3>2
  <2> QED
    BY <1>1, <2>1 DEF VramBudget
<1>10. Pending'
  BY <1>1, <1>2, <1>3, <1>5 DEF Pending
<1>11. PinsIn'
  BY <1>1, <1>3, <1>6, <1>7 DEF Phase, PinsIn, V
<1>12. Phase' /\ Placed'
  BY <1>1, <1>11 DEF Phase, Placed, AfterRebalance
<1> QED
  BY <1>5, <1>9, <1>10, <1>12 DEF IInv

\* One block in, another one out.
LEMMA Exchange ==
  ASSUME NEW S \in SUBSET Blocks, NEW a \in Blocks \ S, NEW b \in S
  PROVE  Cardinality((S \ {b}) \cup {a}) = Cardinality(S)
<1>1. IsFiniteSet(S) /\ Cardinality(S) \in Nat
  BY BlocksFinite
<1>2. IsFiniteSet(S \ {b}) /\ Cardinality(S \ {b}) = Cardinality(S) - 1
  BY <1>1, FS_RemoveElement
<1>3. Cardinality((S \ {b}) \cup {a}) = Cardinality(S \ {b}) + 1
  BY <1>2, FS_AddElement
<1> QED
  BY <1>1, <1>2, <1>3

LEMMA SwapVramInv == ASSUME IInv, SwapVram PROVE IInv'
<1> DEFINE V == In("vram")
<1>1. /\ TypeOK /\ Pending /\ VramBudget /\ Phase /\ pc = "vram"
      /\ UNCHANGED <<cfg, count, score, pinned, tokens, pc, oldTier, settled>>
  BY DEF IInv, SwapVram
<1>2. PICK best \in NonVram, worst \in Unpinned :
        tier' = [tier EXCEPT ![best] = "vram", ![worst] = tier[best]]
  BY DEF SwapVram
<1>3. /\ V \in SUBSET Blocks /\ Live \in SUBSET Blocks
      /\ tier \in [Blocks -> Tiers] /\ best \in Live \ V /\ best \in Blocks
      /\ worst \in V /\ worst \notin pinned /\ worst \in Blocks
      /\ worst \in Live
  BY <1>1, <1>2, Facts, TierSets DEF Tiers, Unpinned, In
<1>4. tier' \in [Blocks -> Tiers] /\ tier[best] # "vram" /\ best # worst
  BY <1>2, <1>3 DEF In, Tiers
<1>5. TypeOK' /\ Live' = Live
  <2>1. pc' \in {"idle", "place", "vram", "ram"} /\ settled' \in BOOLEAN
    BY <1>1 DEF TypeOK
  <2> QED
    BY <1>1, <1>4, <2>1, FrameType
<1>6. In("vram")' = (V \ {worst}) \cup {best}
  BY <1>2, <1>3, <1>4, <1>5 DEF In
<1>7. Pending'
  BY <1>1, <1>2, <1>3, <1>5 DEF Pending
<1> HIDE DEF V
<1>8. Cardinality(In("vram")') = Cardinality(V)
  BY <1>3, <1>6, Exchange
<1>9. VramBudget'
  BY <1>1, <1>8 DEF VramBudget, V
<1>10. PinsIn'
  BY <1>1, <1>3, <1>6, <1>8 DEF Phase, PinsIn, V
<1>11. Phase' /\ Placed'
  BY <1>1, <1>10 DEF Phase, Placed, AfterRebalance
<1> QED
  BY <1>5, <1>7, <1>9, <1>11 DEF IInv

\* A step that leaves the set of blocks in VRAM as it is.
LEMMA SameVram ==
  ASSUME In("vram")' = In("vram"), UNCHANGED <<cfg, count, score, pinned>>
  PROVE  /\ NonVram' = NonVram /\ Unpinned' = Unpinned
         /\ VramBudget => VramBudget'
         /\ PinsIn => PinsIn'
         /\ NoVramSwap => NoVramSwap'
<1>1. NonVram' = NonVram /\ Unpinned' = Unpinned
  <2>1. NonVram = Live \ In("vram") /\ NonVram' = Live' \ In("vram")' /\ Live' = Live
    BY DEF NonVram, In, Live
  <2> QED
    BY <2>1 DEF Unpinned
<1> QED
  BY <1>1 DEF VramBudget, PinsIn, NoVramSwap, VramGain

\* When no swap of the best and the worst pays, none does.
LEMMA NoOtherSwap ==
  ASSUME TypeOK, NEW S \in SUBSET Blocks, NEW T \in SUBSET Blocks,
         NEW m \in Nat,
         \A b \in S, w \in T : IsBest(b, S) /\ IsWorst(w, T)
           => ~(score[b] - score[w] > m)
  PROVE  \A b \in S, w \in T : ~(score[b] - score[w] > m)
<1>1. score \in [Blocks -> Nat]
  BY Facts
<1> SUFFICES ASSUME NEW b \in S, NEW w \in T PROVE ~(score[b] - score[w] > m)
  OBVIOUS
<1>2. PICK best : IsBest(best, S)
  BY <1>1, BestExists
<1>3. PICK worst : IsWorst(worst, T)
  BY <1>1, BestExists
<1>4. /\ best \in S /\ worst \in T
      /\ score[b] <= score[best] /\ score[worst] <= score[w]
  BY <1>2, <1>3 DEF IsBest, IsWorst
<1>5. ~(score[best] - score[worst] > m)
  BY <1>2, <1>3, <1>4
<1>6. /\ score[b] \in Nat /\ score[w] \in Nat
      /\ score[best] \in Nat /\ score[worst] \in Nat
  BY <1>1, <1>4
<1> QED
  BY <1>4, <1>5, <1>6

LEMMA EndVramInv == ASSUME IInv, EndVram PROVE IInv'
<1>1. /\ TypeOK /\ Pending /\ VramBudget /\ Phase /\ pc = "vram" /\ pc' = "ram"
      /\ UNCHANGED <<cfg, count, score, pinned, tokens, oldTier, settled>>
      /\ tier' = FillRam(tier)
  BY DEF IInv, EndVram
<1>2. tier \in [Blocks -> Tiers]
  BY <1>1, Facts DEF Tiers
<1>3. /\ tier' \in [Blocks -> Tiers]
      /\ In("vram")' = In("vram")
      /\ \A b \in Blocks \ Live : tier'[b] = tier[b]
      /\ Cardinality(In("ram")') <= cfg.ram
      /\ In("ssd")' # {} => Cardinality(In("ram")') = cfg.ram
  BY <1>1, <1>2, Fills DEF In
<1>4. TypeOK' /\ Live' = Live
  <2>1. settled' \in BOOLEAN
    BY <1>1 DEF TypeOK
  <2> QED
    BY <1>1, <1>3, <2>1, FrameType
<1>5. Pending'
  BY <1>1, <1>3, <1>4 DEF Pending
<1>6. /\ NonVram' = NonVram /\ VramBudget' /\ PinsIn'
      /\ NoVramSwap => NoVramSwap'
  BY <1>1, <1>3, SameVram DEF Phase
<1>7. NonVram # {} => VramFull
  BY DEF EndVram
<1>8. FilledUp'
  <2>1. cfg.vram \in Nat /\ Cardinality(In("vram")) \in Nat
    BY <1>1, Facts, TierSets
  <2>2. NonVram # {} => Cardinality(In("vram")) = cfg.vram
    BY <1>1, <1>7, <2>1 DEF VramFull, VramBudget
  <2> QED
    BY <1>1, <1>3, <1>6, <2>2 DEF FilledUp
<1>9. NoVramSwap
  <2>1. CASE NonVram = {}
    BY <2>1 DEF NoVramSwap
  <2>2. CASE NonVram # {}
    <3>1. \A b \in NonVram, w \in Unpinned :
            IsBest(b, NonVram) /\ IsWorst(w, Unpinned)
              => ~(score[b] - score[w] > cfg.promote_margin)
      BY <1>7, <2>2 DEF EndVram, VramGain
    <3>2. /\ NonVram \in SUBSET Blocks /\ Unpinned \in SUBSET Blocks
          /\ cfg.promote_margin \in Nat
      BY <1>1, Facts, TierSets
    <3>3. \A b \in NonVram, w \in Unpinned :
            ~(score[b] - score[w] > cfg.promote_margin)
      BY <1>1, <3>1, <3>2, NoOtherSwap
    <3> QED
      BY <3>3 DEF NoVramSwap, VramGain
  <2> QED
    BY <2>1, <2>2
<1>10. Phase' /\ Placed'
  BY <1>1, <1>6, <1>8, <1>9 DEF Phase, Placed, AfterRebalance
<1> QED
  BY <1>4, <1>5, <1>6, <1>10 DEF IInv

LEMMA SwapRamInv == ASSUME IInv, SwapRam PROVE IInv'
<1> DEFINE R == In("ram")
<1>1. /\ TypeOK /\ Pending /\ VramBudget /\ Phase /\ pc = "ram"
      /\ FilledUp /\ NoVramSwap /\ PinsIn
      /\ UNCHANGED <<cfg, count, score, pinned, tokens, pc, oldTier, settled>>
  BY DEF IInv, SwapRam, Phase
<1>2. PICK best \in In("ssd"), worst \in In("ram") :
        tier' = [tier EXCEPT ![best] = "ram", ![worst] = "ssd"]
  BY DEF SwapRam
<1>3. /\ R \in SUBSET Blocks /\ Live \in SUBSET Blocks
      /\ tier \in [Blocks -> Tiers] /\ best \in Live /\ best \in Blocks \ R
      /\ tier[best] = "ssd" /\ worst \in R /\ worst \in Live
      /\ tier[worst] = "ram" /\ worst \in Blocks
  BY <1>1, <1>2, Facts, TierSets DEF Tiers, In
<1>4. tier' \in [Blocks -> Tiers] /\ best # worst
  BY <1>2, <1>3 DEF Tiers
<1>5. TypeOK' /\ Live' = Live
  <2>1. pc' \in {"idle", "place", "vram", "ram"} /\ settled' \in BOOLEAN
    BY <1>1 DEF TypeOK
  <2> QED
    BY <1>1, <1>4, <2>1, FrameType
<1>6. In("ram")' = (R \ {worst}) \cup {best} /\ In("vram")' = In("vram")
  BY <1>2, <1>3, <1>4, <1>5 DEF In
<1>7. Pending'
  BY <1>1, <1>2, <1>3, <1>5 DEF Pending
<1> HIDE DEF R
<1>8. Cardinality(In("ram")') = Cardinality(R)
  BY <1>3, <1>6, Exchange
<1>9. NonVram' = NonVram /\ VramBudget' /\ PinsIn' /\ NoVramSwap'
  BY <1>1, <1>6, SameVram
<1>10. FilledUp'
  <2>1. Cardinality(R) \in Nat /\ cfg.ram \in Nat
    BY <1>1, <1>3, Facts, BlocksFinite
  <2>2. Cardinality(R) = cfg.ram
    BY <1>1, <2>1 DEF SwapRam, FilledUp, R
  <2> QED
    BY <1>1, <1>6, <1>8, <1>9, <2>2 DEF FilledUp
<1>11. Phase' /\ Placed'
  BY <1>1, <1>9, <1>10 DEF Phase, Placed, AfterRebalance
<1> QED
  BY <1>5, <1>7, <1>9, <1>11 DEF IInv

LEMMA EndRamInv == ASSUME IInv, EndRam PROVE IInv'
<1>1. /\ TypeOK /\ Pending /\ VramBudget /\ Phase /\ pc = "ram"
      /\ FilledUp /\ NoVramSwap /\ PinsIn /\ cfg.policy = "heavy_hitter"
      /\ UNCHANGED <<cfg, count, tier, score, pinned, tokens, oldTier>>
      /\ pc' = "idle" /\ settled' = TRUE
  BY DEF IInv, EndRam, Phase, Finish
<1>2. TypeOK' /\ Live' = Live
  <2>1. tier' \in [Blocks -> Tiers]
    BY <1>1, Facts DEF Tiers
  <2> QED
    BY <1>1, <2>1, FrameType
<1>3. \A t : In(t)' = In(t)
  BY <1>1, <1>2 DEF In
<1>4. Pending'
  BY <1>1, <1>2 DEF Pending
<1>5. NonVram' = NonVram /\ VramBudget' /\ PinsIn' /\ NoVramSwap' /\ FilledUp'
  BY <1>1, <1>3, SameVram DEF FilledUp
<1>6. NoRamSwap
  <2>1. /\ In("ssd") \in SUBSET Blocks /\ In("ram") \in SUBSET Blocks
        /\ cfg.ram_promote_margin \in Nat /\ cfg.ram \in Nat
        /\ Cardinality(In("ram")) \in Nat
    BY <1>1, Facts, TierSets
  <2>2. CASE Cardinality(In("ram")) < cfg.ram
    <3>1. In("ssd") = {}
      BY <1>1, <2>1, <2>2 DEF FilledUp
    <3> QED
      BY <3>1 DEF NoRamSwap
  <2>3. CASE \A b \in In("ssd"), w \in In("ram") :
               IsBest(b, In("ssd")) /\ IsWorst(w, In("ram")) => ~RamGain(b, w)
    <3>1. \A b \in In("ssd"), w \in In("ram") :
            ~(score[b] - score[w] > cfg.ram_promote_margin)
      BY <1>1, <2>1, <2>3, NoOtherSwap DEF RamGain
    <3> QED
      BY <3>1 DEF NoRamSwap, RamGain
  <2> QED
    BY <2>2, <2>3 DEF EndRam
<1>7. NoRamSwap'
  BY <1>1, <1>3, <1>6 DEF NoRamSwap, RamGain
<1>8. Phase' /\ Placed'
  BY <1>1, <1>5, <1>7 DEF Phase, Placed, AfterRebalance, TiersFilled, FilledUp
<1> QED
  BY <1>2, <1>4, <1>5, <1>8 DEF IInv

\* Sinks and recent blocks never exceed VRAM.
LEMMA ChosenFit ==
  ASSUME TypeOK, NEW v \in Nat, NEW w \in Nat
  PROVE  LET sinks == {b \in Live : b < AtMost(SinkBlocks, v)}
             budget == AtMost(w, v - Cardinality(sinks))
             chosen == sinks \cup {b \in Live : b >= count - budget}
         IN  chosen \in SUBSET Live /\ Cardinality(chosen) <= v
<1> DEFINE sinks == {b \in Live : b < AtMost(SinkBlocks, v)}
           budget == AtMost(w, v - Cardinality(sinks))
           recent == {b \in Live : b >= count - budget}
<1>1. Live \in SUBSET Blocks /\ count \in Nat /\ SinkBlocks \in Nat
  BY Facts, PagerAssumption
<1>2. PICK m \in Nat : m = AtMost(SinkBlocks, v) /\ m <= v
  BY <1>1 DEF AtMost
<1>3. sinks \in SUBSET Live /\ sinks \in SUBSET (0 .. m - 1)
  BY <1>1, <1>2 DEF Live, Blocks
<1> HIDE DEF sinks
<1>4. /\ IsFiniteSet(sinks) /\ Cardinality(sinks) \in Nat
      /\ Cardinality(sinks) <= v
  <2>1. IsFiniteSet(0 .. m - 1) /\ Cardinality(0 .. m - 1) = m
    BY FS_Interval
  <2>2. Cardinality(sinks) <= m
    BY <1>3, <2>1, FS_Subset
  <2>3. IsFiniteSet(sinks) /\ Cardinality(sinks) \in Nat
    BY <1>1, <1>3, BlocksFinite
  <2> QED
    BY <1>2, <2>2, <2>3
<1>5. budget \in Nat /\ budget <= v - Cardinality(sinks)
  BY <1>4 DEF AtMost
<1> HIDE DEF budget
<1> DEFINE I == count - budget .. count - 1
<1>6. recent \in SUBSET Live /\ recent \in SUBSET I
  BY <1>1, <1>5 DEF Live
<1>7. IsFiniteSet(I) /\ Cardinality(I) = budget
  <2>1. count - budget \in Int /\ count - 1 \in Int
    BY <1>1, <1>5
  <2>2. /\ IsFiniteSet(I)
        /\ Cardinality(I) = IF count - budget > count - 1 THEN 0
                            ELSE (count - 1) - (count - budget) + 1
    BY <2>1, FS_Interval
  <2> QED
    BY <1>1, <1>5, <2>2
<1> HIDE DEF recent, I
<1>8. /\ IsFiniteSet(recent) /\ Cardinality(recent) \in Nat
      /\ Cardinality(recent) <= budget
  BY <1>1, <1>6, <1>7, BlocksFinite, FS_Subset
<1>9. /\ Cardinality(sinks \cup recent) =
           Cardinality(sinks) + Cardinality(recent) - Cardinality(sinks \cap recent)
  BY <1>4, <1>8, FS_Union
<1>10. Cardinality(sinks \cap recent) \in Nat
  <2>1. sinks \cap recent \in SUBSET Blocks
    BY <1>1, <1>3
  <2> QED
    BY <2>1, BlocksFinite
<1>11. Cardinality(sinks \cup recent) <= v
  BY <1>4, <1>5, <1>8, <1>9, <1>10
<1> QED
  BY <1>3, <1>6, <1>11 DEF sinks, budget, recent

\* The best of the rest fill VRAM.
LEMMA RestFills ==
  ASSUME TypeOK, NEW v \in Nat, NEW chosen \in SUBSET Live,
         Cardinality(chosen) <= v
  PROVE  LET vram == chosen \cup
                       First(Live \ chosen, v - Cardinality(chosen), ByScore)
         IN  /\ vram \subseteq Live /\ Cardinality(vram) <= v
             /\ Live \ vram # {} => Cardinality(vram) = v
<1>1. Live \in SUBSET Blocks /\ Sorts(ByScore)
  BY Facts, SortsByScore
<1>2. Cardinality(chosen) \in Nat
  <2>1. chosen \in SUBSET Blocks
    BY <1>1
  <2> QED
    BY <2>1, BlocksFinite
<1>3. PICK k \in Nat : k = v - Cardinality(chosen)
  BY <1>2
<1>4. PICK rest \in SUBSET Blocks : rest = Live \ chosen
  BY <1>1
<1> DEFINE X == First(rest, k, ByScore)
<1>5. /\ X \subseteq rest /\ Cardinality(X) = AtMost(k, Cardinality(rest))
      /\ k >= Cardinality(rest) => X = rest
  <2>1. rest \in SUBSET Blocks /\ k \in Nat /\ Sorts(ByScore)
    BY <1>1
  <2> QED
    BY ONLY <2>1, FirstTakes
<1> HIDE DEF X
<1>6. X \in SUBSET Blocks /\ chosen \in SUBSET Blocks /\ chosen \cap X = {}
  BY <1>1, <1>4, <1>5
<1>7. Cardinality(X) \in Nat /\ Cardinality(rest) \in Nat
  BY <1>6, BlocksFinite
<1>8. Cardinality(chosen \cup X) = Cardinality(chosen) + Cardinality(X)
  BY <1>6, DisjointUnion
<1>9. Cardinality(chosen \cup X) <= v
  BY <1>2, <1>3, <1>5, <1>7, <1>8 DEF AtMost
<1>10. Live \ (chosen \cup X) # {} => Cardinality(chosen \cup X) = v
  <2>1. Live \ (chosen \cup X) # {} => X # rest
    BY <1>4
  <2> QED
    BY <1>2, <1>3, <1>5, <1>7, <1>8, <2>1 DEF AtMost
<1>11. X = First(Live \ chosen, v - Cardinality(chosen), ByScore)
  BY <1>3, <1>4 DEF X
<1> QED
  BY <1>4, <1>5, <1>9, <1>10, <1>11

\* The VRAM of sinks_heavy_hitter is a function of count and scores.
SinksVram ==
  LET sinks == {b \in Live : b < AtMost(SinkBlocks, cfg.vram)}
      budget == AtMost(AtMost(cfg.recent_window, AtLeast(cfg.vram \div 2, 1)),
                       cfg.vram - Cardinality(sinks))
      chosen == sinks \cup {b \in Live : b >= count - budget}
  IN  IF cfg.vram = 0 THEN {}
      ELSE chosen \cup
             First(Live \ chosen, cfg.vram - Cardinality(chosen), ByScore)

LEMMA SinksInv ==
  ASSUME IInv, PlaceSinks
  PROVE  IInv' /\ In("vram")' = SinksVram
<1> DEFINE none == Moved(tier, Live, "ssd")
<1>1. /\ TypeOK /\ Pending /\ cfg.policy = "sinks_heavy_hitter" /\ Finish
      /\ UNCHANGED <<cfg, count, score, pinned, tokens, oldTier>>
      /\ pc' = "idle" /\ settled' = TRUE
  BY DEF IInv, PlaceSinks, Finish
<1>2. /\ Live \in SUBSET Blocks /\ tier \in [Blocks -> Tiers]
      /\ cfg.vram \in Nat /\ cfg.ram \in Nat /\ cfg.recent_window \in Nat
  BY <1>1, Facts DEF Tiers
<1>3. /\ none \in [Blocks -> Tiers] /\ \A b \in Live : none[b] = "ssd"
      /\ \A b \in Blocks \ Live : none[b] = "ram"
  BY <1>1, <1>2 DEF Moved, Tiers, Pending
<1>4. ASSUME tier' \in [Blocks -> Tiers] PROVE TypeOK' /\ Live' = Live
  BY <1>1, <1>4, FrameType
<1>5. CASE cfg.vram = 0
  <2>1. tier' = none
    BY <1>5 DEF PlaceSinks
  <2> HIDE DEF none
  <2>2. TypeOK' /\ Live' = Live
    BY <1>3, <1>4, <2>1
  <2>3. In("vram")' = {} /\ In("ram")' = {}
    BY <1>3, <2>1, <2>2 DEF In
  <2>4. Cardinality(In("vram")') = 0 /\ Cardinality(In("ram")') = 0
    BY <2>3, FS_EmptySet
  <2>5. VramBudget' /\ Pending'
    BY <1>1, <1>2, <1>3, <1>5, <2>1, <2>2, <2>4 DEF VramBudget, Pending
  <2>6. TiersFilled'
    BY <1>1, <1>2, <1>5, <2>4 DEF TiersFilled
  <2>7. Phase' /\ Placed'
    BY <1>1, <2>6 DEF Phase, Placed
  <2> QED
    BY <1>5, <2>2, <2>3, <2>5, <2>7 DEF IInv, SinksVram
<1>6. CASE cfg.vram # 0
  <2> DEFINE sinks == {b \in Live : b < AtMost(SinkBlocks, cfg.vram)}
             w == AtMost(cfg.recent_window, AtLeast(cfg.vram \div 2, 1))
             budget == AtMost(w, cfg.vram - Cardinality(sinks))
             chosen == sinks \cup {b \in Live : b >= count - budget}
             vram == chosen \cup
                       First(Live \ chosen, cfg.vram - Cardinality(chosen), ByScore)
             t == Moved(none, vram, "vram")
  <2>1. tier' = FillRam(t)
    BY <1>6 DEF PlaceSinks
  <2>2. w \in Nat
    BY <1>2 DEF AtMost, AtLeast
  <2> HIDE DEF w
  <2>3. /\ vram \subseteq Live /\ Cardinality(vram) <= cfg.vram
        /\ Live \ vram # {} => Cardinality(vram) = cfg.vram
    <3>1. chosen \in SUBSET Live /\ Cardinality(chosen) <= cfg.vram
      BY <1>1, <1>2, <2>2, ChosenFit
    <3> HIDE DEF chosen
    <3> QED
      BY <1>1, <1>2, <3>1, RestFills
  <2>11. vram = SinksVram
    BY <1>6 DEF SinksVram, w
  <2> HIDE DEF vram, none
  <2>4. t \in [Blocks -> Tiers] /\ {b \in Live : t[b] = "vram"} = vram
    BY <1>2, <1>3, <2>3 DEF Moved, Tiers
  <2>5. \A b \in Blocks \ Live : t[b] = "ram"
    BY <1>2, <1>3, <2>3 DEF Moved
  <2> HIDE DEF t
  <2>6. /\ tier' \in [Blocks -> Tiers] /\ In("vram")' = vram
        /\ \A b \in Blocks \ Live : tier'[b] = t[b]
        /\ Cardinality(In("ram")') <= cfg.ram
        /\ In("ssd")' # {} => Cardinality(In("ram")') = cfg.ram
    BY <1>1, <2>1, <2>4, Fills
  <2>7. TypeOK' /\ Live' = Live
    BY <1>4, <2>6
  <2>8. VramBudget' /\ Pending'
    BY <1>1, <2>3, <2>5, <2>6, <2>7 DEF VramBudget, Pending
  <2>9. TiersFilled'
    <3>1. NonVram' = Live \ vram
      BY <2>6, <2>7 DEF NonVram, In
    <3> QED
      BY <1>1, <2>3, <2>6, <3>1 DEF TiersFilled
  <2>10. Phase' /\ Placed'
    BY <1>1, <2>9 DEF Phase, Placed
  <2> QED
    BY <2>6, <2>7, <2>8, <2>10, <2>11 DEF IInv
<1> QED
  BY <1>5, <1>6

\* A call that moves no block: its own blocks are those it found, and new ones
\* wait in RAM.
LEMMA CallInv ==
  ASSUME IInv, NEW n \in Nat, n >= count, n <= MaxBlocks, count' = n,
         UNCHANGED <<cfg, tier>>, TypeOK', pc' \in {"idle", "place"},
         pc' = "idle" => settled' = FALSE
  PROVE  IInv'
<1>1. /\ TypeOK /\ Pending /\ VramBudget /\ count \in Nat
  BY Facts DEF IInv
<1>2. \A b \in Blocks : b \in Live' /\ b \notin Live => tier[b] = "ram"
  BY <1>1 DEF Pending
<1>3. Live \subseteq Live' /\ Live' \subseteq Blocks
  BY <1>1, PagerAssumption DEF Live, Blocks
<1>4. In("vram")' = In("vram")
  BY <1>2, <1>3 DEF In
<1>5. VramBudget'
  BY <1>1, <1>4 DEF VramBudget
<1>6. Pending'
  BY <1>1, <1>3 DEF Pending
<1>7. Phase' /\ Placed'
  BY DEF Phase, Placed, AfterRebalance
<1> QED
  BY <1>5, <1>6, <1>7 DEF IInv

LEMMA OnStepInv ==
  ASSUME IInv, NEW n \in 1 .. MaxBlocks, NEW q \in Blocks, OnStep(n, q)
  PROVE  IInv'
<1>1. /\ TypeOK /\ MaxBlocks \in Nat \ {0} /\ MaxScore \in Nat
      /\ cfg.rebalance_interval \in Nat \ {0} /\ n \in Nat
  BY Facts, PagerAssumption DEF IInv
<1>2. /\ pc = "idle" /\ n >= count /\ settled' = FALSE
      /\ UNCHANGED <<cfg, tier>>
  BY DEF OnStep
<1>3. PICK s \in [0 .. n - 1 -> 0 .. MaxScore] :
        score' = [b \in Blocks |-> IF b < n THEN s[b] ELSE 0]
  BY DEF OnStep
<1>4. score' \in [Blocks -> 0 .. MaxScore]
  <2>1. ASSUME NEW b \in Blocks, b < n PROVE s[b] \in 0 .. MaxScore
    BY <1>1, <2>1 DEF Blocks
  <2> QED
    BY <1>1, <1>3, <2>1
<1>5. pinned' \subseteq Live'
  BY <1>2 DEF OnStep, PinBlocks, Live
<1>6. tokens' \in 0 .. 2 * cfg.rebalance_interval
  <2>1. tokens \in 0 .. 2 * cfg.rebalance_interval
    BY <1>1 DEF TypeOK
  <2>2. tokens' = IF tokens = 2 * cfg.rebalance_interval
                  THEN cfg.rebalance_interval + 1 ELSE tokens + 1
    BY DEF OnStep
  <2> QED
    BY <1>1, <2>1, <2>2
<1>7. pc' \in {"idle", "place"} /\ oldTier' \in [Blocks -> Tiers]
  BY <1>1, <1>2 DEF OnStep, TypeOK, Tiers
<1>n. PICK m \in Nat : m = count' /\ m >= count /\ m <= MaxBlocks
  <2>1. (count' = n \/ count' = q + 1) /\ q \in {n - 1, n}
    BY DEF OnStep
  <2>2. q \in Nat /\ q + 1 <= MaxBlocks /\ n <= MaxBlocks /\ count \in Nat
    BY <1>1, Facts DEF Blocks
  <2> QED
    BY <1>1, <1>2, <2>1, <2>2
<1>8. TypeOK'
  <2>1. /\ cfg \in Configs /\ tier \in [Blocks -> {"vram", "ram", "ssd"}]
    BY <1>1 DEF TypeOK
  <2>2. count' \in 0 .. MaxBlocks /\ settled' \in BOOLEAN
    <3>1. m \in 0 .. MaxBlocks
      BY <1>1, <1>n
    <3>2. FALSE \in BOOLEAN
      OBVIOUS
    <3> QED
      BY <1>2, <1>n, <3>1, <3>2
  <2>3. /\ oldTier' \in [Blocks -> {"vram", "ram", "ssd"}]
        /\ pc' \in {"idle", "place", "vram", "ram"}
    BY <1>7 DEF Tiers
  <2>4. tokens' \in 0 .. 2 * cfg'.rebalance_interval
    BY <1>2, <1>6
  <2> QED
    BY <1>2, <1>4, <1>5, <2>1, <2>2, <2>3, <2>4 DEF TypeOK
<1>9. /\ count' = m /\ UNCHANGED <<cfg, tier>> /\ settled' = FALSE
      /\ pc' \in {"idle", "place"}
  BY <1>2, <1>7, <1>n
<1> QED
  BY <1>8, <1>9, <1>n, CallInv

LEMMA ForceInv ==
  ASSUME IInv, NEW q \in Blocks, ForceRebalance(q)
  PROVE  IInv'
<1>1. TypeOK /\ count \in Nat /\ MaxBlocks \in Nat
  BY Facts DEF IInv
<1>2. /\ UNCHANGED <<cfg, tier, score, tokens>> /\ oldTier' = tier
      /\ pinned' = PinBlocks(q, count') /\ pc' = "place"
      /\ settled' = (settled /\ count' = count)
  BY DEF ForceRebalance
<1>3. pinned' \subseteq Live'
  BY <1>2 DEF PinBlocks, Live
<1>n. PICK m \in Nat : m = count' /\ m >= count /\ m <= MaxBlocks
  <2>1. count' = q + 1 /\ q \in {count - 1, count}
    BY DEF ForceRebalance
  <2>2. q \in Nat /\ q + 1 <= MaxBlocks
    BY <1>1 DEF Blocks
  <2> QED
    BY <1>1, <2>1, <2>2
<1>4. TypeOK'
  <2>1. /\ cfg \in Configs
        /\ tier \in [Blocks -> {"vram", "ram", "ssd"}]
        /\ score \in [Blocks -> 0 .. MaxScore]
        /\ tokens \in 0 .. 2 * cfg.rebalance_interval
    BY <1>1 DEF TypeOK
  <2>2. pc' \in {"idle", "place", "vram", "ram"} /\ settled' \in BOOLEAN
    BY <1>2
  <2>3. count' \in 0 .. MaxBlocks
    BY <1>1, <1>n
  <2> QED
    BY <1>2, <1>3, <2>1, <2>2, <2>3 DEF TypeOK
<1>5. /\ count' = m /\ UNCHANGED <<cfg, tier>>
      /\ pc' \in {"idle", "place"} /\ pc' # "idle"
  BY <1>2, <1>n
<1> QED
  BY <1>4, <1>5, <1>n, CallInv

LEMMA InitInv == Init => IInv
<1> SUFFICES ASSUME Init PROVE IInv
  OBVIOUS
<1>1. /\ MaxBlocks \in Nat \ {0} /\ MaxScore \in Nat
      /\ cfg.rebalance_interval \in Nat \ {0} /\ cfg.vram \in Nat
  BY PagerAssumption DEF Init
<1>2. TypeOK
  <2>1. /\ cfg \in Configs /\ count = 0 /\ pinned = {} /\ tokens = 0
        /\ pc = "idle" /\ settled = FALSE /\ oldTier = tier
        /\ tier = [b \in Blocks |-> "ram"] /\ score = [b \in Blocks |-> 0]
    BY DEF Init
  <2>2. count \in 0 .. MaxBlocks /\ tokens \in 0 .. 2 * cfg.rebalance_interval
    BY <1>1, <2>1
  <2>3. /\ tier \in [Blocks -> {"vram", "ram", "ssd"}]
        /\ score \in [Blocks -> 0 .. MaxScore]
    BY <1>1, <2>1
  <2>4. pc \in {"idle", "place", "vram", "ram"} /\ pinned \subseteq Live
    BY <2>1
  <2> QED
    BY <2>1, <2>2, <2>3, <2>4 DEF TypeOK
<1>3. Pending
  BY DEF Init, Pending
<1>4. VramBudget
  <2>1. In("vram") = {}
    BY DEF Init, In, Live
  <2> QED
    BY <1>1, <2>1, FS_EmptySet DEF VramBudget
<1>5. Phase /\ Placed
  BY DEF Init, Phase, Placed, AfterRebalance
<1> QED
  BY <1>2, <1>3, <1>4, <1>5 DEF IInv

LEMMA NextInv == ASSUME IInv, [Next]_vars PROVE IInv'
<1>1. ASSUME Rebalance PROVE IInv'
  BY <1>1, BaselineInv, HeavyFirstInv, PinHeavyInv, SinksInv, FillVramInv,
     SwapVramInv, EndVramInv, SwapRamInv, EndRamInv DEF Rebalance
<1>2. ASSUME UNCHANGED vars PROVE IInv'
  BY <1>2 DEF vars, IInv, TypeOK, Pending, VramBudget, Phase, Placed,
              AfterRebalance, TiersFilled, PinsIn, FilledUp, NoVramSwap,
              NoRamSwap, VramGain, RamGain, In, Live, NonVram, Unpinned
<1> QED
  BY <1>1, <1>2, OnStepInv, ForceInv DEF Next

LEMMA Inductive == Spec => []IInv
<1>1. IInv /\ [Next]_vars => IInv'
  BY NextInv
<1> QED
  BY <1>1, InitInv, PTL DEF Spec
-----------------------------------------------------------------------------
\* The pager's state has its type, for every configuration and block count.
THEOREM TypeCorrect == Spec => []TypeOK
<1>1. IInv => TypeOK
  BY DEF IInv
<1> QED
  BY <1>1, Inductive, PTL

\* No caller and no step of place_blocks has more blocks in VRAM than the
\* budget, under any policy, number of blocks, scores and margins.
THEOREM BudgetHolds == Spec => []VramBudget
<1>1. IInv => VramBudget
  BY DEF IInv
<1> QED
  BY <1>1, Inductive, PTL

\* A rebalance fills each tier before it leaves a block in the next one, and
\* keeps the RAM budget, whichever path through place_blocks it takes.
THEOREM RebalanceFills == Spec => []TiersFilled
<1>1. IInv => TiersFilled
  BY DEF IInv, Placed, TiersFilled
<1> QED
  BY <1>1, Inductive, PTL

\* A pinned block is outside VRAM only if pinned blocks fill it, after any
\* number of promotions.
THEOREM PinsComeFirst == Spec => []PinnedFirst
<1>1. IInv => PinnedFirst
  BY DEF IInv, Placed, PinsIn, PinnedFirst
<1> QED
  BY <1>1, Inductive, PTL

\* The promotion loops of heavy_hitter stop where no swap pays for any pair of
\* blocks, not only for the pair they compared last.
THEOREM LoopsReachAnOptimum == Spec => []NoProfitableSwap
<1>1. IInv => NoProfitableSwap
  BY DEF IInv, Placed, NoVramSwap, NoRamSwap, NoProfitableSwap
<1> QED
  BY <1>1, Inductive, PTL
-----------------------------------------------------------------------------
(* A rebalance that repeats the previous one.                              *)

\* Of the blocks that compete with VRAM when the pinned ones are brought in,
\* those in VRAM come first.
TopPins ==
  \A a \in In("vram"), b \in pinned \ In("vram") : <<a, b>> \in PinsThen(ByScore)

\* VRAM is what the policy would choose again.
Stable ==
  /\ cfg.policy \in {"recent_only", "sinks_recent"} =>
       In("vram") = First(Live, cfg.vram, PinnedById)
  /\ cfg.policy = "sinks_heavy_hitter" => In("vram") = SinksVram
  /\ cfg.policy = "heavy_hitter" =>
       /\ TopPins /\ PinsIn /\ NoVramSwap
       /\ NonVram # {} => Cardinality(In("vram")) = cfg.vram

OldVram == {b \in Live : oldTier[b] = "vram"}

Again ==
  /\ count > 0 /\ (pc # "idle" \/ settled) => pinned = PinBlocks(count - 1, count)
  /\ pc \in {"vram", "ram"} => TopPins
  /\ settled => Stable
  /\ settled /\ pc # "idle" => OldVram = In("vram")

\* The first n are determined by their number and by coming first.
LEMMA FirstIs ==
  ASSUME NEW order, Sorts(order), NEW S \in SUBSET Blocks, NEW n \in Nat,
         NEW X \in SUBSET S, Cardinality(X) = AtMost(n, Cardinality(S)),
         \A a \in X, b \in S \ X : <<a, b>> \in order
  PROVE  X = First(S, n, order)
<1> DEFINE F == First(S, n, order)
<1>1. /\ F \subseteq S /\ Cardinality(F) = AtMost(n, Cardinality(S))
      /\ \A a \in F, b \in S \ F : <<a, b>> \in order
  BY FirstTakes
<1> HIDE DEF F
<1>2. F \in SUBSET Blocks /\ X \in SUBSET Blocks
  BY <1>1
<1>3. Cardinality(F) = Cardinality(X)
  BY <1>1
<1>4. X \subseteq F \/ F \subseteq X
  <2>1. ASSUME NEW x \in X \ F, NEW f \in F \ X PROVE FALSE
    <3>1. <<x, f>> \in order /\ <<f, x>> \in order
      BY <1>1, <2>1
    <3> QED
      BY <1>2, <3>1 DEF Sorts
  <2> QED
    BY <2>1
<1>5. X = F
  BY <1>2, <1>3, <1>4, SubsetSmaller
<1> QED
  BY <1>5 DEF F

LEMMA SameStable ==
  ASSUME In("vram")' = In("vram"), UNCHANGED <<cfg, count, score, pinned>>
  PROVE  (Stable => Stable') /\ (TopPins => TopPins')
<1>1. /\ NonVram' = NonVram /\ (PinsIn => PinsIn')
      /\ NoVramSwap => NoVramSwap'
  BY SameVram
<1>2. /\ Live' = Live /\ ByScore' = ByScore /\ PinnedById' = PinnedById
  BY DEF Live, ByScore, PinnedById, PinsThen
<1>3. PinsThen(ByScore)' = PinsThen(ByScore) /\ SinksVram' = SinksVram
  BY <1>2 DEF PinsThen, SinksVram
<1>4. TopPins => TopPins'
  BY <1>3 DEF TopPins
<1>5. /\ First(Live, cfg.vram, PinnedById)' = First(Live, cfg.vram, PinnedById)
  BY <1>2
<1> QED
  BY <1>1, <1>3, <1>4, <1>5 DEF Stable

\* The step of a placement that is over at once.
LEMMA PlacedAgain ==
  ASSUME Again, IInv', Finish, pc # "idle",
         cfg.policy \in {"recent_only", "sinks_recent"} =>
           In("vram")' = First(Live, cfg.vram, PinnedById),
         cfg.policy = "sinks_heavy_hitter" => In("vram")' = SinksVram,
         cfg.policy = "heavy_hitter" => TopPins'
  PROVE  Again'
<1>1. /\ UNCHANGED <<cfg, count, score, pinned>> /\ pc' = "idle" /\ settled' = TRUE
  BY DEF Finish
<1>2. Live' = Live /\ ByScore' = ByScore /\ PinnedById' = PinnedById
  BY <1>1 DEF Live, ByScore, PinnedById, PinsThen
<1>3. SinksVram' = SinksVram
  BY <1>1, <1>2 DEF SinksVram
<1>4. /\ TiersFilled' /\ (cfg.policy # "sinks_heavy_hitter" => PinsIn')
      /\ (cfg.policy = "heavy_hitter" => NoVramSwap')
  BY <1>1 DEF IInv, Placed, AfterRebalance
<1>5. NonVram' # {} => Cardinality(In("vram")') = cfg.vram
  BY <1>1, <1>4 DEF TiersFilled, AfterRebalance
<1>6. First(Live, cfg.vram, PinnedById)' = First(Live, cfg.vram, PinnedById)
  BY <1>1, <1>2
<1>7. Stable'
  BY <1>1, <1>3, <1>4, <1>5, <1>6 DEF Stable
<1>8. count' > 0 => pinned' = PinBlocks(count - 1, count)'
  BY <1>1 DEF Again, PinBlocks
<1> QED
  BY <1>1, <1>7, <1>8 DEF Again

\* A step of the loops that leaves VRAM as it is.
LEMMA LoopAgain ==
  ASSUME IInv, Again, In("vram")' = In("vram"), pc \in {"vram", "ram"},
         UNCHANGED <<cfg, count, score, pinned, oldTier>>,
         settled' = settled
  PROVE  Again'
<1>1. TopPins' /\ (settled => Stable')
  BY SameStable DEF Again
<1>2. settled => OldVram' = In("vram")'
  BY DEF Again, OldVram, Live
<1>3. count' > 0 => pinned' = PinBlocks(count - 1, count)'
  BY DEF Again, PinBlocks
<1> QED
  BY <1>1, <1>2, <1>3 DEF Again

LEMMA PlaceAgain ==
  ASSUME IInv, Again, PlaceBaseline \/ PlaceHeavyFirst \/ PlaceSinks
  PROVE  Again' /\ (settled => In("vram")' = OldVram)
<1>1. /\ TypeOK /\ pc = "place" /\ UNCHANGED <<cfg, count, score, pinned>>
      /\ Finish
  BY DEF IInv, PlaceBaseline, PlaceHeavyFirst, PlaceSinks, Finish
<1>2. settled => Stable /\ OldVram = In("vram")
  BY <1>1 DEF Again
<1>3. CASE PlaceBaseline
  <2>1. IInv' /\ cfg.policy \in {"recent_only", "sinks_recent"}
    BY <1>3, BaselineInv DEF PlaceBaseline
  <2>2. In("vram")' = First(Live, cfg.vram, PinnedById)
    <3>1. Sorts(PinnedById) /\ tier' = Assigned(PinnedById)
      BY <1>3, SortsById, SortsPins DEF PlaceBaseline, PinnedById
    <3> QED
      BY <1>1, <3>1, Assigns
  <2>3. Again'
    BY <1>1, <2>1, <2>2, PlacedAgain
  <2> QED
    BY <1>2, <2>1, <2>2, <2>3 DEF Stable
<1>4. CASE PlaceSinks
  <2>1. /\ IInv' /\ In("vram")' = SinksVram
        /\ cfg.policy = "sinks_heavy_hitter"
    BY <1>4, SinksInv DEF PlaceSinks
  <2>2. Again'
    BY <1>1, <2>1, PlacedAgain
  <2> QED
    BY <1>2, <2>1, <2>2 DEF Stable
<1>5. CASE PlaceHeavyFirst
  <2>1. IInv' /\ cfg.policy = "heavy_hitter" /\ In("vram") = {}
    BY <1>5, HeavyFirstInv DEF PlaceHeavyFirst
  <2>2. /\ Sorts(PinsThen(ByScore)) /\ cfg.vram \in Nat
        /\ Live \in SUBSET Blocks /\ pinned \subseteq Live
        /\ tier' = Assigned(PinsThen(ByScore))
    BY <1>1, <1>5, Facts, SortsByScore, SortsPins
       DEF PlaceHeavyFirst, PinnedByScore, TypeOK
  <2>3. /\ In("vram")' = First(Live, cfg.vram, PinsThen(ByScore))
        /\ Cardinality(In("vram")') = AtMost(cfg.vram, Cardinality(Live))
        /\ \A a \in In("vram")', b \in NonVram' : <<a, b>> \in PinsThen(ByScore)
    BY <1>1, <2>2, Assigns
  <2>4. TopPins'
    <3>1. Live' = Live /\ PinsThen(ByScore)' = PinsThen(ByScore)
      BY <1>1 DEF Live, PinsThen, ByScore
    <3>2. pinned' \ In("vram")' \subseteq NonVram'
      BY <1>1, <2>2, <3>1 DEF NonVram, In
    <3> QED
      BY <2>3, <3>1, <3>2 DEF TopPins
  <2>5. Again'
    BY <1>1, <2>1, <2>4, PlacedAgain
  <2>6. settled => In("vram")' = {}
    <3>1. ASSUME settled, Live # {} PROVE cfg.vram = 0
      <4>1. NonVram # {}
        BY <2>1, <3>1 DEF NonVram, In
      <4>2. Cardinality({}) = 0
        BY FS_EmptySet
      <4> QED
        BY <1>2, <2>1, <3>1, <4>1, <4>2 DEF Stable
    <3>2. IsFiniteSet(In("vram")') /\ Cardinality(Live) \in Nat
      <4>1. In("vram")' \in SUBSET Blocks
        BY <2>2, <2>3, FirstTakes
      <4> QED
        BY <2>2, <4>1, BlocksFinite
    <3>3. ASSUME settled PROVE Cardinality(In("vram")') = 0
      <4>1. CASE Live = {}
        <5>1. Cardinality(Live) = 0
          BY <4>1, FS_EmptySet
        <5> QED
          BY <2>2, <2>3, <5>1 DEF AtMost
      <4>2. CASE Live # {}
        BY <2>3, <3>1, <3>2, <3>3, <4>2 DEF AtMost
      <4> QED
        BY <4>1, <4>2
    <3> QED
      BY <3>2, <3>3, FS_EmptySet
  <2> QED
    BY <1>2, <2>1, <2>5, <2>6
<1> QED
  BY <1>3, <1>4, <1>5

LEMMA PinHeavyAgain == ASSUME IInv, Again, PinHeavy PROVE Again'
<1> DEFINE V == In("vram")
           W == V \cup pinned
           X == First(W, cfg.vram, PinsThen(ByScore))
<1>1. /\ TypeOK /\ VramBudget /\ cfg.policy = "heavy_hitter" /\ pc = "place"
      /\ pc' = "vram"
      /\ UNCHANGED <<cfg, count, score, pinned, tokens, oldTier, settled>>
      /\ tier' = [b \in Blocks |-> IF b \notin W THEN tier[b]
                                   ELSE IF b \in X THEN "vram" ELSE "ram"]
  BY DEF IInv, PinHeavy, PinnedByScore
<1>2. /\ cfg.vram \in Nat /\ Live \in SUBSET Blocks /\ pinned \subseteq Live
      /\ V \in SUBSET Blocks /\ Cardinality(V) \in Nat /\ V \subseteq Live
      /\ Sorts(PinsThen(ByScore))
  BY <1>1, Facts, TierSets, SortsByScore, SortsPins DEF TypeOK, In
<1>3. W \subseteq Live /\ W \in SUBSET Blocks /\ pinned \subseteq W /\ V \subseteq W
  BY <1>2
<1>4. \A b \in Live : tier[b] = "vram" => b \in W
  BY DEF In
<1>5. VramBudget => Cardinality(V) <= cfg.vram
  BY DEF VramBudget
<1>6. ASSUME settled
      PROVE  /\ \A a \in V, b \in W \ V : <<a, b>> \in PinsThen(ByScore)
             /\ pinned \subseteq V \/ Cardinality(V) = cfg.vram
  BY <1>1, <1>6 DEF Again, Stable, TopPins, PinsIn
<1>7. pinned \subseteq V => W = V
  OBVIOUS
<1> HIDE DEF W
<1>8. /\ X \subseteq W
      /\ \A a \in X, b \in W \ X : <<a, b>> \in PinsThen(ByScore)
  BY <1>2, <1>3, FirstTakes
<1>9. In("vram")' = X
  <2> HIDE DEF X
  <2>1. Live' = Live
    BY <1>1 DEF Live
  <2> QED
    BY <1>1, <1>2, <1>3, <1>4, <1>8, <2>1 DEF In
<1>10. settled => X = V
  <2> SUFFICES ASSUME settled PROVE X = V
    OBVIOUS
  <2> HIDE DEF V
  <2>1. Cardinality(V) = AtMost(cfg.vram, Cardinality(W))
    <3>1. Cardinality(V) <= Cardinality(W) /\ Cardinality(W) \in Nat
      BY <1>3, SubsetSmaller, BlocksFinite
    <3> QED
      BY <1>1, <1>2, <1>5, <1>6, <1>7, <3>1 DEF AtMost
  <2> QED
    BY <1>2, <1>3, <1>6, <2>1, FirstIs
<1> HIDE DEF X
<1>11. TopPins'
  <2>1. PinsThen(ByScore)' = PinsThen(ByScore)
    BY <1>1 DEF PinsThen, ByScore
  <2> QED
    BY <1>1, <1>3, <1>8, <1>9, <2>1 DEF TopPins
<1>12. settled => Stable' /\ OldVram' = In("vram")'
  BY <1>1, <1>9, <1>10, SameStable DEF Again, OldVram, Live
<1>13. count' > 0 => pinned' = PinBlocks(count - 1, count)'
  BY <1>1 DEF Again, PinBlocks
<1> QED
  BY <1>1, <1>11, <1>12, <1>13 DEF Again

LEMMA FillVramAgain == ASSUME IInv, Again, FillVram PROVE Again'
<1>1. /\ TypeOK /\ VramBudget /\ PinsIn /\ pc = "vram" /\ pc' = pc
      /\ cfg.policy = "heavy_hitter" /\ ~VramFull
      /\ UNCHANGED <<cfg, count, score, pinned, settled>>
  BY DEF IInv, Phase, FillVram
<1>2. PICK best \in NonVram : tier' = [tier EXCEPT ![best] = "vram"]
  BY DEF FillVram
<1>3. Cardinality(In("vram")) # cfg.vram
  <2>1. cfg.vram \in Nat /\ Cardinality(In("vram")) \in Nat
    BY <1>1, Facts, TierSets
  <2> QED
    BY <1>1, <2>1 DEF VramFull
<1>4. settled = FALSE
  <2>1. settled => NonVram = {}
    BY <1>1, <1>3 DEF Again, Stable
  <2>2. settled \in BOOLEAN
    BY <1>1 DEF TypeOK
  <2> QED
    BY <1>2, <2>1, <2>2
<1>5. pinned \subseteq In("vram")
  BY <1>1, <1>3 DEF PinsIn
<1>6. In("vram") \subseteq In("vram")'
  <2>1. tier \in [Blocks -> Tiers] /\ Live \in SUBSET Blocks /\ Live' = Live
    BY <1>1, Facts DEF Tiers, Live
  <2> QED
    BY <1>2, <2>1 DEF In
<1>7. TopPins'
  BY <1>1, <1>5, <1>6 DEF TopPins
<1>8. count' > 0 => pinned' = PinBlocks(count - 1, count)'
  BY <1>1 DEF Again, PinBlocks
<1> QED
  BY <1>1, <1>4, <1>7, <1>8 DEF Again

LEMMA SwapVramAgain == ASSUME IInv, Again, SwapVram PROVE Again'
<1>1. /\ TypeOK /\ PinsIn /\ pc = "vram" /\ pc' = pc
      /\ cfg.policy = "heavy_hitter"
      /\ UNCHANGED <<cfg, count, score, pinned, settled>>
  BY DEF IInv, Phase, SwapVram
<1>2. PICK best \in NonVram, worst \in Unpinned :
        /\ VramGain(best, worst)
        /\ tier' = [tier EXCEPT ![best] = "vram", ![worst] = tier[best]]
  BY DEF SwapVram
<1>3. settled = FALSE
  <2>1. settled => NoVramSwap
    BY <1>1 DEF Again, Stable
  <2>2. settled \in BOOLEAN
    BY <1>1 DEF TypeOK
  <2> QED
    BY <1>2, <2>1, <2>2 DEF NoVramSwap
<1>4. pinned \subseteq In("vram") /\ worst \notin pinned
  BY <1>1, <1>2 DEF PinsIn, Unpinned
<1>5. pinned \subseteq In("vram")'
  <2>1. /\ tier \in [Blocks -> Tiers] /\ Live \in SUBSET Blocks /\ Live' = Live
        /\ pinned \in SUBSET Live
    BY <1>1, Facts DEF Tiers, Live, TypeOK
  <2> QED
    BY <1>2, <1>4, <2>1 DEF In
<1>6. TopPins'
  BY <1>1, <1>5 DEF TopPins
<1>7. count' > 0 => pinned' = PinBlocks(count - 1, count)'
  BY <1>1 DEF Again, PinBlocks
<1> QED
  BY <1>1, <1>3, <1>6, <1>7 DEF Again

LEMMA EndVramAgain == ASSUME IInv, Again, EndVram PROVE Again'
<1>1. /\ TypeOK /\ pc = "vram" /\ settled' = settled /\ tier' = FillRam(tier)
      /\ UNCHANGED <<cfg, count, score, pinned, oldTier>>
  BY DEF IInv, EndVram
<1>2. tier \in [Blocks -> Tiers]
  BY <1>1, Facts DEF Tiers
<1>3. In("vram")' = In("vram")
  BY <1>1, <1>2, Fills DEF In
<1> QED
  BY <1>1, <1>3, LoopAgain

LEMMA SwapRamAgain == ASSUME IInv, Again, SwapRam PROVE Again'
<1>1. /\ TypeOK /\ pc = "ram" /\ settled' = settled
      /\ UNCHANGED <<cfg, count, score, pinned, oldTier>>
  BY DEF IInv, SwapRam
<1>2. PICK best \in In("ssd"), worst \in In("ram") :
        tier' = [tier EXCEPT ![best] = "ram", ![worst] = "ssd"]
  BY DEF SwapRam
<1>3. In("vram")' = In("vram")
  <2>1. tier \in [Blocks -> Tiers] /\ Live \in SUBSET Blocks /\ Live' = Live
    BY <1>1, Facts DEF Tiers, Live
  <2> QED
    BY <1>2, <2>1 DEF In
<1> QED
  BY <1>1, <1>3, LoopAgain

LEMMA EndRamAgain ==
  ASSUME IInv, Again, EndRam
  PROVE  Again' /\ (settled => In("vram")' = OldVram)
<1>1. /\ Finish /\ pc = "ram" /\ UNCHANGED <<cfg, count, tier, score, pinned>>
      /\ cfg.policy = "heavy_hitter"
  BY DEF IInv, Phase, EndRam, Finish
<1>2. In("vram")' = In("vram")
  BY <1>1 DEF In, Live
<1>3. TopPins'
  BY <1>1, <1>2, SameStable DEF Again
<1>4. IInv'
  BY EndRamInv
<1>5. Again'
  BY <1>1, <1>3, <1>4, PlacedAgain
<1> QED
  BY <1>1, <1>2, <1>5 DEF Again

LEMMA OnStepAgain ==
  ASSUME IInv, Again, NEW n \in 1 .. MaxBlocks, NEW q \in Blocks, OnStep(n, q)
  PROVE  Again'
<1>1. /\ settled' = FALSE /\ pc' \in {"idle", "place"} /\ q \in Int
      /\ pc' # "idle" => count' = q + 1 /\ pinned' = PinBlocks(q, count')
  BY Facts DEF OnStep, Blocks, IInv
<1>2. pc' # "idle" => pinned' = PinBlocks(count - 1, count)'
  <2>1. ASSUME count' = q + 1 PROVE count' - 1 = q
    BY <1>1, <2>1
  <2>2. cfg' = cfg
    BY DEF OnStep
  <2> QED
    BY <1>1, <2>1, <2>2 DEF PinBlocks
<1> QED
  BY <1>1, <1>2 DEF Again

LEMMA ForceAgain ==
  ASSUME IInv, Again, NEW q \in Blocks, ForceRebalance(q)
  PROVE  Again'
<1>1. /\ UNCHANGED <<cfg, tier, score>> /\ count > 0 /\ pc' = "place"
      /\ count' = q + 1 /\ pinned' = PinBlocks(q, count') /\ oldTier' = tier
      /\ settled' = (settled /\ count' = count) /\ q \in Int
  BY Facts DEF ForceRebalance, Blocks, IInv
<1>2. pinned' = PinBlocks(count - 1, count)'
  <2>1. count' - 1 = q
    BY <1>1
  <2> QED
    BY <1>1, <2>1 DEF PinBlocks
<1>3. ASSUME settled' PROVE Stable' /\ OldVram' = In("vram")'
  <2>1. settled /\ count' = count
    BY <1>1, <1>3
  <2>2. pinned' = pinned
    BY <1>1, <1>2, <2>1 DEF Again, PinBlocks
  <2>3. In("vram")' = In("vram") /\ OldVram' = In("vram")'
    BY <1>1, <2>1 DEF In, Live, OldVram
  <2> QED
    BY <1>1, <2>1, <2>2, <2>3, SameStable DEF Again
<1> QED
  BY <1>1, <1>2, <1>3 DEF Again

LEMMA StutterAgain == ASSUME Again, UNCHANGED vars PROVE Again'
<1>1. /\ UNCHANGED <<cfg, count, tier, score, pinned, pc, oldTier, settled>>
  BY DEF vars
<1>2. In("vram")' = In("vram") /\ OldVram' = OldVram
  BY <1>1 DEF In, Live, OldVram
<1>3. (Stable => Stable') /\ (TopPins => TopPins')
  BY <1>1, <1>2, SameStable
<1>4. count' > 0 /\ (pc' # "idle" \/ settled') =>
        pinned' = PinBlocks(count - 1, count)'
  BY <1>1 DEF Again, PinBlocks
<1> QED
  BY <1>1, <1>2, <1>3, <1>4 DEF Again

LEMMA NextAgain == ASSUME IInv, Again, [Next]_vars PROVE Again'
<1>1. ASSUME Rebalance PROVE Again'
  BY <1>1, PlaceAgain, PinHeavyAgain, FillVramAgain, SwapVramAgain,
     EndVramAgain, SwapRamAgain, EndRamAgain DEF Rebalance
<1>2. ASSUME NEW n \in 1 .. MaxBlocks, NEW q \in Blocks, OnStep(n, q)
      PROVE  Again'
  BY <1>2, OnStepAgain
<1> QED
  BY <1>1, <1>2, ForceAgain, StutterAgain DEF Next

LEMMA InductiveAgain == Spec => [](IInv /\ Again)
<1>1. Init => Again
  BY DEF Init, Again
<1>2. IInv /\ Again /\ [Next]_vars => (IInv /\ Again)'
  BY NextInv, NextAgain
<1> QED
  BY <1>1, <1>2, InitInv, PTL DEF Spec

\* The step that ends a rebalance of scores that were placed before.
LEMMA RepeatStep ==
  ASSUME IInv, Again, Next, pc # "idle", pc' = "idle", settled
  PROVE  In("vram")' = OldVram
<1>1. \A q \in Blocks : ~ForceRebalance(q) /\ \A n \in 1 .. MaxBlocks : ~OnStep(n, q)
  BY DEF ForceRebalance, OnStep
<1>2. ~PinHeavy /\ ~FillVram /\ ~SwapVram /\ ~EndVram /\ ~SwapRam
  BY DEF PinHeavy, FillVram, SwapVram, EndVram, SwapRam
<1> QED
  BY <1>1, <1>2, PlaceAgain, EndRamAgain DEF Next, Rebalance

\* A rebalance that follows another one with no new scores leaves VRAM as it
\* is, for every policy and any number of promotions in the first one.
THEOREM RepeatsAreIdempotent == Spec => RebalanceIdempotent
<1>1. ASSUME IInv, Again, [Next]_vars
      PROVE  [pc # "idle" /\ pc' = "idle" /\ settled =>
                In("vram")' = {b \in Live : oldTier[b] = "vram"}]_vars
  <2>1. CASE Next
    BY <1>1, <2>1, RepeatStep DEF OldVram
  <2> QED
    BY <1>1, <2>1
<1> QED
  BY <1>1, InductiveAgain, PTL DEF Spec, RebalanceIdempotent
=============================================================================
