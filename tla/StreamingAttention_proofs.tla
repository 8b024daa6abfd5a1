---------------------- MODULE StreamingAttention_proofs ----------------------
(***************************************************************************)
(* Proofs about StreamingAttention, for any number of rows, heads, blocks  *)
(* and tokens, any padding, window, group size and scores: what the        *)
(* memory of a row holds while its columns are fed (StateInv, MassInv),    *)
(* and that the launches feed each column once (PlanInv).                  *)
(***************************************************************************)
EXTENDS StreamingAttention, FiniteSetTheorems, SequenceTheorems,
        WellFoundedInduction, TLAPS

-----------------------------------------------------------------------------
(* Numbers *)

\* A set of natural numbers has a least element.
LEMMA NatMin ==
  ASSUME NEW S \in SUBSET Nat, S # {}
  PROVE  \E x \in S : \A y \in S : x <= y
<1> DEFINE R == OpToRel(<, Nat)
<1>1. IsWellFoundedOn(R, Nat)
  BY NatLessThanWellFounded, Zenon
<1>2. ASSUME NEW x \in Nat, NEW y \in Nat, <<y, x>> \notin R
      PROVE  x <= y
  <2>1. <<y, x>> \in Nat \X Nat /\ ~(y < x)
    BY <1>2, Zenon DEF OpToRel
  <2> QED
    BY <2>1
<1> HIDE DEF R
<1>3. PICK x \in S : \A y \in S : <<y, x>> \notin R
  BY <1>1, WFMin
<1> QED
  BY <1>2, <1>3

\* A bounded set of integers has a greatest element.
LEMMA MaxIs ==
  ASSUME NEW top \in Int, NEW S \in SUBSET Int, S # {}, \A x \in S : x <= top
  PROVE  Max(S) \in S /\ \A x \in S : x <= Max(S)
<1> DEFINE D == {top - x : x \in S}
<1>1. D \in SUBSET Nat /\ D # {}
  <2>1. \A x \in S : top - x \in Nat
    <3>1. ASSUME NEW x \in S PROVE top - x \in Nat
      <4>1. x \in Int /\ x <= top
        OBVIOUS
      <4> QED
        BY <4>1
    <3> QED
      BY <3>1
  <2> QED
    BY <2>1
<1>2. PICK d \in D : \A e \in D : d <= e
  <2> HIDE DEF D
  <2> QED
    BY <1>1, NatMin
<1>3. PICK x \in S : d = top - x
  OBVIOUS
<1>4. \A y \in S : y <= x
  <2>1. ASSUME NEW y \in S PROVE y <= x
    <3>1. top - y \in D
      OBVIOUS
    <3>2. top - x <= top - y
      BY <1>2, <1>3, <3>1
    <3> QED
      BY <3>2
  <2> QED
    BY <2>1
<1> QED
  BY <1>3, <1>4 DEF Max

LEMMA MaxUnique ==
  ASSUME NEW S \in SUBSET Int, NEW x \in S, \A y \in S : y <= x
  PROVE  Max(S) = x
<1>1. Max(S) \in S /\ \A y \in S : y <= Max(S)
  BY DEF Max
<1>2. Max(S) \in Int /\ x \in Int /\ Max(S) <= x /\ x <= Max(S)
  BY <1>1
<1> QED
  BY <1>2

\* p holds the powers of two.
PowersOf(p, n) == p = [i \in 0 .. n |-> IF i = 0 THEN 1 ELSE 2 * p[i - 1]]

LEMMA PowersExist ==
  ASSUME NEW n \in Nat
  PROVE  \E p : PowersOf(p, n)
<1> DEFINE Bad == {k \in Nat : ~\E p : PowersOf(p, k)}
<1> SUFFICES ASSUME n \in Bad PROVE FALSE
  OBVIOUS
<1>1. PICK k \in Bad : \A j \in Bad : k <= j
  <2>1. Bad \in SUBSET Nat /\ Bad # {}
    OBVIOUS
  <2> HIDE DEF Bad
  <2> QED
    BY <2>1, NatMin
<1>2. CASE k = 0
  <2>1. PowersOf([i \in 0 .. 0 |-> 1], 0)
    BY DEF PowersOf
  <2> QED
    BY <1>2, <2>1
<1>3. CASE k # 0
  <2>1. PICK j \in Nat : j = k - 1 /\ k = j + 1
    BY <1>3
  <2>2. j \notin Bad
    BY <1>1, <2>1
  <2>3. PICK s : PowersOf(s, j)
    BY <2>2
  <2>4. PICK u : u = [i \in 0 .. k |-> IF i = k THEN 2 * s[j] ELSE s[i]]
    OBVIOUS
  <2>5. ASSUME NEW i \in 0 .. k
        PROVE  u[i] = IF i = 0 THEN 1 ELSE 2 * u[i - 1]
    <3>1. CASE i = k
      <4>1. u[i] = 2 * s[j] /\ u[j] = s[j] /\ i # 0 /\ i - 1 = j
        BY <2>1, <2>4, <3>1
      <4> QED
        BY <3>1, <4>1
    <3>2. CASE i # k
      <4>1. i \in 0 .. j /\ u[i] = s[i]
        BY <2>1, <2>4, <3>2
      <4>2. s[i] = IF i = 0 THEN 1 ELSE 2 * s[i - 1]
        BY <2>3, <4>1 DEF PowersOf
      <4>3. i # 0 => i - 1 \in 0 .. k /\ i - 1 # k
        BY <3>2
      <4> QED
        BY <2>4, <4>1, <4>2, <4>3
    <3> QED
      BY <3>1, <3>2
  <2>6. PowersOf(u, k)
    BY <2>4, <2>5 DEF PowersOf
  <2> QED
    BY <2>6
<1> QED
  BY <1>2, <1>3

LEMMA PowersAgree ==
  ASSUME NEW n \in Nat, NEW m \in Nat, n <= m,
         NEW s, PowersOf(s, n), NEW u, PowersOf(u, m)
  PROVE  \A i \in 0 .. n : s[i] = u[i]
<1> DEFINE Bad == {k \in 0 .. n : s[k] # u[k]}
<1> SUFFICES ASSUME Bad # {} PROVE FALSE
  OBVIOUS
<1>1. PICK k \in Bad : \A j \in Bad : k <= j
  <2>1. Bad \in SUBSET Nat /\ Bad # {}
    OBVIOUS
  <2> HIDE DEF Bad
  <2> QED
    BY <2>1, NatMin
<1>2. /\ s[k] = IF k = 0 THEN 1 ELSE 2 * s[k - 1]
      /\ u[k] = IF k = 0 THEN 1 ELSE 2 * u[k - 1]
  <2>1. k \in 0 .. n /\ k \in 0 .. m
    OBVIOUS
  <2> QED
    BY <2>1 DEF PowersOf
<1>3. k # 0
  BY <1>2
<1>4. k - 1 \in 0 .. n /\ k - 1 \notin Bad
  BY <1>1, <1>3
<1> QED
  BY <1>2, <1>3, <1>4

LEMMA Pow2Is ==
  ASSUME NEW n \in Nat, NEW s, PowersOf(s, n)
  PROVE  Pow2(n) = s[n]
<1> DEFINE u == CHOOSE v : PowersOf(v, n)
<1>1. PowersOf(u, n)
  OBVIOUS
<1>2. Pow2(n) = u[n]
  BY Zenon DEF Pow2, PowersOf
<1> HIDE DEF u
<1>3. \A i \in 0 .. n : u[i] = s[i]
  <2>1. PowersOf(s, n) /\ n <= n
    OBVIOUS
  <2> QED
    BY ONLY n \in Nat, <1>1, <2>1, PowersAgree, SMTT(30)
<1>4. n \in 0 .. n
  OBVIOUS
<1> QED
  BY <1>2, <1>3, <1>4

LEMMA PowStep ==
  ASSUME NEW n \in Nat
  PROVE  Pow2(0) = 1 /\ Pow2(n + 1) = 2 * Pow2(n)
<1>1. PICK s : PowersOf(s, n)
  BY PowersExist
<1>2. PICK u : PowersOf(u, n + 1)
  BY PowersExist
<1>3. s[n] = u[n]
  <2>1. n + 1 \in Nat /\ n <= n + 1 /\ n \in 0 .. n
    OBVIOUS
  <2>2. \A i \in 0 .. n : s[i] = u[i]
    BY <1>1, <1>2, <2>1, PowersAgree
  <2> QED
    BY <2>1, <2>2
<1>4. u[n + 1] = 2 * u[n]
  <2>1. n + 1 \in 0 .. n + 1 /\ n + 1 # 0 /\ (n + 1) - 1 = n
    OBVIOUS
  <2> QED
    BY <1>2, <2>1 DEF PowersOf
<1>5. Pow2(n) = s[n] /\ Pow2(n + 1) = u[n + 1]
  BY <1>1, <1>2, Pow2Is
<1>6. Pow2(0) = 1
  <2>1. PICK v : PowersOf(v, 0)
    BY PowersExist
  <2>2. v[0] = 1
    BY <2>1 DEF PowersOf
  <2> QED
    BY <2>1, <2>2, Pow2Is
<1> QED
  BY <1>3, <1>4, <1>5, <1>6

LEMMA PowPositive == \A n \in Nat : Pow2(n) \in Nat \ {0}
<1> DEFINE Bad == {n \in Nat : Pow2(n) \notin Nat \ {0}}
<1> SUFFICES ASSUME Bad # {} PROVE FALSE
  OBVIOUS
<1>1. PICK k \in Bad : \A j \in Bad : k <= j
  <2>1. Bad \in SUBSET Nat
    OBVIOUS
  <2> HIDE DEF Bad
  <2> QED
    BY <2>1, NatMin
<1>2. k # 0
  <2>1. Pow2(0) = 1
    BY PowStep, 0 \in Nat
  <2> QED
    BY <2>1
<1>3. PICK j \in Nat : k = j + 1 /\ j \notin Bad
  <2>1. k - 1 \in Nat /\ k - 1 \notin Bad
    BY <1>1, <1>2
  <2> QED
    BY <2>1
<1>4. Pow2(j + 1) = 2 * Pow2(j) /\ Pow2(j) \in Nat \ {0}
  BY <1>3, PowStep
<1> QED
  BY <1>3, <1>4

LEMMA PowAdd ==
  ASSUME NEW a \in Nat
  PROVE  \A b \in Nat : Pow2(a + b) = Pow2(a) * Pow2(b)
<1> DEFINE Bad == {n \in Nat : Pow2(a + n) # Pow2(a) * Pow2(n)}
<1> SUFFICES ASSUME Bad # {} PROVE FALSE
  OBVIOUS
<1>1. PICK k \in Bad : \A j \in Bad : k <= j
  <2>1. Bad \in SUBSET Nat
    OBVIOUS
  <2> HIDE DEF Bad
  <2> QED
    BY <2>1, NatMin
<1>2. k # 0
  <2>1. Pow2(0) = 1 /\ Pow2(a) \in Nat
    BY PowStep, PowPositive, 0 \in Nat
  <2>2. a + 0 = a /\ Pow2(a) * 1 = Pow2(a)
    BY <2>1
  <2> QED
    BY <2>1, <2>2
<1>3. PICK j \in Nat : k = j + 1 /\ j \notin Bad
  <2>1. k - 1 \in Nat /\ k - 1 \notin Bad
    BY <1>1, <1>2
  <2> QED
    BY <2>1
<1>4. /\ Pow2(j + 1) = 2 * Pow2(j) /\ Pow2((a + j) + 1) = 2 * Pow2(a + j)
      /\ Pow2(a + j) = Pow2(a) * Pow2(j) /\ a + (j + 1) = (a + j) + 1
  BY <1>3, PowStep, a + j \in Nat
<1>5. PICK x \in Nat, y \in Nat : x = Pow2(a) /\ y = Pow2(j)
  BY PowPositive
<1>6. 2 * (x * y) = x * (2 * y)
  OBVIOUS
<1> QED
  BY <1>3, <1>4, <1>5, <1>6

-----------------------------------------------------------------------------
(* Sums over columns *)

LEMMA Bounds ==
  /\ MaxCols \in Nat \ {0} /\ Columns = 0 .. MaxCols - 1
  /\ KVHeads \in Nat \ {0} /\ NRep \in Nat \ {0} /\ H \in Nat \ {0}
  /\ Rows \in Nat \ {0} /\ TokensPerBlock \in Nat \ {0}
  /\ BlockKV \in Nat \ {0} /\ TopScore \in Nat
<1>1. /\ KVHeads \in Nat \ {0} /\ NRep \in Nat \ {0}
      /\ Rows \in Nat \ {0} /\ TokensPerBlock \in Nat \ {0}
      /\ BlockKV \in Nat \ {0} /\ TopScore \in Nat
      /\ MaxBlocks \in Nat /\ MaxTail \in Nat
  <2>1. /\ \A n \in {Rows, KVHeads, BlockKV, TokensPerBlock} : n \in Nat \ {0}
        /\ \A n \in {MaxBlocks, MaxTail, MaxPad} : n \in Nat
        /\ NRep \in 1 .. MTile /\ TopScore \in Nat
    BY StreamingAssumption
  <2>2. NRep \in Nat \ {0}
    BY <2>1
  <2> QED
    BY <2>1, <2>2
<1>2. H \in Nat \ {0}
  BY <1>1 DEF H
<1>3. MaxBlocks * TokensPerBlock \in Nat
  BY <1>1
<1>4. MaxCols \in Nat \ {0}
  BY <1>1, <1>3 DEF MaxCols
<1> QED
  BY <1>1, <1>2, <1>4 DEF Columns

\* s holds the partial sums of f.
SumsOf(s, f, n) ==
  s = [i \in 0 .. n |-> IF i = 0 THEN 0 ELSE s[i - 1] + f[i - 1]]

LEMMA SumsExist ==
  ASSUME NEW f, NEW n \in Nat
  PROVE  \E s : SumsOf(s, f, n)
<1> DEFINE Bad == {k \in Nat : ~\E s : SumsOf(s, f, k)}
<1> SUFFICES ASSUME n \in Bad PROVE FALSE
  OBVIOUS
<1>1. PICK k \in Bad : \A j \in Bad : k <= j
  <2>1. Bad \in SUBSET Nat /\ Bad # {}
    OBVIOUS
  <2> HIDE DEF Bad
  <2> QED
    BY <2>1, NatMin
<1>2. CASE k = 0
  <2>1. SumsOf([i \in 0 .. 0 |-> 0], f, 0)
    BY DEF SumsOf
  <2> QED
    BY <1>2, <2>1
<1>3. CASE k # 0
  <2>1. PICK j \in Nat : j = k - 1 /\ k = j + 1
    BY <1>3
  <2>2. j \notin Bad
    BY <1>1, <2>1
  <2>3. PICK s : SumsOf(s, f, j)
    BY <2>2
  <2>4. PICK u : u = [i \in 0 .. k |-> IF i = k THEN s[j] + f[j] ELSE s[i]]
    OBVIOUS
  <2>5. ASSUME NEW i \in 0 .. k
        PROVE  u[i] = IF i = 0 THEN 0 ELSE u[i - 1] + f[i - 1]
    <3>1. CASE i = k
      <4>1. u[i] = s[j] + f[j] /\ u[j] = s[j] /\ i # 0 /\ i - 1 = j
        BY <2>1, <2>4, <3>1
      <4> QED
        BY <3>1, <4>1
    <3>2. CASE i # k
      <4>1. i \in 0 .. j /\ u[i] = s[i]
        BY <2>1, <2>4, <3>2
      <4>2. s[i] = IF i = 0 THEN 0 ELSE s[i - 1] + f[i - 1]
        BY <2>3, <4>1 DEF SumsOf
      <4>3. i # 0 => i - 1 \in 0 .. k /\ i - 1 # k
        BY <3>2
      <4> QED
        BY <2>4, <4>1, <4>2, <4>3
    <3> QED
      BY <3>1, <3>2
  <2>6. SumsOf(u, f, k)
    BY <2>4, <2>5 DEF SumsOf
  <2> QED
    BY <2>6
<1> QED
  BY <1>2, <1>3

LEMMA SumIs ==
  ASSUME NEW f, NEW n \in Nat
  PROVE  \E s : /\ SumUpTo(f, n) = s[n]
                /\ s[0] = 0
                /\ \A i \in 0 .. n - 1 : s[i + 1] = s[i] + f[i]
<1> DEFINE s == CHOOSE s : SumsOf(s, f, n)
<1>1. SumsOf(s, f, n)
  BY SumsExist
<1>2. SumUpTo(f, n) = s[n]
  BY Zenon DEF SumUpTo, SumsOf
<1> HIDE DEF s
<1>3. s[0] = 0
  BY <1>1 DEF SumsOf
<1>4. ASSUME NEW i \in 0 .. n - 1 PROVE s[i + 1] = s[i] + f[i]
  <2>1. i + 1 \in 0 .. n /\ i + 1 # 0 /\ (i + 1) - 1 = i
    OBVIOUS
  <2> QED
    BY <1>1, <2>1 DEF SumsOf
<1> QED
  BY <1>2, <1>3, <1>4

LEMMA SumType ==
  ASSUME NEW n \in Nat, NEW f, \A i \in 0 .. n - 1 : f[i] \in Int
  PROVE  SumUpTo(f, n) \in Int
<1>1. PICK s : /\ SumUpTo(f, n) = s[n] /\ s[0] = 0
               /\ \A i \in 0 .. n - 1 : s[i + 1] = s[i] + f[i]
  BY SumIs
<1> DEFINE Bad == {i \in 0 .. n : s[i] \notin Int}
<1>2. CASE Bad # {}
  <2>1. PICK k \in Bad : \A j \in Bad : k <= j
    <3>1. Bad \in SUBSET Nat
      OBVIOUS
    <3> HIDE DEF Bad
    <3> QED
      BY <1>2, <3>1, NatMin
  <2>2. k # 0
    BY <1>1
  <2>3. k - 1 \in 0 .. n - 1 /\ (k - 1) + 1 = k /\ k - 1 \notin Bad
    BY <2>1, <2>2
  <2>4. s[k] = s[k - 1] + f[k - 1]
    BY <1>1, <2>3
  <2> QED
    BY <2>3, <2>4
<1>3. CASE Bad = {}
  BY <1>1, <1>3
<1> QED
  BY <1>2, <1>3

\* Sums are linear.
LEMMA SumLinear ==
  ASSUME NEW n \in Nat, NEW f, NEW g, NEW h,
         NEW A \in Int, NEW B \in Int, NEW C \in Int,
         \A i \in 0 .. n - 1 :
           /\ f[i] \in Int /\ g[i] \in Int /\ h[i] \in Int
           /\ A * f[i] + B * g[i] = C * h[i]
  PROVE  A * SumUpTo(f, n) + B * SumUpTo(g, n) = C * SumUpTo(h, n)
<1>1. PICK s : /\ SumUpTo(f, n) = s[n] /\ s[0] = 0
               /\ \A i \in 0 .. n - 1 : s[i + 1] = s[i] + f[i]
  BY SumIs
<1>2. PICK u : /\ SumUpTo(g, n) = u[n] /\ u[0] = 0
               /\ \A i \in 0 .. n - 1 : u[i + 1] = u[i] + g[i]
  BY SumIs
<1>3. PICK w : /\ SumUpTo(h, n) = w[n] /\ w[0] = 0
               /\ \A i \in 0 .. n - 1 : w[i + 1] = w[i] + h[i]
  BY SumIs
<1> DEFINE Good(i) == /\ s[i] \in Int /\ u[i] \in Int /\ w[i] \in Int
                      /\ A * s[i] + B * u[i] = C * w[i]
           Bad == {i \in 0 .. n : ~Good(i)}
<1>4. CASE Bad # {}
  <2>1. PICK k \in Bad : \A j \in Bad : k <= j
    <3>1. Bad \in SUBSET Nat
      OBVIOUS
    <3> HIDE DEF Bad
    <3> QED
      BY <1>4, <3>1, NatMin
  <2>2. k # 0
    <3>1. Good(0)
      BY <1>1, <1>2, <1>3
    <3> QED
      BY <3>1
  <2>3. k - 1 \in 0 .. n - 1 /\ (k - 1) + 1 = k /\ k - 1 \notin Bad
    BY <2>1, <2>2
  <2>4. Good(k - 1)
    BY <2>3
  <2>5. /\ s[k] = s[k - 1] + f[k - 1] /\ u[k] = u[k - 1] + g[k - 1]
        /\ w[k] = w[k - 1] + h[k - 1]
    BY <1>1, <1>2, <1>3, <2>3
  <2>6. PICK a \in Int, b \in Int, c \in Int, x \in Int, y \in Int, z \in Int :
          /\ a = s[k - 1] /\ b = u[k - 1] /\ c = w[k - 1]
          /\ x = f[k - 1] /\ y = g[k - 1] /\ z = h[k - 1]
    BY <2>3, <2>4
  <2>7. A * a + B * b = C * c /\ A * x + B * y = C * z
    BY <2>3, <2>4, <2>6
  <2>8. A * (a + x) = A * a + A * x /\ B * (b + y) = B * b + B * y
        /\ C * (c + z) = C * c + C * z
    BY ONLY A \in Int, B \in Int, C \in Int, a \in Int, b \in Int, c \in Int,
            x \in Int, y \in Int, z \in Int
  <2>9. PICK p1 \in Int, p2 \in Int, p3 \in Int, q1 \in Int, q2 \in Int, q3 \in Int :
          /\ p1 = A * a /\ p2 = B * b /\ p3 = C * c
          /\ q1 = A * x /\ q2 = B * y /\ q3 = C * z
    OBVIOUS
  <2>10. A * (a + x) + B * (b + y) = C * (c + z)
    BY ONLY <2>7, <2>8, <2>9, p1 \in Int, p2 \in Int, p3 \in Int,
            q1 \in Int, q2 \in Int, q3 \in Int
  <2>11. Good(k)
    BY <2>5, <2>6, <2>10
  <2> QED
    BY <2>11
<1>5. CASE Bad = {}
  <2>1. Good(n)
    BY <1>5
  <2> QED
    BY <1>1, <1>2, <1>3, <2>1
<1> QED
  BY <1>4, <1>5

\* A sum of naturals is a natural, and at least each of them.
LEMMA SumPositive ==
  ASSUME NEW n \in Nat, NEW f, \A i \in 0 .. n - 1 : f[i] \in Nat
  PROVE  SumUpTo(f, n) \in Nat /\ \A i \in 0 .. n - 1 : f[i] <= SumUpTo(f, n)
<1>1. PICK s : /\ SumUpTo(f, n) = s[n] /\ s[0] = 0
               /\ \A i \in 0 .. n - 1 : s[i + 1] = s[i] + f[i]
  BY SumIs
<1> DEFINE Good(i) == s[i] \in Nat /\ \A j \in 0 .. i - 1 : f[j] <= s[i]
           Bad == {i \in 0 .. n : ~Good(i)}
<1>2. CASE Bad # {}
  <2>1. PICK k \in Bad : \A j \in Bad : k <= j
    <3>1. Bad \in SUBSET Nat
      OBVIOUS
    <3> HIDE DEF Bad
    <3> QED
      BY <1>2, <3>1, NatMin
  <2>2. k # 0
    BY <1>1
  <2>3. k - 1 \in 0 .. n - 1 /\ (k - 1) + 1 = k /\ k - 1 \notin Bad
    BY <2>1, <2>2
  <2>4. Good(k - 1)
    BY <2>3
  <2>5. s[k] = s[k - 1] + f[k - 1] /\ f[k - 1] \in Nat
    BY <1>1, <2>3
  <2>6. ASSUME NEW j \in 0 .. k - 1 PROVE f[j] <= s[k]
    <3>1. CASE j = k - 1
      BY <2>4, <2>5, <3>1
    <3>2. CASE j # k - 1
      <4>1. f[j] <= s[k - 1] /\ f[j] \in Nat
        BY <2>3, <2>4, <3>2
      <4> QED
        BY <2>4, <2>5, <4>1
    <3> QED
      BY <3>1, <3>2
  <2> QED
    BY <2>4, <2>5, <2>6
<1>3. CASE Bad = {}
  BY <1>1, <1>3
<1> QED
  BY <1>2, <1>3

-----------------------------------------------------------------------------
(* The state of a row that was fed some columns *)

Scored(a) == \A c \in Columns : Score(a, c) \in 0 .. TopScore

\* The maximum, the weights and their sum, over the columns D.
MaxOf(a, D) == Max({NegInf} \cup {Score(a, c) : c \in D})
Terms(a, D, m) ==
  [c \in Columns |-> IF c \in D THEN Pow2(TopScore + Score(a, c) - m) ELSE 0]
SumOf(a, D, m) == SumUpTo(Terms(a, D, m), MaxCols)

\* The scores of a chunk C, of which the columns N are valid.
ScoresOf(a, C, N) == [c \in C |-> IF c \in N THEN Score(a, c) ELSE NegInf]

LEMMA MaxOfIs ==
  ASSUME NEW a, Scored(a), NEW D \in SUBSET Columns
  PROVE  /\ MaxOf(a, D) \in NegInf .. TopScore
         /\ \A c \in D : Score(a, c) <= MaxOf(a, D)
         /\ D = {} => MaxOf(a, D) = NegInf
         /\ D # {} => MaxOf(a, D) \in 0 .. TopScore
                      /\ \E c \in D : MaxOf(a, D) = Score(a, c)
<1> DEFINE S == {NegInf} \cup {Score(a, c) : c \in D}
<1>0. PICK top \in Nat : top = TopScore
  BY Bounds
<1>1. \A c \in D : Score(a, c) \in 0 .. top
  BY <1>0 DEF Scored
<1>2. S \in SUBSET Int /\ S # {} /\ \A x \in S : x <= top
  BY <1>1 DEF NegInf
<1>3. Max(S) \in S /\ \A x \in S : x <= Max(S)
  <2> HIDE DEF S
  <2> QED
    BY <1>2, MaxIs, top \in Int
<1>4. MaxOf(a, D) = Max(S)
  BY DEF MaxOf
<1>5. PICK m \in Int : m = MaxOf(a, D) /\ m \in S /\ \A x \in S : x <= m
  BY <1>2, <1>3, <1>4
<1>6. NegInf <= m /\ \A c \in D : Score(a, c) <= m
  BY <1>5
<1>7. CASE D = {}
  <2>1. m = NegInf
    BY <1>5, <1>7
  <2> QED
    BY <1>0, <1>5, <1>7, <2>1 DEF NegInf
<1>8. CASE D # {}
  <2>1. PICK d \in D : TRUE
    BY <1>8
  <2>2. m >= 0
    BY <1>1, <1>6, <2>1
  <2>3. m # NegInf
    BY <2>2 DEF NegInf
  <2>4. PICK c \in D : m = Score(a, c)
    BY <1>5, <2>3
  <2>5. m \in 0 .. top
    BY <1>1, <2>4
  <2> QED
    BY <1>0, <1>5, <1>6, <1>8, <2>4, <2>5 DEF NegInf
<1> QED
  BY <1>7, <1>8

\* The maximum goes on from chunk to chunk.
LEMMA MaxOfUnion ==
  ASSUME NEW a, Scored(a), NEW D \in SUBSET Columns, NEW N \in SUBSET Columns,
         NEW C, N \subseteq C
  PROVE  MaxOf(a, D \cup N) =
           Max({MaxOf(a, D)} \cup {ScoresOf(a, C, N)[c] : c \in DOMAIN ScoresOf(a, C, N)})
<1> DEFINE sc == ScoresOf(a, C, N)
           R == {MaxOf(a, D)} \cup {sc[c] : c \in C}
           x == MaxOf(a, D \cup N)
<1>0. PICK top \in Nat : top = TopScore
  BY Bounds
<1>1. /\ MaxOf(a, D) \in NegInf .. top
      /\ \A c \in D : Score(a, c) <= MaxOf(a, D)
      /\ D = {} => MaxOf(a, D) = NegInf
      /\ D # {} => \E c \in D : MaxOf(a, D) = Score(a, c)
  BY <1>0, MaxOfIs
<1>2. /\ x \in NegInf .. top
      /\ \A c \in D \cup N : Score(a, c) <= x
      /\ D \cup N = {} => x = NegInf
      /\ D \cup N # {} => \E c \in D \cup N : x = Score(a, c)
  BY <1>0, MaxOfIs, D \cup N \in SUBSET Columns
<1>3. \A c \in C : sc[c] = IF c \in N THEN Score(a, c) ELSE NegInf
  BY DEF ScoresOf
<1>4. \A c \in D \cup N : Score(a, c) \in 0 .. top
  BY <1>0 DEF Scored
<1> HIDE DEF sc, x
<1>5. R \in SUBSET Int
  BY <1>1, <1>3, <1>4 DEF NegInf
<1>6. \A y \in R : y <= x
  <2>1. MaxOf(a, D) <= x
    BY <1>1, <1>2 DEF NegInf
  <2>2. \A c \in C : sc[c] <= x
    BY <1>2, <1>3 DEF NegInf
  <2> QED
    BY <2>1, <2>2
<1>7. x \in R
  <2>1. CASE D \cup N = {}
    BY <1>1, <1>2, <2>1
  <2>2. CASE D \cup N # {}
    <3>1. PICK c \in D \cup N : x = Score(a, c)
      BY <1>2, <2>2
    <3>2. CASE c \in N
      BY <1>3, <3>1, <3>2
    <3>3. CASE c \in D
      <4>1. x <= MaxOf(a, D) /\ MaxOf(a, D) <= x
        BY <1>1, <1>6, <3>1, <3>3
      <4>2. x = MaxOf(a, D)
        BY <1>1, <1>2, <4>1 DEF NegInf
      <4> QED
        BY <4>2
    <3> QED
      BY <3>2, <3>3
  <2> QED
    BY <2>1, <2>2
<1>8. Max(R) = x
  <2> HIDE DEF R
  <2> QED
    BY <1>5, <1>6, <1>7, MaxUnique
<1>9. DOMAIN sc = C
  BY DEF sc, ScoresOf
<1> QED
  BY <1>8, <1>9 DEF sc, x

LEMMA TermsType ==
  ASSUME NEW a, Scored(a), NEW D, NEW m \in NegInf .. TopScore
  PROVE  /\ \A c \in Columns : Terms(a, D, m)[c] \in Nat
         /\ \A c \in Columns \cap D :
              /\ TopScore + Score(a, c) - m \in Nat
              /\ Terms(a, D, m)[c] = Pow2(TopScore + Score(a, c) - m)
              /\ Terms(a, D, m)[c] \in Nat \ {0}
         /\ \A c \in Columns \ D : Terms(a, D, m)[c] = 0
         /\ SumOf(a, D, m) \in Nat
<1>1. PICK top \in Nat : top = TopScore
  BY Bounds
<1>2. ASSUME NEW c \in Columns
      PROVE  /\ TopScore + Score(a, c) - m \in Nat
             /\ Pow2(TopScore + Score(a, c) - m) \in Nat \ {0}
  <2>1. PICK s \in Nat : s = Score(a, c)
    BY <1>1 DEF Scored
  <2>2. m \in Int /\ m <= top
    BY <1>1 DEF NegInf
  <2>3. top + s - m \in Nat
    BY <2>2
  <2> QED
    BY <1>1, <2>1, <2>3, PowPositive
<1>3. /\ \A c \in Columns : Terms(a, D, m)[c] \in Nat
      /\ \A c \in Columns \cap D :
           /\ Terms(a, D, m)[c] = Pow2(TopScore + Score(a, c) - m)
           /\ Terms(a, D, m)[c] \in Nat \ {0}
      /\ \A c \in Columns \ D : Terms(a, D, m)[c] = 0
  BY <1>2 DEF Terms
<1>4. SumOf(a, D, m) \in Nat
  <2>1. \A i \in 0 .. MaxCols - 1 : Terms(a, D, m)[i] \in Nat
    BY <1>3, Bounds
  <2> QED
    BY <2>1, SumPositive, Bounds DEF SumOf
<1> QED
  BY <1>2, <1>3, <1>4

\* Rescaling the weights and their sum to another maximum is exact.
LEMMA Rescaled ==
  ASSUME NEW a, Scored(a), NEW D, NEW m \in 0 .. TopScore,
         NEW n \in 0 .. TopScore
  PROVE  /\ \A c \in Columns :
              Terms(a, D, m)[c] * Pow2(m) = Pow2(n) * Terms(a, D, n)[c]
         /\ SumOf(a, D, m) * Pow2(m) = Pow2(n) * SumOf(a, D, n)
<1>1. PICK top \in Nat : top = TopScore
  BY Bounds
<1>2. m \in NegInf .. TopScore /\ n \in NegInf .. TopScore
  BY <1>1 DEF NegInf
<1>3. PICK P \in Nat, Q \in Nat : P = Pow2(m) /\ Q = Pow2(n)
  BY <1>1, PowPositive
<1>4. ASSUME NEW c \in Columns
      PROVE  P * Terms(a, D, m)[c] = Q * Terms(a, D, n)[c]
  <2>1. CASE c \in D
    <3>1. PICK s \in Nat : s = Score(a, c)
      BY <1>1 DEF Scored
    <3>2. top + s - m \in Nat /\ top + s - n \in Nat
      BY <1>1
    <3>3. m + (top + s - m) = top + s /\ n + (top + s - n) = top + s
      BY <1>1
    <3>4. Pow2(m + (top + s - m)) = Pow2(m) * Pow2(top + s - m)
      BY <3>2, PowAdd, m \in Nat
    <3>5. Pow2(n + (top + s - n)) = Pow2(n) * Pow2(top + s - n)
      BY <3>2, PowAdd, n \in Nat
    <3>6. /\ Terms(a, D, m)[c] = Pow2(top + s - m)
          /\ Terms(a, D, n)[c] = Pow2(top + s - n)
      BY <1>1, <1>2, <2>1, <3>1, TermsType
    <3> QED
      BY <1>3, <3>3, <3>4, <3>5, <3>6
  <2>2. CASE c \notin D
    BY <1>2, <2>2, TermsType
  <2> QED
    BY <2>1, <2>2
<1>5. ASSUME NEW c \in Columns
      PROVE  Terms(a, D, m)[c] \in Nat /\ Terms(a, D, n)[c] \in Nat
  BY <1>2, TermsType
<1>6. P * SumOf(a, D, m) = Q * SumOf(a, D, n)
  <2>1. PICK f, g : f = Terms(a, D, m) /\ g = Terms(a, D, n)
    OBVIOUS
  <2>2. ASSUME NEW i \in 0 .. MaxCols - 1
        PROVE  /\ f[i] \in Int /\ f[i] \in Int /\ g[i] \in Int
               /\ P * f[i] + 0 * f[i] = Q * g[i]
    <3>1. i \in Columns
      BY Bounds
    <3>2. f[i] \in Nat /\ g[i] \in Nat /\ P * f[i] = Q * g[i]
      BY <1>4, <1>5, <2>1, <3>1
    <3>3. 0 * f[i] = 0 /\ P * f[i] \in Nat
      BY <3>2
    <3> QED
      BY <3>2, <3>3
  <2>3. P * SumUpTo(f, MaxCols) + 0 * SumUpTo(f, MaxCols) = Q * SumUpTo(g, MaxCols)
    BY <2>2, SumLinear, Bounds, 0 \in Int
  <2>4. SumUpTo(f, MaxCols) \in Int
    BY <2>2, SumType, Bounds
  <2>5. PICK x \in Int : x = SumUpTo(f, MaxCols)
    BY <2>4
  <2>6. P * x + 0 * x = P * x
    <3>1. P * x \in Int /\ 0 * x = 0
      OBVIOUS
    <3> QED
      BY <3>1
  <2> QED
    BY <2>1, <2>3, <2>5, <2>6 DEF SumOf
<1>7. SumOf(a, D, m) \in Int
  BY <1>2, TermsType
<1>8. \A x \in Int : x * P = P * x
  OBVIOUS
<1> QED
  BY <1>3, <1>4, <1>5, <1>6, <1>7, <1>8

LEMMA SumOfEmpty ==
  ASSUME NEW a, NEW m
  PROVE  SumOf(a, {}, m) = 0
<1>1. PICK f : f = Terms(a, {}, m)
  OBVIOUS
<1>2. \A i \in 0 .. MaxCols - 1 : f[i] = 0
  BY <1>1, Bounds DEF Terms
<1>3. \A i \in 0 .. MaxCols - 1 :
        /\ f[i] \in Int /\ f[i] \in Int /\ f[i] \in Int
        /\ 1 * f[i] + 0 * f[i] = 0 * f[i]
  BY <1>2
<1>4. 1 * SumUpTo(f, MaxCols) + 0 * SumUpTo(f, MaxCols) = 0 * SumUpTo(f, MaxCols)
  BY <1>3, SumLinear, Bounds, 0 \in Int, 1 \in Int
<1>5. SumUpTo(f, MaxCols) \in Int
  BY <1>3, SumType, Bounds
<1> QED
  BY <1>1, <1>4, <1>5 DEF SumOf

Disjoint(D, N) == D \cap N = {}
AddsUp(a, D, N, m) ==
  /\ \A c \in Columns :
       Terms(a, D \cup N, m)[c] = Terms(a, D, m)[c] + Terms(a, N, m)[c]
  /\ SumOf(a, D \cup N, m) = SumOf(a, D, m) + SumOf(a, N, m)

LEMMA SumOfUnion ==
  ASSUME NEW a, Scored(a), NEW D, NEW N, Disjoint(D, N),
         NEW m \in NegInf .. TopScore
  PROVE  AddsUp(a, D, N, m)
<1>1. PICK f, g, h : /\ f = Terms(a, D, m) /\ g = Terms(a, N, m)
                     /\ h = Terms(a, D \cup N, m)
  OBVIOUS
<1>2. ASSUME NEW c \in Columns
      PROVE  /\ f[c] \in Nat /\ g[c] \in Nat /\ h[c] \in Nat
             /\ h[c] = f[c] + g[c]
  <2>1. f[c] \in Nat /\ g[c] \in Nat /\ h[c] \in Nat
    BY <1>1, TermsType
  <2>2. h[c] = f[c] + g[c]
    <3>1. CASE c \in D
      <4>1. g[c] = 0 /\ h[c] = f[c]
        BY <1>1, <3>1 DEF Terms, Disjoint
      <4> QED
        BY <2>1, <4>1
    <3>2. CASE c \notin D
      <4>1. f[c] = 0 /\ h[c] = g[c]
        BY <1>1, <3>2 DEF Terms
      <4> QED
        BY <2>1, <4>1
    <3> QED
      BY <3>1, <3>2
  <2> QED
    BY <2>1, <2>2
<1>3. \A i \in 0 .. MaxCols - 1 :
        /\ f[i] \in Int /\ g[i] \in Int /\ h[i] \in Int
        /\ 1 * f[i] + 1 * g[i] = 1 * h[i]
  BY <1>2, Bounds
<1>4. 1 * SumUpTo(f, MaxCols) + 1 * SumUpTo(g, MaxCols) = 1 * SumUpTo(h, MaxCols)
  BY <1>3, SumLinear, Bounds, 1 \in Int
<1>5. /\ SumUpTo(f, MaxCols) \in Int /\ SumUpTo(g, MaxCols) \in Int
      /\ SumUpTo(h, MaxCols) \in Int
  BY <1>3, SumType, Bounds
<1>6. SumUpTo(h, MaxCols) = SumUpTo(f, MaxCols) + SumUpTo(g, MaxCols)
  BY <1>4, <1>5
<1>7. SumOf(a, D \cup N, m) = SumOf(a, D, m) + SumOf(a, N, m)
  BY <1>1, <1>6 DEF SumOf
<1> QED
  BY <1>1, <1>2, <1>7 DEF AddsUp

\* The state of a row that was fed the columns D, with acc over E.
StateOf(a, D, E) ==
  [m |-> MaxOf(a, D), l |-> SumOf(a, D, MaxOf(a, D)),
   acc |-> Terms(a, E, MaxOf(a, D))]

LEMMA ExpIs ==
  ASSUME NEW a, Scored(a), NEW C \in SUBSET Columns, NEW N \in SUBSET C,
         NEW m \in 0 .. TopScore, NEW c \in C
  PROVE  Exp(ScoresOf(a, C, N)[c], m) = Terms(a, N, m)[c]
<1>1. ScoresOf(a, C, N)[c] = IF c \in N THEN Score(a, c) ELSE NegInf
  BY DEF ScoresOf
<1>2. m # NegInf /\ Score(a, c) # NegInf /\ c \in Columns
  BY Bounds DEF Scored, NegInf
<1> QED
  BY <1>1, <1>2 DEF Exp, Terms

\* One tile of columns takes the state over D to that over D and the valid
\* columns of the tile; acc gets those whose value is not masked.
LEMMA OnlineIs ==
  ASSUME NEW a, Scored(a), NEW D \in SUBSET Columns, NEW E \in SUBSET D,
         NEW C \in SUBSET Columns, NEW N \in SUBSET C, Disjoint(D, N), NEW V,
         NEW guarded \in BOOLEAN, guarded \/ N # {}
  PROVE  Online(StateOf(a, D, E), ScoresOf(a, C, N), V, guarded)
           = StateOf(a, D \cup N, E \cup (N \cap V))
<1> PICK st : st = StateOf(a, D, E)
  OBVIOUS
<1>a. /\ st.m = MaxOf(a, D) /\ st.l = SumOf(a, D, st.m)
      /\ st.acc = Terms(a, E, st.m)
  BY DEF StateOf
<1> DEFINE sc == ScoresOf(a, C, N)
           m == MaxOf(a, D \cup N)
           empty == guarded /\ m = NegInf
           p == [c \in C |-> IF empty THEN 0 ELSE Exp(sc[c], m)]
           kept(x) == IF empty THEN 0 ELSE Rescale(x, st.m, m)
           new == Online(st, sc, V, guarded)
<1>0. DOMAIN sc = C
  BY DEF ScoresOf
<1>1. Max({st.m} \cup {sc[c] : c \in DOMAIN sc}) = m
  BY <1>a, MaxOfUnion, N \in SUBSET Columns
<1>2. new = [m |-> m, l |-> kept(st.l) + SumOver(p, C),
             acc |-> [c \in Columns |-> kept(st.acc[c]) +
                        (IF c \in V \cap C THEN p[c] ELSE 0)]]
  <2> HIDE DEF sc, m
  <2> QED
    BY <1>0, <1>1 DEF Online
<1>3. /\ st.m \in NegInf .. TopScore /\ m \in NegInf .. TopScore
      /\ (D = {} => st.m = NegInf) /\ (D # {} => st.m \in 0 .. TopScore)
      /\ (D \cup N = {} <=> m = NegInf) /\ (D \cup N # {} => m \in 0 .. TopScore)
      /\ NegInf \notin 0 .. TopScore
  BY <1>a, MaxOfIs, D \cup N \in SUBSET Columns DEF NegInf
<1>4. ASSUME NEW c \in Columns
      PROVE  (IF c \in C THEN p[c] ELSE 0) = Terms(a, N, m)[c]
  <2>1. CASE empty
    <3>1. Terms(a, N, m)[c] = 0
      BY <1>3, <2>1 DEF Terms
    <3> QED
      BY <2>1, <3>1
  <2>2. CASE ~empty
    <3>1. m \in 0 .. TopScore
      BY <1>3, <2>2
    <3>2. ASSUME c \in C PROVE p[c] = Terms(a, N, m)[c]
      <4>1. p[c] = Exp(sc[c], m)
        BY <2>2, <3>2
      <4>2. PICK k \in 0 .. TopScore : k = m
        BY <3>1
      <4>3. Exp(sc[c], k) = Terms(a, N, k)[c]
        BY <3>2, ExpIs
      <4> HIDE DEF p, m, sc
      <4> QED
        BY <4>1, <4>2, <4>3
    <3>3. c \notin C => Terms(a, N, m)[c] = 0
      BY DEF Terms
    <3> QED
      BY <3>2, <3>3
  <2> QED
    BY <2>1, <2>2
<1>5. SumOver(p, C) = SumOf(a, N, m)
  <2>1. [c \in Columns |-> IF c \in C THEN p[c] ELSE 0] = Terms(a, N, m)
    <3> HIDE DEF p
    <3>1. Terms(a, N, m) = [c \in Columns |-> Terms(a, N, m)[c]]
      BY DEF Terms
    <3> QED
      BY <1>4, <3>1, Zenon
  <2> HIDE DEF p
  <2> QED
    BY <2>1 DEF SumOver, SumOf
<1>6. ~empty => /\ kept(SumOf(a, D, st.m)) = SumOf(a, D, m)
                /\ \A c \in Columns :
                     kept(Terms(a, E, st.m)[c]) = Terms(a, E, m)[c]
  <2> SUFFICES ASSUME ~empty
               PROVE  /\ Rescale(SumOf(a, D, st.m), st.m, m) = SumOf(a, D, m)
                      /\ \A c \in Columns :
                           Rescale(Terms(a, E, st.m)[c], st.m, m) = Terms(a, E, m)[c]
    OBVIOUS
  <2>0. m \in 0 .. TopScore /\ m # NegInf
    BY <1>3
  <2>1. CASE D = {}
    <3>1. SumOf(a, D, m) = 0 /\ \A c \in Columns : Terms(a, E, m)[c] = 0
      BY <2>1, SumOfEmpty DEF Terms
    <3>2. \A x : Rescale(x, st.m, m) = 0
      BY <1>3, <2>0, <2>1 DEF Rescale
    <3> QED
      BY <3>1, <3>2
  <2>2. CASE D # {}
    <3>1. st.m \in 0 .. TopScore /\ st.m # NegInf
      BY <1>3, <2>2
    <3>2. \A x : Rescale(x, st.m, m) = (x * Pow2(st.m)) \div Pow2(m)
      BY <2>0, <3>1 DEF Rescale
    <3>3. PICK n \in 0 .. TopScore, k \in 0 .. TopScore : n = m /\ k = st.m
      BY <2>0, <3>1
    <3>4. PICK Q \in Nat \ {0} : Q = Pow2(n)
      BY PowPositive, Bounds
    <3>5. /\ \A c \in Columns :
               Terms(a, E, k)[c] * Pow2(k) = Q * Terms(a, E, n)[c]
          /\ SumOf(a, D, k) * Pow2(k) = Q * SumOf(a, D, n)
      BY <3>4, Rescaled
    <3>6. \A y \in Int : (Q * y) \div Q = y
      OBVIOUS
    <3>7. SumOf(a, D, n) \in Int /\ \A c \in Columns : Terms(a, E, n)[c] \in Int
      <4>1. n \in NegInf .. TopScore
        BY Bounds DEF NegInf
      <4> QED
        BY <4>1, TermsType
    <3>8. /\ (SumOf(a, D, k) * Pow2(k)) \div Q = SumOf(a, D, n)
          /\ \A c \in Columns :
               (Terms(a, E, k)[c] * Pow2(k)) \div Q = Terms(a, E, n)[c]
      BY <3>5, <3>6, <3>7
    <3> HIDE DEF m
    <3> QED
      BY <3>2, <3>3, <3>4, <3>8
  <2> QED
    BY <2>1, <2>2
<1>7. /\ SumOf(a, D \cup N, m) = SumOf(a, D, m) + SumOf(a, N, m)
      /\ \A c \in Columns : Terms(a, E \cup (N \cap V), m)[c]
           = Terms(a, E, m)[c] + Terms(a, N \cap V, m)[c]
  <2>1. PICK k \in NegInf .. TopScore : k = m
    BY <1>3
  <2>2. Disjoint(D, N) /\ Disjoint(E, N \cap V)
    BY DEF Disjoint
  <2> HIDE DEF m, p, kept, new, empty, sc
  <2>3. AddsUp(a, D, N, k)
    BY <2>2, SumOfUnion
  <2>4. AddsUp(a, E, N \cap V, k)
    BY <2>2, SumOfUnion
  <2> QED
    BY <2>1, <2>3, <2>4 DEF AddsUp
<1>8. kept(st.l) + SumOver(p, C) = SumOf(a, D \cup N, m)
  <2>1. CASE empty
    <3>1. D = {} /\ N = {} /\ D \cup N = {}
      BY <1>3, <2>1
    <3>2. SumOf(a, N, m) = 0 /\ SumOf(a, D \cup N, m) = 0
      BY <3>1, SumOfEmpty
    <3> QED
      BY <1>5, <2>1, <3>2
  <2>2. CASE ~empty
    <3>1. kept(st.l) = SumOf(a, D, m)
      BY <1>6, <1>a, <2>2
    <3> HIDE DEF kept, p, m
    <3> QED
      BY <1>5, <1>7, <3>1
  <2> QED
    BY <2>1, <2>2
<1>9. ASSUME NEW c \in Columns
      PROVE  kept(st.acc[c]) + (IF c \in V \cap C THEN p[c] ELSE 0)
               = Terms(a, E \cup (N \cap V), m)[c]
  <2>1. (IF c \in V \cap C THEN p[c] ELSE 0) = Terms(a, N \cap V, m)[c]
    <3>1. CASE c \in N
      <4>1. c \in C /\ p[c] = Terms(a, N, m)[c]
        BY <1>4, <3>1
      <4>2. Terms(a, N \cap V, m)[c] = IF c \in V THEN Terms(a, N, m)[c] ELSE 0
        BY <3>1 DEF Terms
      <4> HIDE DEF p, m
      <4> QED
        BY <4>1, <4>2
    <3>2. CASE c \notin N
      <4>1. Terms(a, N, m)[c] = 0 /\ Terms(a, N \cap V, m)[c] = 0
        BY <3>2 DEF Terms
      <4>2. c \in C => p[c] = 0
        BY <1>4, <4>1
      <4> HIDE DEF p, m
      <4> QED
        BY <4>1, <4>2
    <3> QED
      BY <3>1, <3>2
  <2>2. CASE empty
    <3>1. E = {} /\ N \cap V = {} /\ E \cup (N \cap V) = {}
      BY <1>3, <2>2
    <3>2. /\ Terms(a, N \cap V, m)[c] = 0
          /\ Terms(a, E \cup (N \cap V), m)[c] = 0
      BY <3>1 DEF Terms
    <3>3. kept(st.acc[c]) = 0
      BY <2>2
    <3> HIDE DEF kept, p, m
    <3> QED
      BY <2>1, <3>2, <3>3
  <2>3. CASE ~empty
    <3>1. kept(st.acc[c]) = Terms(a, E, m)[c]
      BY <1>6, <1>a, <2>3
    <3> HIDE DEF kept, p, m
    <3> QED
      BY <1>7, <2>1, <3>1
  <2> QED
    BY <2>2, <2>3
<1>10. [c \in Columns |-> kept(st.acc[c]) + (IF c \in V \cap C THEN p[c] ELSE 0)]
         = Terms(a, E \cup (N \cap V), m)
  <2>1. Terms(a, E \cup (N \cap V), m)
          = [c \in Columns |-> Terms(a, E \cup (N \cap V), m)[c]]
    BY DEF Terms
  <2> HIDE DEF kept, p, m
  <2> QED
    BY <1>9, <2>1, Zenon
<1> HIDE DEF kept, p, new
<1>11. new = [m |-> m, l |-> SumOf(a, D \cup N, m),
              acc |-> Terms(a, E \cup (N \cap V), m)]
  BY <1>2, <1>8, <1>10
<1> QED
  BY <1>11 DEF StateOf, new, sc

\* Pass 2: acc goes on with m final.
LEMMA FixedIs ==
  ASSUME NEW a, Scored(a), NEW E, NEW C \in SUBSET Columns,
         NEW N \in SUBSET C, Disjoint(E, N), NEW V, N \subseteq V,
         NEW m \in 0 .. TopScore, NEW l
  PROVE  FoldFixed([m |-> m, l |-> l, acc |-> Terms(a, E, m)],
                   ScoresOf(a, C, N), V)
           = [m |-> m, l |-> l, acc |-> Terms(a, E \cup N, m)]
<1> DEFINE sc == ScoresOf(a, C, N)
           st == [m |-> m, l |-> l, acc |-> Terms(a, E, m)]
<1>1. DOMAIN sc = C
  BY DEF ScoresOf
<1>2. m \in NegInf .. TopScore
  BY Bounds DEF NegInf
<1>3. ASSUME NEW c \in Columns
      PROVE  Terms(a, E, m)[c] + (IF c \in V \cap C THEN Exp(sc[c], m) ELSE 0)
               = Terms(a, E \cup N, m)[c]
  <2>1. (IF c \in V \cap C THEN Exp(sc[c], m) ELSE 0) = Terms(a, N, m)[c]
    <3>1. c \in C => Exp(sc[c], m) = Terms(a, N, m)[c]
      BY ExpIs
    <3>2. c \notin N => Terms(a, N, m)[c] = 0
      BY DEF Terms
    <3> HIDE DEF sc
    <3> QED
      BY <3>1, <3>2
  <2>2. Terms(a, E \cup N, m)[c] = Terms(a, E, m)[c] + Terms(a, N, m)[c]
    <3>1. Disjoint(E, N)
      BY DEF Disjoint
    <3> HIDE DEF sc, st
    <3>2. AddsUp(a, E, N, m)
      BY <1>2, <3>1, SumOfUnion
    <3> QED
      BY <3>2 DEF AddsUp
  <2> HIDE DEF sc
  <2> QED
    BY <2>1, <2>2
<1>4. [c \in Columns |->
         Terms(a, E, m)[c] + (IF c \in V \cap C THEN Exp(sc[c], m) ELSE 0)]
        = Terms(a, E \cup N, m)
  <2>1. Terms(a, E \cup N, m) = [c \in Columns |-> Terms(a, E \cup N, m)[c]]
    BY DEF Terms
  <2> HIDE DEF sc
  <2> QED
    BY <1>3, <2>1, Zenon
<1>5. FoldFixed(st, sc, V) =
        [st EXCEPT !.acc = [c \in Columns |-> Terms(a, E, m)[c] +
           (IF c \in V \cap C THEN Exp(sc[c], m) ELSE 0)]]
  <2>1. st.m = m /\ st.acc = Terms(a, E, m)
    OBVIOUS
  <2> HIDE DEF sc, st
  <2> QED
    BY <1>1, <2>1 DEF FoldFixed
<1>6. \A A : [st EXCEPT !.acc = A] = [m |-> m, l |-> l, acc |-> A]
  OBVIOUS
<1> HIDE DEF sc
<1> QED
  BY <1>4, <1>5, <1>6 DEF sc

-----------------------------------------------------------------------------
(* The tiles of a chunk *)

LEMMA DivMod ==
  ASSUME NEW x \in Int, NEW n \in Nat \ {0}
  PROVE  /\ x \div n \in Int /\ x % n \in 0 .. n - 1
         /\ x = n * (x \div n) + (x % n)
  OBVIOUS

\* Quotients by their bounds.
LEMMA DivIs ==
  ASSUME NEW x \in Int, NEW n \in Nat \ {0}, NEW q \in Int
  PROVE  x \div n = q <=> n * q <= x /\ x < n * (q + 1)
<1>1. PICK d \in Int, r \in 0 .. n - 1 : d = x \div n /\ x = n * d + r
  BY DivMod
<1>2. n * (q + 1) = n * q + n
  OBVIOUS
<1>3. CASE d = q
  <2>1. PICK y \in Int : y = n * d
    OBVIOUS
  <2> QED
    BY <1>1, <1>2, <1>3, <2>1
<1>4. CASE d < q
  <2>1. PICK k \in Nat : q = d + 1 + k
    <3>1. q - d - 1 \in Nat /\ q = d + 1 + (q - d - 1)
      BY <1>4
    <3> QED
      BY <3>1
  <2>2. n * q = n * d + n + n * k
    BY ONLY <2>1, n \in Nat \ {0}, d \in Int, k \in Nat
  <2>3. PICK y \in Int, z \in Nat : y = n * d /\ z = n * k
    OBVIOUS
  <2>4. x < n * q
    BY <1>1, <2>2, <2>3
  <2>5. d # q
    BY <1>4
  <2> QED
    BY <1>1, <2>3, <2>2, <2>4, <2>5
<1>5. CASE d > q
  <2>1. PICK k \in Nat : d = q + 1 + k
    <3>1. d - q - 1 \in Nat /\ d = q + 1 + (d - q - 1)
      BY <1>5
    <3> QED
      BY <3>1
  <2>2. n * d = n * (q + 1) + n * k
    BY ONLY <2>1, n \in Nat \ {0}, q \in Int, k \in Nat
  <2>3. PICK y \in Int, z \in Nat : y = n * (q + 1) /\ z = n * k
    OBVIOUS
  <2>4. x >= n * (q + 1)
    BY <1>1, <2>2, <2>3
  <2>5. d # q
    BY <1>5
  <2> QED
    BY <1>1, <2>3, <2>4, <2>5
<1> QED
  BY <1>3, <1>4, <1>5

\* (x + n - 1) \div n pieces of length n start below x.
LEMMA Ceil ==
  ASSUME NEW x \in Nat, NEW n \in Nat \ {0}
  PROVE  /\ (x + n - 1) \div n \in Nat
         /\ \A i \in Nat : i < (x + n - 1) \div n <=> n * i < x
<1>1. PICK k \in Int, r \in 0 .. n - 1 :
        k = (x + n - 1) \div n /\ x + n - 1 = n * k + r
  BY DivMod, x + n - 1 \in Int
<1>2. k >= 0
  <2>1. CASE k < 0
    <3>1. PICK j \in Nat : k = -1 - j
      <4>1. -1 - k \in Nat /\ k = -1 - (-1 - k)
        BY <2>1
      <4> QED
        BY <4>1
    <3>2. n * k = -n - n * j
      BY ONLY <3>1, n \in Nat \ {0}, j \in Nat
    <3>3. PICK z \in Nat : z = n * j
      OBVIOUS
    <3> QED
      BY <1>1, <3>2, <3>3
  <2> QED
    BY <2>1
<1>3. ASSUME NEW i \in Nat
      PROVE  i < k <=> n * i < x
  <2>1. CASE i < k
    <3>1. PICK j \in Nat : k = i + 1 + j
      <4>1. k - i - 1 \in Nat /\ k = i + 1 + (k - i - 1)
        BY <2>1
      <4> QED
        BY <4>1
    <3>2. n * k = n * i + n + n * j
      BY ONLY <3>1, n \in Nat \ {0}, i \in Nat, j \in Nat
    <3>3. PICK y \in Int, z \in Nat : y = n * i /\ z = n * j
      OBVIOUS
    <3> QED
      BY <1>1, <2>1, <3>2, <3>3
  <2>2. CASE i >= k
    <3>1. PICK j \in Nat : i = k + j
      <4>1. i - k \in Nat /\ i = k + (i - k)
        BY <2>2
      <4> QED
        BY <4>1
    <3>2. n * i = n * k + n * j
      BY ONLY <3>1, n \in Nat \ {0}, k \in Int, j \in Nat
    <3>3. PICK y \in Int, z \in Nat : y = n * k /\ z = n * j
      OBVIOUS
    <3> QED
      BY <1>1, <2>2, <3>2, <3>3
  <2> QED
    BY <2>1, <2>2
<1> QED
  BY <1>1, <1>2, <1>3

\* The columns of the first i tiles.
Upto(lo, hi, n, i) == {c \in lo .. hi : c < lo + n * i}

LEMMA TilesAre ==
  ASSUME NEW lo \in Nat, NEW hi \in Nat, lo <= hi, NEW n \in Nat \ {0}
  PROVE  /\ NumTiles(lo .. hi, n) \in Nat
         /\ Upto(lo, hi, n, 0) = {}
         /\ Upto(lo, hi, n, NumTiles(lo .. hi, n)) = lo .. hi
         /\ \A i \in 1 .. NumTiles(lo .. hi, n) :
              /\ TileOf(lo .. hi, n, i) =
                   {c \in lo .. hi : lo + n * (i - 1) <= c /\ c < lo + n * i}
              /\ TileOf(lo .. hi, n, i) # {}
              /\ Upto(lo, hi, n, i) =
                   Upto(lo, hi, n, i - 1) \cup TileOf(lo .. hi, n, i)
              /\ Disjoint(Upto(lo, hi, n, i - 1), TileOf(lo .. hi, n, i))
<1> DEFINE K == NumTiles(lo .. hi, n)
<1>1. K = ((hi - lo + 1) + n - 1) \div n
  <2>1. Cardinality(lo .. hi) = hi - lo + 1
    BY FS_Interval, lo \in Int, hi \in Int
  <2> QED
    BY <2>1 DEF NumTiles
<1>2. K \in Nat /\ \A i \in Nat : i < K <=> n * i < hi - lo + 1
  BY <1>1, Ceil, hi - lo + 1 \in Nat
<1> HIDE DEF K
<1>3. Min(lo .. hi) = lo
  BY DEF Min
<1>4. Upto(lo, hi, n, 0) = {}
  <2>1. n * 0 = 0
    OBVIOUS
  <2> QED
    BY <2>1 DEF Upto
<1>5. Upto(lo, hi, n, K) = lo .. hi
  <2>1. n * K >= hi - lo + 1
    <3>1. n * K \in Int
      BY <1>2
    <3> QED
      BY <1>2, <3>1
  <2>2. PICK y \in Int : y = n * K
    BY <1>2
  <2> QED
    BY <2>1, <2>2 DEF Upto
<1>6. ASSUME NEW i \in 1 .. K
      PROVE  /\ TileOf(lo .. hi, n, i) =
                  {c \in lo .. hi : lo + n * (i - 1) <= c /\ c < lo + n * i}
             /\ TileOf(lo .. hi, n, i) # {}
             /\ Upto(lo, hi, n, i) =
                  Upto(lo, hi, n, i - 1) \cup TileOf(lo .. hi, n, i)
             /\ Disjoint(Upto(lo, hi, n, i - 1), TileOf(lo .. hi, n, i))
  <2>1. i \in Nat /\ i - 1 \in Nat /\ i - 1 < K
    BY <1>2
  <2>2. PICK y \in Nat : y = n * (i - 1)
    BY <2>1
  <2>3. n * i = y + n
    <3>1. n * i = n * (i - 1) + n
      BY <2>1
    <3> QED
      BY <2>2, <3>1
  <2>4. ASSUME NEW c \in lo .. hi
        PROVE  (c - lo) \div n = i - 1 <=> lo + y <= c /\ c < lo + (y + n)
    <3>1. (c - lo) \div n = i - 1 <=> n * (i - 1) <= c - lo /\ c - lo < n * ((i - 1) + 1)
      BY <2>1, DivIs, c - lo \in Int
    <3>2. n * ((i - 1) + 1) = y + n
      BY <2>1, <2>3
    <3> QED
      BY <2>2, <3>1, <3>2
  <2>5. TileOf(lo .. hi, n, i) = {c \in lo .. hi : lo + y <= c /\ c < lo + (y + n)}
    BY <1>3, <2>4 DEF TileOf
  <2>6. lo + y <= hi
    BY <1>2, <2>1, <2>2
  <2>7. lo + y \in TileOf(lo .. hi, n, i)
    BY <2>5, <2>6
  <2>8. /\ Upto(lo, hi, n, i - 1) = {c \in lo .. hi : c < lo + y}
        /\ Upto(lo, hi, n, i) = {c \in lo .. hi : c < lo + (y + n)}
    BY <2>2, <2>3 DEF Upto
  <2>9. Disjoint(Upto(lo, hi, n, i - 1), TileOf(lo .. hi, n, i))
    BY <2>5, <2>8 DEF Disjoint
  <2>10. Upto(lo, hi, n, i) = Upto(lo, hi, n, i - 1) \cup TileOf(lo .. hi, n, i)
    BY <2>5, <2>8
  <2> QED
    BY <2>2, <2>3, <2>5, <2>7, <2>9, <2>10
<1> QED
  BY <1>2, <1>4, <1>5, <1>6 DEF K

-----------------------------------------------------------------------------
(* The loops of the kernels *)

\* The states of OnlineLoop over the tiles of a chunk.
OnlineRuns(s, st, sc, n, V, guarded) ==
  s = [i \in 0 .. NumTiles(DOMAIN sc, n) |->
         IF i = 0 THEN st
         ELSE Online(s[i - 1], Restrict(sc, TileOf(DOMAIN sc, n, i)), V, guarded)]

LEMMA OnlineLoopIs ==
  ASSUME NEW a, Scored(a), NEW D \in SUBSET Columns, NEW E \in SUBSET D,
         NEW lo \in Nat, NEW hi \in Nat, lo <= hi, lo .. hi \subseteq Columns,
         NEW N \in SUBSET (lo .. hi), Disjoint(D, N), NEW V,
         NEW n \in Nat \ {0},
         NEW guarded \in BOOLEAN, guarded \/ N = lo .. hi
  PROVE  OnlineLoop(StateOf(a, D, E), ScoresOf(a, lo .. hi, N), n, V, guarded)
           = StateOf(a, D \cup N, E \cup (N \cap V))
<1> DEFINE sc == ScoresOf(a, lo .. hi, N)
           K == NumTiles(lo .. hi, n)
           Tile(i) == TileOf(lo .. hi, n, i)
           Up(i) == N \cap Upto(lo, hi, n, i)
           At(i) == StateOf(a, D \cup Up(i), E \cup (Up(i) \cap V))
<1>1. DOMAIN sc = lo .. hi
  BY DEF ScoresOf
<1>2. /\ K \in Nat /\ Up(0) = {} /\ Up(K) = N
      /\ \A i \in 1 .. K :
           /\ Tile(i) \in SUBSET (lo .. hi) /\ Tile(i) # {}
           /\ Up(i) = Up(i - 1) \cup (N \cap Tile(i))
           /\ Up(i - 1) \cap Tile(i) = {} /\ Up(i - 1) \subseteq N
  <2>1. /\ K \in Nat /\ Upto(lo, hi, n, 0) = {} /\ Upto(lo, hi, n, K) = lo .. hi
        /\ \A i \in 1 .. K :
             /\ Tile(i) = {c \in lo .. hi : lo + n * (i - 1) <= c /\ c < lo + n * i}
             /\ Tile(i) # {}
             /\ Upto(lo, hi, n, i) = Upto(lo, hi, n, i - 1) \cup Tile(i)
             /\ Disjoint(Upto(lo, hi, n, i - 1), Tile(i))
    BY TilesAre
  <2>2. ASSUME NEW i \in 1 .. K
        PROVE  /\ Tile(i) \in SUBSET (lo .. hi) /\ Tile(i) # {}
               /\ Up(i) = Up(i - 1) \cup (N \cap Tile(i))
               /\ Up(i - 1) \cap Tile(i) = {} /\ Up(i - 1) \subseteq N
    <3>1. /\ Tile(i) = {c \in lo .. hi : lo + n * (i - 1) <= c /\ c < lo + n * i}
          /\ Tile(i) # {}
          /\ Upto(lo, hi, n, i) = Upto(lo, hi, n, i - 1) \cup Tile(i)
          /\ Disjoint(Upto(lo, hi, n, i - 1), Tile(i))
      BY <2>1
    <3>2. Tile(i) \in SUBSET (lo .. hi)
      BY <3>1
    <3> HIDE DEF Tile
    <3> QED
      BY <3>1, <3>2 DEF Disjoint
  <2> HIDE DEF Tile, K
  <2> QED
    BY <2>1, <2>2
<1>3. ASSUME NEW i \in 1 .. K
      PROVE  Online(At(i - 1), Restrict(sc, Tile(i)), V, guarded) = At(i)
  <2>1. PICK C, D1, E1 : C = Tile(i) /\ D1 = Up(i - 1) /\ E1 = Up(i)
    OBVIOUS
  <2>2. /\ C \in SUBSET (lo .. hi) /\ C # {} /\ E1 = D1 \cup (N \cap C)
        /\ D1 \cap C = {} /\ D1 \subseteq N
    <3> HIDE DEF K, Tile, Up
    <3> QED
      BY <1>2, <2>1
  <2>3. Restrict(sc, C) = ScoresOf(a, C, N \cap C)
    BY <2>2 DEF Restrict, ScoresOf
  <2>4. PICK D2, E2, N2 : /\ D2 = D \cup D1 /\ E2 = E \cup (D1 \cap V)
                          /\ N2 = N \cap C
    OBVIOUS
  <2>5. /\ D2 \in SUBSET Columns /\ E2 \in SUBSET D2 /\ C \in SUBSET Columns
        /\ N2 \in SUBSET C /\ Disjoint(D2, N2) /\ (guarded \/ N2 # {})
        /\ D2 \cup N2 = D \cup E1
        /\ E2 \cup (N2 \cap V) = E \cup (E1 \cap V)
    BY <2>2, <2>4 DEF Disjoint
  <2>6. Online(StateOf(a, D2, E2), ScoresOf(a, C, N2), V, guarded)
          = StateOf(a, D2 \cup N2, E2 \cup (N2 \cap V))
    BY <2>5, OnlineIs
  <2> HIDE DEF Tile, Up, sc
  <2> QED
    BY <2>1, <2>3, <2>4, <2>5, <2>6
<1>4. OnlineRuns([i \in 0 .. K |-> At(i)], At(0), sc, n, V, guarded)
  <2>1. PICK s : s = [i \in 0 .. K |-> At(i)]
    OBVIOUS
  <2>2. ASSUME NEW i \in 0 .. K
        PROVE  s[i] = IF i = 0 THEN At(0)
                      ELSE Online(s[i - 1], Restrict(sc, Tile(i)), V, guarded)
    <3>1. CASE i = 0
      BY <2>1, <3>1
    <3>2. CASE i # 0
      <4>1. i \in 1 .. K /\ i - 1 \in 0 .. K
        BY <1>2, <3>2
      <4>2. s[i] = At(i) /\ s[i - 1] = At(i - 1)
        BY <2>1, <4>1
      <4> HIDE DEF At, K, sc, Tile
      <4> QED
        BY <1>3, <3>2, <4>1, <4>2
    <3> QED
      BY <3>1, <3>2
  <2>3. s = [i \in 0 .. K |-> s[i]]
    BY <2>1
  <2> HIDE DEF At, sc
  <2>4. s = [i \in 0 .. K |-> IF i = 0 THEN At(0)
               ELSE Online(s[i - 1], Restrict(sc, Tile(i)), V, guarded)]
    <3> HIDE DEF K, Tile
    <3> QED
      BY <2>2, <2>3, Zenon
  <2> QED
    BY <1>1, <2>1, <2>4 DEF OnlineRuns
<1> DEFINE s == CHOOSE s : OnlineRuns(s, At(0), sc, n, V, guarded)
<1>5. OnlineRuns(s, At(0), sc, n, V, guarded)
  <2> HIDE DEF At, sc, K
  <2> QED
    BY <1>4
<1>6. At(0) = StateOf(a, D, E)
  <2> PICK U : U = Up(0)
    OBVIOUS
  <2>1. U = {}
    <3> HIDE DEF Up, K, Tile
    <3> QED
      BY <1>2
  <2>2. D \cup U = D /\ E \cup (U \cap V) = E
    BY <2>1
  <2> QED
    BY <2>2
<1>7. OnlineLoop(StateOf(a, D, E), sc, n, V, guarded) = s[K]
  <2> HIDE DEF At, sc
  <2> QED
    BY <1>1, <1>6, Zenon DEF OnlineLoop, OnlineRuns
<1> HIDE DEF s, At, sc, Tile, K, Up
<1>8. /\ s[0] = At(0)
      /\ \A i \in 1 .. K : s[i] = Online(s[i - 1], Restrict(sc, Tile(i)), V, guarded)
  <2>1. s = [i \in 0 .. K |-> IF i = 0 THEN At(0)
               ELSE Online(s[i - 1], Restrict(sc, Tile(i)), V, guarded)]
    BY <1>1, <1>5 DEF OnlineRuns, K, Tile
  <2>2. 0 \in 0 .. K /\ \A i \in 1 .. K : i \in 0 .. K /\ i # 0
    BY <1>2
  <2> QED
    BY <2>1, <2>2
<1> DEFINE Bad == {i \in 0 .. K : s[i] # At(i)}
<1>9. CASE Bad # {}
  <2>1. PICK i \in Bad : \A j \in Bad : i <= j
    <3>1. Bad \in SUBSET Nat
      OBVIOUS
    <3> HIDE DEF Bad
    <3> QED
      BY <1>9, <3>1, NatMin
  <2>2. i # 0
    BY <1>8
  <2>3. i \in 1 .. K /\ i - 1 \in 0 .. K /\ i - 1 \notin Bad
    BY <1>2, <2>1, <2>2
  <2>4. s[i - 1] = At(i - 1)
    BY <2>3
  <2> QED
    BY <1>3, <1>8, <2>3, <2>4
<1>10. CASE Bad = {}
  <2>1. K \in 0 .. K
    BY <1>2
  <2>2. s[K] = At(K)
    BY <1>10, <2>1
  <2>3. At(K) = StateOf(a, D \cup N, E \cup (N \cap V))
    BY <1>2 DEF At
  <2> QED
    BY <1>7, <2>2, <2>3 DEF sc
<1> QED
  BY <1>9, <1>10

\* Without scores, as for a row that is not active, there is no tile.
LEMMA OnlineLoopNone ==
  ASSUME NEW st, NEW sc, DOMAIN sc = {}, NEW n \in Nat \ {0}, NEW V, NEW guarded
  PROVE  OnlineLoop(st, sc, n, V, guarded) = st
<1>1. NumTiles(DOMAIN sc, n) = 0
  <2>1. Cardinality(DOMAIN sc) = 0
    BY FS_EmptySet
  <2>2. (0 + n - 1) \div n = 0
    BY DivIs, 0 + n - 1 \in Int, n * 0 = 0, n * (0 + 1) = n
  <2> QED
    BY <2>1, <2>2 DEF NumTiles
<1>2. OnlineRuns([i \in 0 .. 0 |-> st], st, sc, n, V, guarded)
  BY <1>1 DEF OnlineRuns
<1> DEFINE s == CHOOSE s : OnlineRuns(s, st, sc, n, V, guarded)
<1>3. OnlineRuns(s, st, sc, n, V, guarded)
  BY <1>2
<1>4. OnlineLoop(st, sc, n, V, guarded) = s[0]
  BY <1>1, Zenon DEF OnlineLoop, OnlineRuns
<1> HIDE DEF s
<1> QED
  BY <1>1, <1>3, <1>4 DEF OnlineRuns

\* The states of FixedLoop over the tiles of a chunk.
FixedRuns(s, st, sc, n, V) ==
  s = [i \in 0 .. NumTiles(DOMAIN sc, n) |->
         IF i = 0 THEN st
         ELSE FoldFixed(s[i - 1], Restrict(sc, TileOf(DOMAIN sc, n, i)), V)]

LEMMA FixedLoopIs ==
  ASSUME NEW a, Scored(a), NEW D \in SUBSET Columns, D # {}, NEW E,
         NEW lo \in Nat, NEW hi \in Nat, lo <= hi, lo .. hi \subseteq Columns,
         NEW N \in SUBSET (lo .. hi), Disjoint(E, N), NEW V, N \subseteq V,
         NEW n \in Nat \ {0}
  PROVE  FixedLoop(StateOf(a, D, E), ScoresOf(a, lo .. hi, N), n, V)
           = StateOf(a, D, E \cup N)
<1> DEFINE sc == ScoresOf(a, lo .. hi, N)
           K == NumTiles(lo .. hi, n)
           Tile(i) == TileOf(lo .. hi, n, i)
           Up(i) == N \cap Upto(lo, hi, n, i)
           At(i) == StateOf(a, D, E \cup Up(i))
<1>1. DOMAIN sc = lo .. hi
  BY DEF ScoresOf
<1>2. /\ K \in Nat /\ Up(0) = {} /\ Up(K) = N
      /\ \A i \in 1 .. K :
           /\ Tile(i) \in SUBSET (lo .. hi) /\ Tile(i) # {}
           /\ Up(i) = Up(i - 1) \cup (N \cap Tile(i))
           /\ Up(i - 1) \cap Tile(i) = {} /\ Up(i - 1) \subseteq N
  <2>1. /\ K \in Nat /\ Upto(lo, hi, n, 0) = {} /\ Upto(lo, hi, n, K) = lo .. hi
        /\ \A i \in 1 .. K :
             /\ Tile(i) = {c \in lo .. hi : lo + n * (i - 1) <= c /\ c < lo + n * i}
             /\ Tile(i) # {}
             /\ Upto(lo, hi, n, i) = Upto(lo, hi, n, i - 1) \cup Tile(i)
             /\ Disjoint(Upto(lo, hi, n, i - 1), Tile(i))
    BY TilesAre
  <2>2. ASSUME NEW i \in 1 .. K
        PROVE  /\ Tile(i) \in SUBSET (lo .. hi) /\ Tile(i) # {}
               /\ Up(i) = Up(i - 1) \cup (N \cap Tile(i))
               /\ Up(i - 1) \cap Tile(i) = {} /\ Up(i - 1) \subseteq N
    <3>1. /\ Tile(i) = {c \in lo .. hi : lo + n * (i - 1) <= c /\ c < lo + n * i}
          /\ Tile(i) # {}
          /\ Upto(lo, hi, n, i) = Upto(lo, hi, n, i - 1) \cup Tile(i)
          /\ Disjoint(Upto(lo, hi, n, i - 1), Tile(i))
      BY <2>1
    <3>2. Tile(i) \in SUBSET (lo .. hi)
      BY <3>1
    <3> HIDE DEF Tile
    <3> QED
      BY <3>1, <3>2 DEF Disjoint
  <2> HIDE DEF Tile, K
  <2> QED
    BY <2>1, <2>2
<1>3. ASSUME NEW i \in 1 .. K
      PROVE  FoldFixed(At(i - 1), Restrict(sc, Tile(i)), V) = At(i)
  <2>1. PICK C, D1, E1 : C = Tile(i) /\ D1 = Up(i - 1) /\ E1 = Up(i)
    OBVIOUS
  <2>2. /\ C \in SUBSET (lo .. hi) /\ C # {} /\ E1 = D1 \cup (N \cap C)
        /\ D1 \cap C = {} /\ D1 \subseteq N
    <3> HIDE DEF K, Tile, Up
    <3> QED
      BY <1>2, <2>1
  <2>3. Restrict(sc, C) = ScoresOf(a, C, N \cap C)
    BY <2>2 DEF Restrict, ScoresOf
  <2>4. PICK E2, N2 : E2 = E \cup D1 /\ N2 = N \cap C
    OBVIOUS
  <2>5. /\ C \in SUBSET Columns /\ N2 \in SUBSET C /\ Disjoint(E2, N2)
        /\ N2 \subseteq V /\ E2 \cup N2 = E \cup E1
    BY <2>2, <2>4 DEF Disjoint
  <2>6. PICK m \in 0 .. TopScore : m = MaxOf(a, D)
    BY MaxOfIs
  <2>7. PICK l : l = SumOf(a, D, m)
    OBVIOUS
  <2>8. FoldFixed([m |-> m, l |-> l, acc |-> Terms(a, E2, m)],
                  ScoresOf(a, C, N2), V)
          = [m |-> m, l |-> l, acc |-> Terms(a, E2 \cup N2, m)]
    BY <2>5, FixedIs
  <2>9. FoldFixed(StateOf(a, D, E2), ScoresOf(a, C, N2), V)
          = StateOf(a, D, E2 \cup N2)
    BY <2>6, <2>7, <2>8 DEF StateOf
  <2> HIDE DEF Tile, Up, sc
  <2> QED
    BY <2>1, <2>3, <2>4, <2>5, <2>9
<1>4. FixedRuns([i \in 0 .. K |-> At(i)], At(0), sc, n, V)
  <2>1. PICK s : s = [i \in 0 .. K |-> At(i)]
    OBVIOUS
  <2>2. ASSUME NEW i \in 0 .. K
        PROVE  s[i] = IF i = 0 THEN At(0)
                      ELSE FoldFixed(s[i - 1], Restrict(sc, Tile(i)), V)
    <3>1. CASE i = 0
      BY <2>1, <3>1
    <3>2. CASE i # 0
      <4>1. i \in 1 .. K /\ i - 1 \in 0 .. K
        BY <1>2, <3>2
      <4>2. s[i] = At(i) /\ s[i - 1] = At(i - 1)
        BY <2>1, <4>1
      <4> HIDE DEF At, K, sc, Tile
      <4> QED
        BY <1>3, <3>2, <4>1, <4>2
    <3> QED
      BY <3>1, <3>2
  <2>3. s = [i \in 0 .. K |-> s[i]]
    BY <2>1
  <2> HIDE DEF At, sc
  <2>4. s = [i \in 0 .. K |-> IF i = 0 THEN At(0)
               ELSE FoldFixed(s[i - 1], Restrict(sc, Tile(i)), V)]
    <3> HIDE DEF K, Tile
    <3> QED
      BY <2>2, <2>3, Zenon
  <2> QED
    BY <1>1, <2>1, <2>4 DEF FixedRuns
<1> DEFINE s == CHOOSE s : FixedRuns(s, At(0), sc, n, V)
<1>5. FixedRuns(s, At(0), sc, n, V)
  <2> HIDE DEF At, sc, K
  <2> QED
    BY <1>4
<1>6. At(0) = StateOf(a, D, E)
  <2> PICK U : U = Up(0)
    OBVIOUS
  <2>1. U = {}
    <3> HIDE DEF Up, K, Tile
    <3> QED
      BY <1>2
  <2>2. E \cup U = E
    BY <2>1
  <2> QED
    BY <2>2
<1>7. FixedLoop(StateOf(a, D, E), sc, n, V) = s[K]
  <2> HIDE DEF At, sc
  <2> QED
    BY <1>1, <1>6, Zenon DEF FixedLoop, FixedRuns
<1> HIDE DEF s, At, sc, Tile, K, Up
<1>8. /\ s[0] = At(0)
      /\ \A i \in 1 .. K : s[i] = FoldFixed(s[i - 1], Restrict(sc, Tile(i)), V)
  <2>1. s = [i \in 0 .. K |-> IF i = 0 THEN At(0)
               ELSE FoldFixed(s[i - 1], Restrict(sc, Tile(i)), V)]
    BY <1>1, <1>5 DEF FixedRuns, K, Tile
  <2>2. 0 \in 0 .. K /\ \A i \in 1 .. K : i \in 0 .. K /\ i # 0
    BY <1>2
  <2> QED
    BY <2>1, <2>2
<1> DEFINE Bad == {i \in 0 .. K : s[i] # At(i)}
<1>9. CASE Bad # {}
  <2>1. PICK i \in Bad : \A j \in Bad : i <= j
    <3>1. Bad \in SUBSET Nat
      OBVIOUS
    <3> HIDE DEF Bad
    <3> QED
      BY <1>9, <3>1, NatMin
  <2>2. i # 0
    BY <1>8
  <2>3. i \in 1 .. K /\ i - 1 \in 0 .. K /\ i - 1 \notin Bad
    BY <1>2, <2>1, <2>2
  <2>4. s[i - 1] = At(i - 1)
    BY <2>3
  <2> QED
    BY <1>3, <1>8, <2>3, <2>4
<1>10. CASE Bad = {}
  <2>1. K \in 0 .. K
    BY <1>2
  <2>2. s[K] = At(K)
    BY <1>10, <2>1
  <2>3. At(K) = StateOf(a, D, E \cup N)
    BY <1>2 DEF At
  <2> QED
    BY <1>7, <2>2, <2>3 DEF sc
<1> QED
  BY <1>9, <1>10

\* Without scores, as for a row that is not active, there is no tile.
LEMMA FixedLoopNone ==
  ASSUME NEW st, NEW sc, DOMAIN sc = {}, NEW n \in Nat \ {0}, NEW V
  PROVE  FixedLoop(st, sc, n, V) = st
<1>1. NumTiles(DOMAIN sc, n) = 0
  <2>1. Cardinality(DOMAIN sc) = 0
    BY FS_EmptySet
  <2>2. (0 + n - 1) \div n = 0
    BY DivIs, 0 + n - 1 \in Int, n * 0 = 0, n * (0 + 1) = n
  <2> QED
    BY <2>1, <2>2 DEF NumTiles
<1>2. FixedRuns([i \in 0 .. 0 |-> st], st, sc, n, V)
  BY <1>1 DEF FixedRuns
<1> DEFINE s == CHOOSE s : FixedRuns(s, st, sc, n, V)
<1>3. FixedRuns(s, st, sc, n, V)
  BY <1>2
<1>4. FixedLoop(st, sc, n, V) = s[0]
  BY <1>1, Zenon DEF FixedLoop, FixedRuns
<1> HIDE DEF s
<1> QED
  BY <1>1, <1>3, <1>4 DEF FixedRuns

\* A first pass keeps m and l of the fold, and acc is still empty.
LEMMA StatsIs ==
  ASSUME NEW a, NEW D, NEW D2
  PROVE  Stats(StateOf(a, D, {}), StateOf(a, D2, {})) = StateOf(a, D2, {})
<1>1. PICK st, new : st = StateOf(a, D, {}) /\ new = StateOf(a, D2, {})
  OBVIOUS
<1>2. st.acc = new.acc
  <2>1. st.acc = Terms(a, {}, MaxOf(a, D)) /\ new.acc = Terms(a, {}, MaxOf(a, D2))
    BY <1>1 DEF StateOf
  <2> QED
    BY <2>1 DEF Terms
<1>3. /\ st = [m |-> st.m, l |-> st.l, acc |-> st.acc]
      /\ new = [m |-> new.m, l |-> new.l, acc |-> new.acc]
  BY <1>1 DEF StateOf
<1>4. PICK x, y, u, v, w : /\ x = st.m /\ y = st.l /\ w = st.acc
                           /\ u = new.m /\ v = new.l
  OBVIOUS
<1>5. /\ st = [m |-> x, l |-> y, acc |-> w] /\ new = [m |-> u, l |-> v, acc |-> w]
      /\ u = new.m /\ v = new.l
  BY <1>2, <1>3, <1>4
<1>6. [st EXCEPT !.m = u] = [m |-> u, l |-> y, acc |-> w]
  BY ONLY <1>5
<1>7. PICK s2 : s2 = [st EXCEPT !.m = u]
  OBVIOUS
<1>8. [s2 EXCEPT !.l = v] = [m |-> u, l |-> v, acc |-> w]
  <2>1. s2 = [m |-> u, l |-> y, acc |-> w]
    BY ONLY <1>6, <1>7
  <2> QED
    BY ONLY <2>1
<1>9. [st EXCEPT !.m = u, !.l = v] = [s2 EXCEPT !.l = v]
  BY ONLY <1>7
<1> QED
  BY <1>1, <1>5, <1>8, <1>9 DEF Stats

LEMMA SumOverIs ==
  ASSUME NEW a, NEW M, NEW m, NEW f, NEW S,
         \A c \in Columns : (IF c \in S THEN f[c] ELSE 0) = Terms(a, M, m)[c]
  PROVE  SumOver(f, S) = SumOf(a, M, m)
<1>1. Terms(a, M, m) = [c \in Columns |-> Terms(a, M, m)[c]]
  BY DEF Terms
<1>2. [c \in Columns |-> IF c \in S THEN f[c] ELSE 0] = Terms(a, M, m)
  BY <1>1, Zenon
<1> QED
  BY <1>2 DEF SumOver, SumOf

LEMMA TileMass ==
  ASSUME NEW a, Scored(a), NEW C \in SUBSET Columns, NEW N \in SUBSET C,
         NEW m \in 0 .. TopScore, NEW S \in SUBSET C
  PROVE  SumOver([c \in C |-> Exp(ScoresOf(a, C, N)[c], m)], S)
           = SumOf(a, N \cap S, m)
<1> DEFINE f == [c \in C |-> Exp(ScoresOf(a, C, N)[c], m)]
<1>1. ASSUME NEW c \in Columns
      PROVE  (IF c \in S THEN f[c] ELSE 0) = Terms(a, N \cap S, m)[c]
  <2>1. CASE c \in S
    <3>1. f[c] = Exp(ScoresOf(a, C, N)[c], m) /\ c \in C
      BY <2>1
    <3>2. Exp(ScoresOf(a, C, N)[c], m) = Terms(a, N, m)[c]
      BY <3>1, ExpIs
    <3>3. Terms(a, N \cap S, m)[c] = Terms(a, N, m)[c]
      BY <2>1 DEF Terms
    <3> HIDE DEF f
    <3> QED
      BY <2>1, <3>1, <3>2, <3>3
  <2>2. CASE c \notin S
    <3>1. Terms(a, N \cap S, m)[c] = 0
      BY <2>2 DEF Terms
    <3> QED
      BY <2>2, <3>1
  <2> QED
    BY <2>1, <2>2
<1> HIDE DEF f
<1>2. SumOver(f, S) = SumOf(a, N \cap S, m)
  BY <1>1, SumOverIs
<1> QED
  BY <1>2 DEF f

-----------------------------------------------------------------------------
(* The inductive invariant                                                 *)

\* The launches that fold m and l, and those that fold acc in a second pass.
Sum1 == {"step", "stats", "one_shot"}
Sum2 == {"accumulate", "fold"}
ColsOf(L, K) == IF L.kernel \in K THEN L.cols ELSE {}

InputOK == in \in {i \in Inputs : Possible(i)}

\* The program of an address, and the rows the programs work for.
Prog(a) == IF Tiled THEN a \div NRep ELSE IF PerHead THEN a ELSE 0
Grid == IF Tiled THEN RowIds ELSE {0}

\* The columns a call feeds, and those of them that count for a row.
Planned ==
  IF in.mode = "one_layer" THEN (0 .. Full - 1) \cup {Total - 1}
  ELSE 0 .. Total - 1
Fed(a) == {c \in Planned : Valid(a \div H, c)}

\* A sequence of launches: its columns, each in one launch only, and the
\* second pass after the first.
CoverOf(s, K) == UNION {ColsOf(s[i], K) : i \in DOMAIN s}
Apart(s, K) ==
  \A i, j \in DOMAIN s : i # j => Disjoint(ColsOf(s[i], K), ColsOf(s[j], K))
Ordered(s) ==
  \A i, j \in DOMAIN s : i < j /\ s[j].kernel \in Sum1 => s[i].kernel \in Sum1

\* One launch: a kernel of the mode, an interval of columns, whole blocks
\* where it hands out their mass, and no valid column of an inactive row.
Launches == [kernel : Sum1 \cup Sum2, cols : SUBSET Columns,
             active : SUBSET RowIds, block : Nat]
BlockCols(k) == k * TokensPerBlock .. (k + 1) * TokensPerBlock - 1
Whole(cols) ==
  \A k \in 0 .. NumBlocks - 1 :
    BlockCols(k) \subseteq cols \/ Disjoint(BlockCols(k), cols)
KernelOK(L) ==
  /\ L.kernel \in IF in.twoPass THEN {"stats", "accumulate", "fold"}
                  ELSE {"step", "one_shot"}
  /\ L.kernel = "fold" => Tiled /\ Disjoint(0 .. Full - 1, L.cols)
  /\ L.kernel = "one_shot" => PerHead /\ L.cols = Planned
ColumnsOK(L) ==
  \E lo \in Nat, hi \in Nat :
    /\ lo <= hi /\ L.cols = lo .. hi /\ L.cols \subseteq Planned
    /\ L.kernel = "accumulate" =>
         lo = L.block * TokensPerBlock /\ Whole(L.cols)
ActiveOK(L) == \A b \in Grid \ L.active : \A c \in L.cols : ~Valid(b, c)
LaunchOK(L) == L \in Launches /\ KernelOK(L) /\ ColumnsOK(L) /\ ActiveOK(L)

Queued(s) ==
  /\ s \in Seq(Launches) /\ \A i \in DOMAIN s : LaunchOK(s[i])
  /\ Apart(s, Sum1) /\ Apart(s, Sum2) /\ Ordered(s)
Running ==
  /\ LaunchOK(launch)
  /\ Disjoint(CoverOf(todo, Sum1), ColsOf(launch, Sum1))
  /\ Disjoint(CoverOf(todo, Sum2), ColsOf(launch, Sum2))
  /\ launch.kernel \in Sum2 => \A i \in DOMAIN todo : todo[i].kernel \in Sum2
\* While the first pass goes on, the second has all its columns before it.
FirstPass ==
  in.twoPass /\ (\/ launch.kernel \in Sum1
                 \/ \E i \in DOMAIN todo : todo[i].kernel \in Sum1)
    => Planned \subseteq CoverOf(todo, Sum2)
PlanInv ==
  /\ Queued(todo)
  /\ launch = Idle \/ Running
  /\ launch = Idle => \A p \in Programs : pc[p] = "stored"
  /\ FirstPass

\* What is still to come for a row, and what its state holds.
Left(a, K) ==
  CoverOf(todo, K) \cup (IF pc[Prog(a)] = "stored" THEN {} ELSE ColsOf(launch, K))
Done(a, K) == Fed(a) \ Left(a, K)
Second(a) == Done(a, IF in.twoPass THEN Sum2 ELSE Sum1)
StateInv == \A a \in InPlay : mem[a] = StateOf(a, Done(a, Sum1), Second(a))

\* The mass of a block is that of the columns done in the second pass.
MassInv ==
  /\ mass \in [Addresses -> [0 .. MaxBlocks + MaxTail -> Int]]
  /\ in.twoPass => \A a \in InPlay, k \in 0 .. NumBlocks - 1 :
       mass[a][k] = SumOf(a, Done(a, Sum2) \cap BlockCols(k),
                          MaxOf(a, Done(a, Sum1)))

\* A program that has folded holds the result of its fold.
TileInv ==
  \A p \in Programs :
    /\ pc[p] = "folded" => tile[p] = [r \in TileRows |-> Folded(p, r)]
    /\ pc[p] # "folded" => tile[p] = <<>>

\* The rows of the prototype's tile past its heads are never touched.
TypeInv ==
  /\ InputOK
  /\ pc \in [Programs -> {"waiting", "folded", "stored"}]
  /\ DOMAIN tile = Programs
  /\ \A a \in Addresses \ InPlay : mem[a] = Fresh

IInv == TypeInv /\ PlanInv /\ StateInv /\ MassInv /\ TileInv

-----------------------------------------------------------------------------
(* The input and the addresses *)

LEMMA InputIs ==
  ASSUME InputOK
  PROVE  /\ in.mode \in Modes /\ in.tail \in 0 .. MaxTail
         /\ in.group \in Nat \ {0} /\ in.window \in Nat /\ in.twoPass \in BOOLEAN
         /\ in.table \in Seq(0 .. TopScore) /\ Len(in.table) \in Nat \ {0}
         /\ \A b \in RowIds : in.nb[b] \in 0 .. MaxBlocks /\ in.pad[b] \in Nat
         /\ NumBlocks \in 0 .. MaxBlocks /\ \A b \in RowIds : in.nb[b] <= NumBlocks
         /\ 0 \in RowIds
<1>1. /\ in.mode \in Modes /\ in.tail \in 0 .. MaxTail
      /\ in.group \in GroupSizes /\ in.window \in Windows /\ in.twoPass \in BOOLEAN
      /\ in.table \in Tables
      /\ in.nb \in [RowIds -> 0 .. MaxBlocks] /\ in.pad \in [RowIds -> 0 .. MaxPad]
  BY DEF InputOK, Inputs
<1>2. /\ GroupSizes \subseteq Nat \ {0} /\ Windows \subseteq Nat
      /\ MaxBlocks \in Nat /\ MaxPad \in Nat /\ Rows \in Nat \ {0}
      /\ Tables \subseteq Seq(0 .. TopScore) \ {<<>>}
  BY StreamingAssumption
<1>3. 0 \in RowIds
  BY <1>2 DEF RowIds
<1>4. \A b \in RowIds : in.nb[b] \in 0 .. MaxBlocks /\ in.pad[b] \in Nat
  BY <1>1, <1>2
<1>5. NumBlocks \in 0 .. MaxBlocks /\ \A b \in RowIds : in.nb[b] <= NumBlocks
  <2> DEFINE S == {in.nb[b] : b \in RowIds}
  <2>1. S \in SUBSET Int /\ S # {} /\ (\A x \in S : x <= MaxBlocks)
        /\ S \in SUBSET (0 .. MaxBlocks) /\ \A b \in RowIds : in.nb[b] \in S
    BY <1>3, <1>4
  <2>2. NumBlocks = Max(S)
    BY DEF NumBlocks
  <2> HIDE DEF S
  <2>3. Max(S) \in S /\ \A x \in S : x <= Max(S)
    BY <1>2, <2>1, MaxIs, MaxBlocks \in Int
  <2> QED
    BY <2>1, <2>2, <2>3
<1>6. in.table \in Seq(0 .. TopScore) /\ Len(in.table) \in Nat \ {0}
  <2>1. in.table \in Seq(0 .. TopScore) /\ in.table # <<>>
    BY <1>1, <1>2
  <2> QED
    BY <2>1, EmptySeq
<1> QED
  BY <1>1, <1>2, <1>3, <1>4, <1>5, <1>6

LEMMA ColumnsAre ==
  ASSUME InputOK
  PROVE  /\ Full = NumBlocks * TokensPerBlock /\ Full \in Nat
         /\ Total = Full + in.tail + 1 /\ Total \in Nat \ {0} /\ Full < Total
         /\ 0 .. Total - 1 \subseteq Columns
         /\ Planned \subseteq 0 .. Total - 1 /\ Total - 1 \in Planned
<1>1. PICK nb \in Nat, tail \in Nat :
        /\ nb = NumBlocks /\ tail = in.tail /\ nb <= MaxBlocks /\ tail <= MaxTail
  BY InputIs, StreamingAssumption
<1>2. PICK T \in Nat \ {0} : T = TokensPerBlock
  BY Bounds
<1>3. PICK k \in Nat : MaxBlocks = nb + k
  <2>1. MaxBlocks - nb \in Nat /\ MaxBlocks = nb + (MaxBlocks - nb)
    BY <1>1, StreamingAssumption
  <2> QED
    BY <2>1
<1>4. PICK y \in Nat, z \in Nat : y = nb * T /\ z = k * T
  OBVIOUS
<1>5. MaxBlocks * T = y + z
  BY <1>3, <1>4
<1>6. Full = y /\ Total = y + tail + 1 /\ MaxCols = y + z + MaxTail + 1
  BY <1>1, <1>2, <1>4, <1>5 DEF Full, Total, MaxCols
<1>7. MaxTail \in Nat
  BY StreamingAssumption
<1>8. /\ Full = NumBlocks * TokensPerBlock /\ Full \in Nat
      /\ Total = Full + in.tail + 1 /\ Total \in Nat \ {0} /\ Full < Total
  BY <1>1, <1>2, <1>4, <1>6 DEF Full, Total
<1>9. Total <= MaxCols
  BY <1>1, <1>6, <1>7
<1>10. 0 .. Total - 1 \subseteq Columns
  BY <1>8, <1>9, Bounds
<1>11. Planned \subseteq 0 .. Total - 1 /\ Total - 1 \in Planned
  BY <1>8 DEF Planned
<1> QED
  BY <1>8, <1>10, <1>11

LEMMA ScoredIs ==
  ASSUME InputOK, NEW a \in Addresses
  PROVE  Scored(a)
<1> SUFFICES ASSUME NEW c \in Columns PROVE Score(a, c) \in 0 .. TopScore
  BY DEF Scored
<1>1. a + c \in Nat
  <2>1. Rows * H \in Int
    BY Bounds
  <2> QED
    BY <2>1, Bounds DEF Addresses
<1>2. PICK n \in Nat \ {0} : n = Len(in.table)
  BY InputIs
<1>3. 1 + ((a + c) % n) \in 1 .. n
  BY <1>1
<1>4. in.table[1 + ((a + c) % n)] \in 0 .. TopScore
  BY <1>2, <1>3, InputIs, ElementOfSeq
<1> QED
  BY <1>2, <1>4, Bounds DEF Score

LEMMA TiledAddress ==
  ASSUME Tiled, NEW p \in Nat, NEW r \in Int
  PROVE  /\ Address(p, r) = NRep * p + r /\ RowOf(p) = p \div KVHeads
         /\ r \in 0 .. NRep - 1 =>
              /\ (NRep * p + r) \div NRep = p
              /\ (NRep * p + r) \div H = p \div KVHeads
<1>1. PICK n \in Nat \ {0}, k \in Nat \ {0} : n = NRep /\ k = KVHeads
  BY Bounds
<1>2. PICK q \in Nat, s \in 0 .. k - 1 : q = p \div k /\ s = p % k /\ p = k * q + s
  <2>1. p \div k \in Nat /\ p % k \in 0 .. k - 1 /\ p = k * (p \div k) + (p % k)
    OBVIOUS
  <2> QED
    BY <2>1
<1>3. H = k * n /\ RowOf(p) = q
  BY <1>1, <1>2 DEF H, RowOf
<1>4. Address(p, r) = q * (k * n) + s * n + r
  <2>1. Address(p, r) = RowOf(p) * H + (p % KVHeads) * NRep + r
    BY DEF Address, Tiled, PerHead
  <2>2. RowOf(p) = q /\ H = k * n /\ p % KVHeads = s /\ NRep = n
    BY <1>1, <1>2, <1>3
  <2> QED
    BY <2>1, <2>2, Zenon
<1>5. q * (k * n) + s * n = n * p
  <2>1. n * (k * q + s) = n * (k * q) + n * s
    OBVIOUS
  <2>2. q * (k * n) = n * (k * q)
    OBVIOUS
  <2>3. s * n = n * s
    OBVIOUS
  <2> QED
    BY <1>2, <2>1, <2>2, <2>3
<1>6. PICK y \in Nat : y = n * p
  OBVIOUS
<1>7. ASSUME r \in 0 .. n - 1
      PROVE  (y + r) \div n = p /\ (y + r) \div H = q
  <2>1. (y + r) \div n = p
    <3>1. n * (p + 1) = y + n
      BY <1>6
    <3>2. n * p <= y + r /\ y + r < n * (p + 1)
      BY <1>6, <1>7, <3>1
    <3> QED
      BY <3>2, DivIs, y + r \in Int
  <2>2. (y + r) \div H = q
    <3>1. PICK h \in Nat \ {0}, x \in Nat, z \in Nat :
            h = k * n /\ x = (k * n) * q /\ z = n * s
      BY <1>3, Bounds
    <3>2. y = x + z
      BY <1>5, <1>6, <3>1
    <3>3. z + n <= h
      <4>1. PICK j \in Nat : k = s + 1 + j
        <5>1. k - s - 1 \in Nat /\ k = s + 1 + (k - s - 1)
          OBVIOUS
        <5> QED
          BY <5>1
      <4>2. k * n = n * s + n + j * n
        BY ONLY <4>1, n \in Nat \ {0}, s \in Nat, j \in Nat
      <4>3. j * n \in Nat
        OBVIOUS
      <4> QED
        BY <3>1, <4>2, <4>3
    <3>4. h * (q + 1) = x + h
      BY <3>1
    <3>5. h * q <= y + r /\ y + r < h * (q + 1)
      BY <1>7, <3>1, <3>2, <3>3, <3>4
    <3> QED
      BY <1>3, <3>1, <3>5, DivIs, y + r \in Int
  <2> QED
    BY <2>1, <2>2
<1> QED
  BY <1>1, <1>2, <1>3, <1>4, <1>5, <1>6, <1>7

LEMMA Modes3 ==
  ASSUME InputOK
  PROVE  /\ Tiled => ~PerHead
         /\ Tiled \/ PerHead \/ in.mode \in {"chunks", "one_layer"}
         /\ in.mode = "sessions" => Tiled
         /\ in.mode = "layer" => Tiled
<1>1. in.mode \in {"layer", "sessions", "one_shot", "grouped", "mass",
                   "full_loop", "chunks", "one_layer"}
  BY InputIs, StreamingAssumption
<1> QED
  BY <1>1 DEF Tiled, PerHead

LEMMA AddressBounds ==
  /\ Addresses = 0 .. Rows * H - 1 /\ Rows * H \in Nat /\ H <= Rows * H
  /\ 0 .. H - 1 \subseteq Addresses /\ Rows * KVHeads \in Nat
  /\ Rows * H = NRep * (Rows * KVHeads)
<1>1. PICK x \in Nat \ {0}, k \in Nat \ {0}, n \in Nat \ {0} :
        x = Rows /\ k = KVHeads /\ n = NRep
  BY Bounds
<1>2. H = k * n
  BY <1>1 DEF H
<1>3. PICK h \in Nat \ {0} : h = H
  BY Bounds
<1>4. PICK y \in Nat : x = y + 1
  <2>1. x - 1 \in Nat /\ x = (x - 1) + 1
    OBVIOUS
  <2> QED
    BY <2>1
<1>5. x * h = y * h + h /\ y * h \in Nat
  BY <1>4
<1>6. x * (k * n) = n * (x * k) /\ x * k \in Nat
  OBVIOUS
<1> QED
  BY <1>1, <1>2, <1>3, <1>5, <1>6 DEF Addresses

LEMMA TiledTile ==
  ASSUME Tiled
  PROVE  /\ Programs = 0 .. Rows * KVHeads - 1 /\ TileRows = 0 .. MTile - 1
         /\ NRep \in 1 .. MTile /\ MTile \in Nat
         /\ \A r : row_mask(r) <=> r < NRep
<1>1. NRep \in 1 .. MTile /\ MTile \in Nat
  BY StreamingAssumption, Zenon
<1>2. Programs = 0 .. Rows * KVHeads - 1 /\ TileRows = 0 .. MTile - 1
  <2>1. Tiled /\ ~PerHead
    BY DEF Tiled, PerHead
  <2> QED
    BY ONLY <2>1 DEF Programs, TileRows
<1> QED
  BY <1>1, <1>2 DEF row_mask

\* A row of a tile that is stored is in play, and of no other program.
LEMMA OwnRow ==
  ASSUME InputOK, NEW p \in Programs, NEW r \in TileRows, InTile(p, r)
  PROVE  /\ Address(p, r) \in InPlay /\ Prog(Address(p, r)) = p
         /\ RowOf(p) = Address(p, r) \div H /\ RowOf(p) \in Grid
         /\ \A q \in TileRows :
              InTile(p, q) /\ Address(p, q) = Address(p, r) => q = r
<1>0. PICK n \in Nat \ {0}, k \in Nat \ {0}, x \in Nat \ {0}, h \in Nat \ {0} :
        n = NRep /\ k = KVHeads /\ x = Rows /\ h = H
  BY Bounds
<1>1. CASE Tiled
  <2>1. p \in Nat /\ p < x * k
    <3>1. PICK j \in Nat : j = x * k
      OBVIOUS
    <3>2. p \in 0 .. j - 1
      BY <1>0, <1>1, <3>1, TiledTile
    <3> QED
      BY <3>1, <3>2
  <2>2. \A q \in TileRows : InTile(p, q) => q \in 0 .. n - 1
    <3>1. PICK t \in Nat : TileRows = 0 .. t - 1 /\ \A q : row_mask(q) <=> q < n
      BY <1>0, <1>1, TiledTile
    <3> QED
      BY <3>1 DEF InTile
  <2>3. \A q \in 0 .. n - 1 : Address(p, q) = n * p + q
    BY <1>0, <1>1, <2>1, TiledAddress
  <2>4. r \in 0 .. n - 1
    BY <2>2
  <2>5. PICK a \in Int : a = Address(p, r) /\ a = n * p + r
    BY <2>1, <2>3, <2>4
  <2>6. a \div n = p /\ a \div H = RowOf(p) /\ RowOf(p) = p \div k
    <3>1. /\ RowOf(p) = p \div k /\ r \in Int
          /\ (n * p + r) \div n = p /\ (n * p + r) \div H = p \div k
      <4>1. p \in Nat /\ r \in Int /\ r \in 0 .. NRep - 1
        BY <1>0, <2>1, <2>4
      <4>2. /\ RowOf(p) = p \div KVHeads
            /\ (NRep * p + r) \div NRep = p /\ (NRep * p + r) \div H = p \div KVHeads
        BY ONLY Tiled, <4>1, TiledAddress
      <4> QED
        BY <1>0, <4>1, <4>2, Zenon
    <3> QED
      BY <2>5, <3>1, Zenon
  <2>7. a \in InPlay /\ Prog(a) = p
    BY <1>0, <1>1, <2>5, <2>6 DEF InTile, InPlay, Prog
  <2>8. RowOf(p) \in Grid
    <3>1. PICK q \in Nat, s \in 0 .. k - 1 : q = p \div k /\ p = k * q + s
      <4>1. p \div k \in Nat /\ p % k \in 0 .. k - 1
            /\ p = k * (p \div k) + (p % k)
        BY <2>1
      <4> QED
        BY <4>1
    <3>2. q < x
      <4>1. CASE q >= x
        <5>1. PICK j \in Nat : q = x + j
          <6>1. q - x \in Nat /\ q = x + (q - x)
            BY <4>1
          <6> QED
            BY <6>1
        <5>2. k * q = x * k + k * j
          BY ONLY <5>1, k \in Nat, x \in Nat, j \in Nat
        <5>3. PICK y \in Nat, z \in Nat : y = x * k /\ z = k * j
          OBVIOUS
        <5> QED
          BY <2>1, <3>1, <5>2, <5>3
      <4> QED
        BY <4>1
    <3> QED
      BY <1>0, <1>1, <2>6, <3>1, <3>2 DEF Grid, RowIds
  <2>9. ASSUME NEW q \in TileRows, InTile(p, q), Address(p, q) = a
        PROVE  q = r
    <3>1. q \in 0 .. n - 1 /\ n * p + q = a
      BY <2>2, <2>3, <2>9
    <3>2. PICK y \in Int : y = n * p
      BY <2>1
    <3> QED
      BY <2>4, <2>5, <3>1, <3>2
  <2> QED
    BY <2>5, <2>6, <2>7, <2>8, <2>9
<1>2. CASE PerHead
  <2>1. ~Tiled
    BY <1>2, Modes3
  <2>2. p \in 0 .. h - 1 /\ TileRows = {0} /\ \A q : Address(p, q) = p
    BY <1>0, <1>2, <2>1 DEF Programs, TileRows, Address
  <2>3. p \div h = 0
    <3>1. h * 0 = 0 /\ h * (0 + 1) = h
      OBVIOUS
    <3> QED
      BY <2>2, <3>1, DivIs, p \in Int, 0 \in Int
  <2> QED
    BY <1>0, <1>2, <2>1, <2>2, <2>3, AddressBounds
       DEF InPlay, Prog, RowOf, Grid
<1>3. CASE ~Tiled /\ ~PerHead
  <2>1. p = 0 /\ TileRows = 0 .. h - 1 /\ \A q : Address(p, q) = q
    BY <1>0, <1>3 DEF Programs, TileRows, Address
  <2>2. r \in 0 .. h - 1 /\ r \div h = 0
    <3>1. h * 0 = 0 /\ h * (0 + 1) = h /\ r \in 0 .. h - 1
      BY <2>1
    <3> QED
      BY <3>1, DivIs, r \in Int, 0 \in Int
  <2> QED
    BY <1>0, <1>3, <2>1, <2>2, AddressBounds DEF InPlay, Prog, RowOf, Grid
<1> QED
  BY <1>1, <1>2, <1>3

\* Every row in play is a stored row of its program.
LEMMA HasProgram ==
  ASSUME InputOK, NEW a \in InPlay
  PROVE  /\ Prog(a) \in Programs /\ a \in Addresses
         /\ \E r \in TileRows : InTile(Prog(a), r) /\ Address(Prog(a), r) = a
<1>0. PICK n \in Nat \ {0}, k \in Nat \ {0}, x \in Nat \ {0}, h \in Nat \ {0} :
        n = NRep /\ k = KVHeads /\ x = Rows /\ h = H
  BY Bounds
<1>a. a \in Addresses /\ a \in Nat /\ a < Rows * H /\ (~Tiled => a < h)
  BY <1>0, AddressBounds DEF InPlay
<1>1. CASE Tiled
  <2>1. PICK p \in Nat, r \in 0 .. n - 1 : p = a \div n /\ a = n * p + r
    <3>1. a \div n \in Nat /\ a % n \in 0 .. n - 1 /\ a = n * (a \div n) + (a % n)
      BY <1>a
    <3> QED
      BY <3>1
  <2>2. p < x * k
    <3>1. PICK j \in Nat : j = x * k
      OBVIOUS
    <3>2. n * p + r < n * j
      BY <1>0, <1>a, <2>1, <3>1, AddressBounds
    <3>3. CASE p >= j
      <4>1. PICK i \in Nat : p = j + i
        <5>1. p - j \in Nat /\ p = j + (p - j)
          BY <3>3
        <5> QED
          BY <5>1
      <4>2. n * p = n * j + n * i
        BY ONLY <4>1, n \in Nat, i \in Nat, j \in Nat
      <4>3. PICK y \in Nat, z \in Nat : y = n * j /\ z = n * i
        OBVIOUS
      <4> QED
        BY <3>2, <4>2, <4>3
    <3> QED
      BY <3>1, <3>3
  <2>3. Prog(a) = p /\ p \in Programs
    <3>1. PICK j \in Nat : j = x * k
      OBVIOUS
    <3>2. Programs = 0 .. j - 1
      BY <1>0, <1>1, <3>1, TiledTile
    <3>3. Prog(a) = a \div n
      BY <1>0, <1>1 DEF Prog
    <3> QED
      BY <2>1, <2>2, <3>1, <3>2, <3>3
  <2>4. r \in TileRows /\ row_mask(r) /\ r \in Int
    <3>1. PICK t \in Nat : /\ TileRows = 0 .. t - 1 /\ n \in 1 .. t
                           /\ \A q : row_mask(q) <=> q < n
      BY <1>0, <1>1, TiledTile
    <3> QED
      BY <2>1, <3>1
  <2>5. Address(p, r) = a
    BY <1>0, <1>1, <2>1, <2>4, TiledAddress
  <2> QED
    BY <1>a, <2>3, <2>4, <2>5 DEF InTile
<1>2. CASE PerHead
  <2>1. ~Tiled
    BY <1>2, Modes3
  <2> QED
    BY <1>0, <1>a, <1>2, <2>1
       DEF Prog, Programs, TileRows, InTile, row_mask, Address
<1>3. CASE ~Tiled /\ ~PerHead
  <2> QED
    BY <1>0, <1>a, <1>3
       DEF Prog, Programs, TileRows, InTile, row_mask, Address
<1> QED
  BY <1>1, <1>2, <1>3

-----------------------------------------------------------------------------
(* The masks *)

\* Padding blocks and columns, of a batch and of sessions.
LEMMA PaddingIs ==
  ASSUME InputOK, NEW b \in RowIds
  PROVE  /\ pad_blocks(b) \in 0 .. NumBlocks /\ in.nb[b] = NumBlocks - pad_blocks(b)
         /\ Padding(b) \in Nat /\ Padding(b) <= Total - 1
         /\ in.mode = "sessions" => Padding(b) = pad_blocks(b) * TokensPerBlock
         /\ in.mode # "sessions" => Padding(b) = in.pad[b] /\ pad_blocks(b) = 0
<1>1. PICK n \in Nat, k \in Nat : n = NumBlocks /\ k = in.nb[b] /\ k <= n
  BY InputIs
<1>2. pad_blocks(b) = n - k
  BY <1>1 DEF pad_blocks
<1>3. CASE in.mode = "sessions"
  <2>1. PICK T \in Nat \ {0}, j \in Nat : T = TokensPerBlock /\ j = n - k /\ n = j + k
    <3>1. n - k \in Nat /\ n = (n - k) + k
      BY <1>1
    <3> QED
      BY <3>1, Bounds
  <2>2. PICK y \in Nat, z \in Nat : y = j * T /\ z = k * T
    OBVIOUS
  <2>3. n * T = y + z
    BY <2>1, <2>2
  <2>4. Total = n * T + in.tail + 1 /\ in.tail \in Nat
    <3>1. Full = n * T /\ Total = Full + in.tail + 1
      BY <1>1, <2>1, ColumnsAre
    <3>2. in.tail \in Nat
      BY InputIs
    <3> QED
      BY <3>1, <3>2
  <2>5. Padding(b) = y
    BY <1>2, <1>3, <2>1, <2>2 DEF Padding
  <2>6. y <= Total - 1
    BY <2>2, <2>3, <2>4
  <2>7. Padding(b) = pad_blocks(b) * TokensPerBlock
    BY <1>2, <2>1, <2>2, <2>5
  <2>8. j \in 0 .. n /\ k = n - j
    BY <2>1
  <2> QED
    BY <1>1, <1>2, <1>3, <2>1, <2>5, <2>6, <2>7, <2>8
<1>4. CASE in.mode # "sessions"
  <2>1. \A c \in RowIds : in.nb[c] = in.nb[0]
    <3>1. Possible(in)
      BY DEF InputOK
    <3> QED
      BY <1>4, <3>1 DEF Possible
  <2>2. k = n
    <3> DEFINE S == {in.nb[c] : c \in RowIds}
    <3>1. k \in S /\ \A x \in S : x = k
      BY <1>1, <2>1, InputIs
    <3>2. n = Max(S)
      BY <1>1 DEF NumBlocks
    <3>3. S \in SUBSET Int /\ \A x \in S : x <= k
      BY <1>1, <3>1
    <3> HIDE DEF S
    <3> QED
      BY <3>1, <3>2, <3>3, MaxUnique
  <2>3. in.pad[b] \in Nat /\ in.tail \in Nat
    BY InputIs, StreamingAssumption
  <2>4. in.pad[b] <= in.nb[0] * TokensPerBlock + in.tail
    <3>1. Possible(in)
      BY DEF InputOK
    <3>2. CASE in.mode = "layer"
      BY <3>1, <3>2 DEF Possible
    <3>3. CASE in.mode # "layer"
      <4>1. in.pad[b] = 0
        BY <1>4, <3>1, <3>3 DEF Possible
      <4>2. PICK y \in Nat : y = in.nb[0] * TokensPerBlock
        BY InputIs, Bounds, StreamingAssumption
      <4> QED
        BY <2>3, <4>1, <4>2
    <3> QED
      BY <3>2, <3>3
  <2>5. in.nb[0] = n
    BY <1>1, <2>1, <2>2, InputIs
  <2>6. PICK y \in Nat : y = n * TokensPerBlock
    BY Bounds
  <2>7. Total = y + in.tail + 1
    BY <1>1, <2>6, ColumnsAre
  <2>8. Padding(b) = in.pad[b]
    BY <1>4 DEF Padding
  <2> QED
    BY <1>1, <1>2, <1>4, <2>2, <2>3, <2>4, <2>5, <2>6, <2>7, <2>8
<1> QED
  BY <1>3, <1>4

\* A column of its blocks belongs to one block.
LEMMA BlockOf ==
  ASSUME NEW c \in Int, NEW k \in Int
  PROVE  /\ c \in BlockCols(k) <=> c \div TokensPerBlock = k
         /\ c \div TokensPerBlock \in Int
         /\ k <= c \div TokensPerBlock <=> k * TokensPerBlock <= c
<1>1. PICK T \in Nat \ {0} : T = TokensPerBlock
  BY Bounds
<1>2. T * k = k * T /\ T * (k + 1) = (k + 1) * T /\ k * T \in Int
      /\ (k + 1) * T \in Int
  OBVIOUS
<1>3. c \div T = k <=> T * k <= c /\ c < T * (k + 1)
  BY DivIs
<1>4. PICK d \in Int, r \in 0 .. T - 1 : d = c \div T /\ c = T * d + r
  BY DivMod
<1>5. k <= d <=> k * T <= c
  <2>1. CASE k <= d
    <3>1. PICK j \in Nat : d = k + j
      <4>1. d - k \in Nat /\ d = k + (d - k)
        BY <2>1
      <4> QED
        BY <4>1
    <3>2. T * d = k * T + T * j
      BY ONLY <3>1, T \in Nat, k \in Int, j \in Nat
    <3>3. PICK z \in Nat : z = T * j
      OBVIOUS
    <3> QED
      BY <1>2, <1>4, <2>1, <3>2, <3>3
  <2>2. CASE k > d
    <3>1. PICK j \in Nat : k = d + 1 + j
      <4>1. k - d - 1 \in Nat /\ k = d + 1 + (k - d - 1)
        BY <2>2
      <4> QED
        BY <4>1
    <3>2. k * T = T * d + T + T * j
      BY ONLY <3>1, T \in Nat, d \in Int, j \in Nat
    <3>3. PICK z \in Nat, y \in Int : z = T * j /\ y = T * d
      OBVIOUS
    <3> QED
      BY <1>2, <1>4, <2>2, <3>2, <3>3
  <2> QED
    BY <2>1, <2>2
<1>6. PICK x \in Int, y \in Int : x = k * T /\ y = (k + 1) * T
  BY <1>2
<1>7. c \in BlockCols(k) <=> x <= c /\ c < y
  BY <1>1, <1>6 DEF BlockCols
<1> QED
  BY <1>1, <1>2, <1>3, <1>4, <1>5, <1>6, <1>7

\* The mask a call passes lets the newest column through and no padding, and is
\* the one the reference attends with if the window is counted from the newest
\* column.
LEMMA ValidIs ==
  ASSUME InputOK, NEW b \in Grid, NEW c \in 0 .. Total - 1
  PROVE  /\ WindowExact => (Valid(b, c) <=> Attends(b, c))
         /\ Valid(b, c) => c >= Padding(b) /\ ~ZeroBlock(b, c)
         /\ c = Total - 1 => Valid(b, c)
<1>0. b \in RowIds
  BY InputIs DEF Grid
<1>1. PICK t \in Nat, w \in Nat, pad \in Nat :
        t = Total - 1 /\ w = in.window /\ pad = Padding(b) /\ c \in Nat /\ c <= t
  BY <1>0, PaddingIs, ColumnsAre, InputIs
<1>2. Attends(b, c) <=> pad <= c /\ (w > 0 => t - c < w)
  BY <1>1 DEF Attends
<1>p. Possible(in)
  BY DEF InputOK
<1>3. CASE in.mode = "layer"
  <2>1. pad = in.pad[b] /\ Valid(b, c) <=> pad = in.pad[b] /\ RowValid(b, c)
    BY <1>3 DEF Valid
  <2>2. pad = in.pad[b]
    BY <1>0, <1>1, <1>3, PaddingIs
  <2>3. PICK least \in Nat :
          /\ least = Min({in.pad[d] : d \in RowIds})
          /\ (\E d \in RowIds : in.pad[d] = 0) => least = 0
    <3> DEFINE S == {in.pad[d] : d \in RowIds}
    <3>1. S \in SUBSET Nat /\ S # {}
      BY <1>0, InputIs
    <3>2. (\E d \in RowIds : in.pad[d] = 0) => 0 \in S
      OBVIOUS
    <3> HIDE DEF S
    <3>3. \E x \in S : \A y \in S : x <= y
      BY <3>1, NatMin
    <3>4. Min(S) \in S /\ \A y \in S : Min(S) <= y
      BY <3>3 DEF Min
    <3>5. PICK z \in Nat : z = Min(S) /\ \A y \in S : z <= y
      BY <3>1, <3>4
    <3>6. 0 \in S => z = 0
      BY <3>5
    <3> QED
      BY <3>2, <3>5, <3>6 DEF S
  <2>4. WindowValid(c) <=> w = 0 \/ c > t - least - w
    BY <1>1, <2>3 DEF WindowValid
  <2>5. RowValid(b, c) <=> c >= pad /\ (w = 0 \/ c > t - least - w)
    BY <2>2, <2>4 DEF RowValid
  <2>7. WindowExact => w = 0 \/ least = 0
    BY <1>1, <2>3 DEF WindowExact
  <2>6. ~ZeroBlock(b, c)
    BY <1>3 DEF ZeroBlock
  <2>8. pad <= t
    BY <1>0, <1>1, PaddingIs
  <2> QED
    BY <1>1, <1>2, <2>1, <2>2, <2>3, <2>5, <2>6, <2>7, <2>8
<1>4. CASE in.mode = "sessions"
  <2>1. Valid(b, c) <=> GatherValid(b, c)
    BY <1>4 DEF Valid
  <2>2. w = 0
    BY <1>1, <1>4, <1>p DEF Possible
  <2>3. PICK n \in Nat, p \in Nat : /\ n = NumBlocks /\ p = pad_blocks(b) /\ p <= n
                                    /\ in.nb[b] = n - p /\ pad = p * TokensPerBlock
    BY <1>0, <1>1, <1>4, PaddingIs, InputIs
  <2>4. PICK d \in Int : d = c \div TokensPerBlock
    BY BlockOf, c \in Int, 0 \in Int
  <2>5. p <= d <=> pad <= c
    BY <1>1, <2>3, <2>4, BlockOf, c \in Int, p \in Int
  <2>6. n <= d <=> Full <= c
    BY <2>3, <2>4, BlockOf, ColumnsAre, c \in Int, n \in Int
  <2>7. Full \in Nat /\ pad <= Full
    <3>1. PICK T \in Nat, j \in Nat : T = TokensPerBlock /\ n = p + j
      <4>1. n - p \in Nat /\ n = p + (n - p)
        BY <2>3
      <4> QED
        BY <4>1, Bounds
    <3>2. n * T = p * T + j * T /\ p * T \in Nat /\ j * T \in Nat
      BY ONLY <3>1, T \in Nat, j \in Nat, p \in Nat
    <3>3. PICK x \in Nat, y \in Nat : x = p * T /\ y = j * T
      OBVIOUS
    <3> QED
      BY <2>3, <3>1, <3>2, <3>3, ColumnsAre
  <2>8. GatherValid(b, c) <=> c >= Full \/ d - p \in 0 .. (n - p) - 1
    BY <2>3, <2>4 DEF GatherValid
  <2>9. GatherValid(b, c) <=> pad <= c
    BY <1>1, <2>3, <2>5, <2>6, <2>7, <2>8
  <2>10. ZeroBlock(b, c) <=> c < pad
    BY <1>1, <1>4 DEF ZeroBlock
  <2>11. pad <= t
    BY <1>0, <1>1, PaddingIs
  <2> QED
    BY <1>1, <1>2, <2>1, <2>2, <2>9, <2>10, <2>11
<1>5. CASE in.mode \notin {"layer", "sessions"}
  <2>1. Valid(b, c)
    BY <1>5 DEF Valid
  <2>2. w = 0 /\ pad = 0
    <3>1. in.window = 0 /\ in.pad[b] = 0
      BY <1>0, <1>5, <1>p DEF Possible
    <3>2. pad = in.pad[b]
      BY <1>0, <1>1, <1>5, PaddingIs
    <3> QED
      BY <1>1, <3>1, <3>2
  <2>3. ~ZeroBlock(b, c)
    BY <1>5 DEF ZeroBlock
  <2> QED
    BY <1>1, <1>2, <2>1, <2>2, <2>3
<1> QED
  BY <1>3, <1>4, <1>5

LEMMA FedIs ==
  ASSUME InputOK, NEW a \in InPlay
  PROVE  /\ a \div H \in Grid /\ Grid \subseteq RowIds
         /\ Fed(a) \subseteq Planned /\ Total - 1 \in Fed(a) /\ Fed(a) \subseteq Columns
         /\ in.mode # "one_layer" /\ WindowExact => Fed(a) = Seen(a, Columns)
<1>1. a \div H \in Grid
  BY HasProgram, OwnRow
<1>2. Grid \subseteq RowIds
  BY InputIs DEF Grid
<1>3. Planned \subseteq 0 .. Total - 1 /\ 0 .. Total - 1 \subseteq Columns
      /\ Total - 1 \in Planned
  BY ColumnsAre
<1>4. Total - 1 \in Fed(a)
  <2>1. PICK t \in Nat : t = Total - 1
    BY ColumnsAre
  <2>2. Valid(a \div H, t)
    BY <1>1, <1>3, <2>1, ValidIs
  <2> QED
    BY <1>3, <2>1, <2>2 DEF Fed
<1>5. ASSUME in.mode # "one_layer", WindowExact PROVE Fed(a) = Seen(a, Columns)
  <2>1. Planned = 0 .. Total - 1
    BY <1>5 DEF Planned
  <2>2. ASSUME NEW c \in Columns
        PROVE  c \in Planned /\ Valid(a \div H, c) <=> Attends(a \div H, c)
    <3>1. CASE c \in 0 .. Total - 1
      BY <1>1, <1>5, <2>1, <3>1, ValidIs
    <3>2. CASE c \notin 0 .. Total - 1
      <4>1. c \in Nat /\ Total \in Nat /\ Padding(a \div H) \in Nat
        BY <1>1, <1>2, PaddingIs, ColumnsAre, Bounds
      <4> QED
        BY <2>1, <3>2, <4>1 DEF Attends
    <3> QED
      BY <3>1, <3>2
  <2> QED
    BY <1>3, <2>1, <2>2 DEF Fed, Seen
<1> QED
  BY <1>1, <1>2, <1>3, <1>4, <1>5 DEF Fed

-----------------------------------------------------------------------------
(* The plan *)

OnlyOf(s, K) == \A i \in DOMAIN s : s[i].kernel \in K
QueueOf(s, X1, X2) ==
  Queued(s) /\ CoverOf(s, Sum1) = X1 /\ CoverOf(s, Sum2) = X2

\* The elements of two queues joined.
LEMMA JoinElements ==
  ASSUME NEW s \in Seq(Launches), NEW t \in Seq(Launches)
  PROVE  /\ s \o t \in Seq(Launches) /\ DOMAIN (s \o t) = 1 .. Len(s) + Len(t)
         /\ DOMAIN s = 1 .. Len(s) /\ DOMAIN t = 1 .. Len(t)
         /\ Len(s) \in Nat /\ Len(t) \in Nat
         /\ \A i \in 1 .. Len(s) + Len(t) :
              (s \o t)[i] = IF i <= Len(s) THEN s[i] ELSE t[i - Len(s)]
<1>1. /\ s \o t \in Seq(Launches) /\ Len(s \o t) = Len(s) + Len(t)
      /\ \A i \in 1 .. Len(s) + Len(t) :
           (s \o t)[i] = IF i <= Len(s) THEN s[i] ELSE t[i - Len(s)]
  BY ConcatProperties
<1> QED
  BY <1>1

LEMMA JoinCover ==
  ASSUME NEW s \in Seq(Launches), NEW t \in Seq(Launches), NEW K
  PROVE  /\ CoverOf(s \o t, K) = CoverOf(s, K) \cup CoverOf(t, K)
         /\ OnlyOf(s, K) /\ OnlyOf(t, K) => OnlyOf(s \o t, K)
<1>1. PICK n \in Nat, m \in Nat, u \in Seq(Launches) :
        /\ u = s \o t
        /\ DOMAIN u = 1 .. n + m /\ DOMAIN s = 1 .. n /\ DOMAIN t = 1 .. m
        /\ \A i \in 1 .. n + m : u[i] = IF i <= n THEN s[i] ELSE t[i - n]
  <2>1. /\ s \o t \in Seq(Launches) /\ DOMAIN (s \o t) = 1 .. Len(s) + Len(t)
        /\ DOMAIN s = 1 .. Len(s) /\ DOMAIN t = 1 .. Len(t)
        /\ Len(s) \in Nat /\ Len(t) \in Nat
        /\ \A i \in 1 .. Len(s) + Len(t) :
             (s \o t)[i] = IF i <= Len(s) THEN s[i] ELSE t[i - Len(s)]
    BY JoinElements
  <2>2. PICK n \in Nat, m \in Nat, u \in Seq(Launches) :
          n = Len(s) /\ m = Len(t) /\ u = s \o t
    BY <2>1
  <2>3. /\ DOMAIN u = 1 .. n + m /\ DOMAIN s = 1 .. n /\ DOMAIN t = 1 .. m
        /\ \A i \in 1 .. n + m : u[i] = IF i <= n THEN s[i] ELSE t[i - n]
    BY ONLY <2>1, <2>2
  <2> QED
    BY <2>2, <2>3
<1>2. /\ \A i \in 1 .. n : i \in DOMAIN u /\ u[i] = s[i]
      /\ \A j \in 1 .. m : n + j \in DOMAIN u /\ u[n + j] = t[j]
  <2>1. ASSUME NEW j \in 1 .. m PROVE n + j \in DOMAIN u /\ u[n + j] = t[j]
    <3>1. n + j \in 1 .. n + m /\ ~(n + j <= n) /\ (n + j) - n = j
      OBVIOUS
    <3> QED
      BY <1>1, <3>1
  <2>2. ASSUME NEW i \in 1 .. n PROVE i \in DOMAIN u /\ u[i] = s[i]
    BY <1>1
  <2> QED
    BY <2>1, <2>2
<1>3. \A i \in DOMAIN u : \/ i \in DOMAIN s /\ u[i] = s[i]
                          \/ \E j \in DOMAIN t : u[i] = t[j]
  <2> SUFFICES ASSUME NEW i \in DOMAIN u
               PROVE  \/ i \in DOMAIN s /\ u[i] = s[i]
                      \/ \E j \in DOMAIN t : u[i] = t[j]
    OBVIOUS
  <2>1. CASE i <= n
    BY <1>1, <2>1
  <2>2. CASE i > n
    <3>1. i - n \in 1 .. m /\ u[i] = t[i - n]
      BY <1>1, <2>2
    <3> QED
      BY <1>1, <3>1
  <2> QED
    BY <1>1, <2>1, <2>2
<1>4. CoverOf(u, K) \subseteq CoverOf(s, K) \cup CoverOf(t, K)
  BY <1>3, Zenon DEF CoverOf
<1>5. CoverOf(s, K) \subseteq CoverOf(u, K)
  <2>1. \A i \in DOMAIN s : i \in DOMAIN u /\ u[i] = s[i]
    BY <1>1, <1>2
  <2> QED
    BY ONLY <2>1, Zenon DEF CoverOf
<1>6. CoverOf(t, K) \subseteq CoverOf(u, K)
  <2>1. \A j \in DOMAIN t : \E i \in DOMAIN u : u[i] = t[j]
    BY <1>1, <1>2
  <2> QED
    BY ONLY <2>1, Zenon DEF CoverOf
<1>7. OnlyOf(s, K) /\ OnlyOf(t, K) => OnlyOf(u, K)
  BY <1>3, Zenon DEF OnlyOf
<1> QED
  BY <1>1, <1>4, <1>5, <1>6, <1>7

LEMMA JoinApart ==
  ASSUME NEW s \in Seq(Launches), NEW t \in Seq(Launches), NEW K,
         Apart(s, K), Apart(t, K), Disjoint(CoverOf(s, K), CoverOf(t, K))
  PROVE  Apart(s \o t, K)
<1>1. PICK n \in Nat, m \in Nat, u \in Seq(Launches) :
        /\ u = s \o t
        /\ DOMAIN u = 1 .. n + m /\ DOMAIN s = 1 .. n /\ DOMAIN t = 1 .. m
        /\ \A i \in 1 .. n + m : u[i] = IF i <= n THEN s[i] ELSE t[i - n]
  <2>1. /\ s \o t \in Seq(Launches) /\ DOMAIN (s \o t) = 1 .. Len(s) + Len(t)
        /\ DOMAIN s = 1 .. Len(s) /\ DOMAIN t = 1 .. Len(t)
        /\ Len(s) \in Nat /\ Len(t) \in Nat
        /\ \A i \in 1 .. Len(s) + Len(t) :
             (s \o t)[i] = IF i <= Len(s) THEN s[i] ELSE t[i - Len(s)]
    BY JoinElements
  <2>2. PICK n \in Nat, m \in Nat, u \in Seq(Launches) :
          n = Len(s) /\ m = Len(t) /\ u = s \o t
    BY <2>1
  <2>3. /\ DOMAIN u = 1 .. n + m /\ DOMAIN s = 1 .. n /\ DOMAIN t = 1 .. m
        /\ \A i \in 1 .. n + m : u[i] = IF i <= n THEN s[i] ELSE t[i - n]
    BY ONLY <2>1, <2>2
  <2> QED
    BY <2>2, <2>3
<1>2. ASSUME NEW i \in DOMAIN s, NEW j \in DOMAIN t
      PROVE  Disjoint(ColsOf(s[i], K), ColsOf(t[j], K))
  BY DEF CoverOf, Disjoint
<1>3. \A X, Y : Disjoint(X, Y) => Disjoint(Y, X)
  BY DEF Disjoint
<1>4. ASSUME NEW i \in DOMAIN u, NEW j \in DOMAIN u, i < j
      PROVE  Disjoint(ColsOf(u[i], K), ColsOf(u[j], K))
  <2>1. CASE j <= n
    <3>1. i \in DOMAIN s /\ j \in DOMAIN s /\ u[i] = s[i] /\ u[j] = s[j] /\ i # j
      BY <1>1, <1>4, <2>1
    <3> QED
      BY <3>1 DEF Apart
  <2>2. CASE i <= n /\ j > n
    <3>1. i \in DOMAIN s /\ j - n \in DOMAIN t /\ u[i] = s[i] /\ u[j] = t[j - n]
      BY <1>1, <1>4, <2>2
    <3> QED
      BY <1>2, <3>1
  <2>3. CASE i > n
    <3>1. /\ i - n \in DOMAIN t /\ j - n \in DOMAIN t /\ i - n # j - n
          /\ u[i] = t[i - n] /\ u[j] = t[j - n]
      BY <1>1, <1>4, <2>3
    <3> QED
      BY <3>1 DEF Apart
  <2> QED
    BY <1>1, <2>1, <2>2, <2>3
<1>5. ASSUME NEW i \in DOMAIN u, NEW j \in DOMAIN u, i # j
      PROVE  Disjoint(ColsOf(u[i], K), ColsOf(u[j], K))
  <2>1. i < j \/ j < i
    BY <1>1, <1>5
  <2> QED
    BY <1>3, <1>4, <2>1
<1> QED
  BY <1>1, <1>5 DEF Apart

LEMMA JoinQueues ==
  ASSUME NEW s, NEW t, NEW X1, NEW X2, NEW Y1, NEW Y2,
         QueueOf(s, X1, X2), QueueOf(t, Y1, Y2),
         Disjoint(X1, Y1), Disjoint(X2, Y2),
         OnlyOf(s, Sum1) \/ OnlyOf(t, Sum2)
  PROVE  QueueOf(s \o t, X1 \cup Y1, X2 \cup Y2)
<1>1. s \in Seq(Launches) /\ t \in Seq(Launches)
  BY DEF QueueOf, Queued
<1>2. /\ CoverOf(s \o t, Sum1) = X1 \cup Y1 /\ CoverOf(s \o t, Sum2) = X2 \cup Y2
  BY <1>1, JoinCover DEF QueueOf
<1>3. Apart(s \o t, Sum1)
  BY <1>1, JoinApart DEF QueueOf, Queued
<1>4. Apart(s \o t, Sum2)
  BY <1>1, JoinApart DEF QueueOf, Queued
<1>5. PICK n \in Nat, m \in Nat, u \in Seq(Launches) :
        /\ u = s \o t
        /\ DOMAIN u = 1 .. n + m /\ DOMAIN s = 1 .. n /\ DOMAIN t = 1 .. m
        /\ \A i \in 1 .. n + m : u[i] = IF i <= n THEN s[i] ELSE t[i - n]
  <2>1. /\ s \o t \in Seq(Launches) /\ DOMAIN (s \o t) = 1 .. Len(s) + Len(t)
        /\ DOMAIN s = 1 .. Len(s) /\ DOMAIN t = 1 .. Len(t)
        /\ Len(s) \in Nat /\ Len(t) \in Nat
        /\ \A i \in 1 .. Len(s) + Len(t) :
             (s \o t)[i] = IF i <= Len(s) THEN s[i] ELSE t[i - Len(s)]
    BY <1>1, JoinElements
  <2>2. PICK n \in Nat, m \in Nat, u \in Seq(Launches) :
          n = Len(s) /\ m = Len(t) /\ u = s \o t
    BY <2>1
  <2>3. /\ DOMAIN u = 1 .. n + m /\ DOMAIN s = 1 .. n /\ DOMAIN t = 1 .. m
        /\ \A i \in 1 .. n + m : u[i] = IF i <= n THEN s[i] ELSE t[i - n]
    BY ONLY <2>1, <2>2
  <2> QED
    BY <2>2, <2>3
<1>6. ASSUME NEW i \in DOMAIN u PROVE LaunchOK(u[i])
  <2>1. CASE i <= n
    <3>1. i \in DOMAIN s /\ u[i] = s[i]
      BY <1>5, <2>1
    <3> QED
      BY <3>1 DEF QueueOf, Queued
  <2>2. CASE i > n
    <3>1. i - n \in DOMAIN t /\ u[i] = t[i - n]
      BY <1>5, <2>2
    <3> QED
      BY <3>1 DEF QueueOf, Queued
  <2> QED
    BY <1>5, <2>1, <2>2
<1>7. ASSUME NEW i \in DOMAIN u, NEW j \in DOMAIN u, i < j, u[j].kernel \in Sum1
      PROVE  u[i].kernel \in Sum1
  <2>1. CASE j <= n
    <3>1. i \in DOMAIN s /\ j \in DOMAIN s /\ u[i] = s[i] /\ u[j] = s[j]
      BY <1>5, <1>7, <2>1
    <3> QED
      BY <1>7, <3>1 DEF QueueOf, Queued, Ordered
  <2>2. CASE i <= n /\ j > n
    <3>1. i \in DOMAIN s /\ j - n \in DOMAIN t /\ u[i] = s[i] /\ u[j] = t[j - n]
      BY <1>5, <1>7, <2>2
    <3>2. ~OnlyOf(t, Sum2)
      <4>1. \A x \in Sum1 : x \notin Sum2
        BY DEF Sum1, Sum2
      <4> QED
        BY <1>7, <3>1, <4>1 DEF OnlyOf
    <3> QED
      BY <3>1, <3>2 DEF OnlyOf
  <2>3. CASE i > n
    <3>1. /\ i - n \in DOMAIN t /\ j - n \in DOMAIN t /\ i - n < j - n
          /\ u[i] = t[i - n] /\ u[j] = t[j - n]
      BY <1>5, <1>7, <2>3
    <3> QED
      BY <1>7, <3>1 DEF QueueOf, Queued, Ordered
  <2> QED
    BY <1>5, <2>1, <2>2, <2>3
<1> QED
  BY <1>2, <1>3, <1>4, <1>5, <1>6, <1>7 DEF QueueOf, Queued, Ordered

\* A queue of one launch.
LEMMA OneLaunch ==
  ASSUME NEW L, LaunchOK(L)
  PROVE  /\ QueueOf(<<L>>, ColsOf(L, Sum1), ColsOf(L, Sum2))
         /\ \A K : L.kernel \in K => OnlyOf(<<L>>, K)
<1>1. <<L>> \in Seq(Launches) /\ DOMAIN <<L>> = {1} /\ <<L>>[1] = L
  BY DEF LaunchOK
<1>2. \A K : CoverOf(<<L>>, K) = ColsOf(L, K)
  BY <1>1 DEF CoverOf
<1>3. \A K : Apart(<<L>>, K)
  BY <1>1 DEF Apart
<1>4. Ordered(<<L>>)
  BY <1>1 DEF Ordered
<1> QED
  BY <1>1, <1>2, <1>3, <1>4 DEF QueueOf, Queued, OnlyOf

\* A queue of chunks of length n of the columns before end.
ChunkOf(end, n, i) == {c \in 0 .. end - 1 : c \div n = i - 1}
Pieces(end, n, G) ==
  /\ end \in Nat /\ n \in Nat \ {0} /\ G \in Nat
  /\ \A i \in Nat : i < G <=> n * i < end

LEMMA ChunkIs ==
  ASSUME NEW end, NEW n, NEW G, Pieces(end, n, G), NEW i \in 1 .. G
  PROVE  \E lo \in Nat, hi \in Nat :
           /\ lo <= hi /\ ChunkOf(end, n, i) = lo .. hi /\ lo = n * (i - 1)
           /\ hi + 1 = IF n * i <= end THEN n * i ELSE end
           /\ hi < end /\ i - 1 \in Nat
<1>1. end \in Nat /\ n \in Nat \ {0} /\ G \in Nat /\ i - 1 \in Nat /\ i - 1 < G
  BY DEF Pieces
<1>2. PICK lo \in Nat : lo = n * (i - 1) /\ lo < end
  BY <1>1 DEF Pieces
<1>3. n * i = lo + n /\ n * ((i - 1) + 1) = lo + n
  <2>1. n * i = n * (i - 1) + n
    BY <1>1
  <2>2. (i - 1) + 1 = i
    OBVIOUS
  <2> QED
    BY <1>2, <2>1, <2>2
<1>4. PICK hi \in Nat : hi + 1 = IF lo + n <= end THEN lo + n ELSE end
  <2>1. CASE lo + n <= end
    <3>1. lo + n - 1 \in Nat /\ (lo + n - 1) + 1 = lo + n
      BY <1>1
    <3> QED
      BY <2>1, <3>1
  <2>2. CASE ~(lo + n <= end)
    <3>1. end - 1 \in Nat /\ (end - 1) + 1 = end
      BY <1>1, <1>2
    <3> QED
      BY <2>2, <3>1
  <2> QED
    BY <2>1, <2>2
<1>5. lo <= hi /\ hi < end
  BY <1>1, <1>2, <1>4
<1>6. ASSUME NEW c \in 0 .. end - 1
      PROVE  c \div n = i - 1 <=> c \in lo .. hi
  <2>1. c \div n = i - 1 <=> lo <= c /\ c < lo + n
    BY <1>1, <1>2, <1>3, DivIs, c \in Int, i - 1 \in Int
  <2> QED
    BY <1>1, <1>4, <2>1
<1>7. ChunkOf(end, n, i) = lo .. hi
  <2>1. lo .. hi \subseteq 0 .. end - 1
    BY <1>1, <1>5
  <2> QED
    BY <1>6, <2>1 DEF ChunkOf
<1> QED
  BY <1>1, <1>2, <1>3, <1>4, <1>5, <1>7

ChunksOf(s, end, n, G, k) ==
  /\ s \in Seq(Launches) /\ DOMAIN s = 1 .. G
  /\ \A i \in 1 .. G : /\ LaunchOK(s[i]) /\ s[i].kernel = k
                        /\ s[i].cols = ChunkOf(end, n, i)
FeedsTo(s, end, k) ==
  /\ QueueOf(s, IF k \in Sum1 THEN 0 .. end - 1 ELSE {},
                IF k \in Sum2 THEN 0 .. end - 1 ELSE {})
  /\ \A K : k \in K => OnlyOf(s, K)

LEMMA ChunkQueue ==
  ASSUME NEW end, NEW n, NEW G, Pieces(end, n, G), NEW s, NEW k,
         ChunksOf(s, end, n, G, k)
  PROVE  FeedsTo(s, end, k)
<1>0. /\ s \in Seq(Launches) /\ DOMAIN s = 1 .. G
      /\ \A i \in 1 .. G : /\ LaunchOK(s[i]) /\ s[i].kernel = k
                            /\ s[i].cols = ChunkOf(end, n, i)
  BY DEF ChunksOf
<1>1. \A K : \A i \in 1 .. G :
        ColsOf(s[i], K) = IF k \in K THEN ChunkOf(end, n, i) ELSE {}
  BY <1>0 DEF ColsOf
<1>2. ASSUME NEW c \in 0 .. end - 1
      PROVE  \E i \in 1 .. G : c \in ChunkOf(end, n, i)
  <2>1. end \in Nat /\ n \in Nat \ {0} /\ G \in Nat
        /\ \A i \in Nat : i < G <=> n * i < end
    BY DEF Pieces
  <2>2. PICK d \in Nat, r \in 0 .. n - 1 : d = c \div n /\ c = n * d + r
    <3>1. c \div n \in Nat /\ c % n \in 0 .. n - 1 /\ c = n * (c \div n) + (c % n)
      BY <2>1
    <3> QED
      BY <3>1
  <2>3. n * d < end
    <3>1. PICK y \in Nat : y = n * d
      BY <2>1
    <3> QED
      BY <2>1, <2>2, <3>1
  <2>4. d + 1 \in 1 .. G /\ (d + 1) - 1 = d
    BY <2>1, <2>3
  <2>5. c \in ChunkOf(end, n, d + 1)
    BY <2>2, <2>4 DEF ChunkOf
  <2> QED
    BY <2>4, <2>5
<1>3. ASSUME NEW K
      PROVE  CoverOf(s, K) = IF k \in K THEN 0 .. end - 1 ELSE {}
  <2>1. \A i \in 1 .. G : ChunkOf(end, n, i) \subseteq 0 .. end - 1
    BY DEF ChunkOf
  <2>2. CASE k \in K
    <3>1. \A i \in DOMAIN s : ColsOf(s[i], K) = ChunkOf(end, n, i) /\ i \in 1 .. G
      BY <1>0, <1>1, <2>2
    <3>2. CoverOf(s, K) \subseteq 0 .. end - 1
      BY <2>1, <3>1, Zenon DEF CoverOf
    <3>3. 0 .. end - 1 \subseteq CoverOf(s, K)
      <4> SUFFICES ASSUME NEW c \in 0 .. end - 1 PROVE c \in CoverOf(s, K)
        OBVIOUS
      <4>1. PICK i \in 1 .. G : c \in ChunkOf(end, n, i)
        BY <1>2
      <4>2. c \in ColsOf(s[i], K) /\ i \in DOMAIN s
        BY <1>0, <3>1, <4>1
      <4> QED
        BY <4>2, Zenon DEF CoverOf
    <3> QED
      BY <2>2, <3>2, <3>3
  <2>3. CASE k \notin K
    <3>1. \A i \in DOMAIN s : ColsOf(s[i], K) = {}
      BY <1>0, <1>1, <2>3
    <3> QED
      BY <2>3, <3>1 DEF CoverOf
  <2> QED
    BY <2>2, <2>3
<1>4. ASSUME NEW K PROVE Apart(s, K)
  <2> SUFFICES ASSUME NEW i \in 1 .. G, NEW j \in 1 .. G, i # j
               PROVE  Disjoint(ColsOf(s[i], K), ColsOf(s[j], K))
    BY <1>0 DEF Apart
  <2>1. Disjoint(ChunkOf(end, n, i), ChunkOf(end, n, j))
    <3> SUFFICES ASSUME NEW c \in 0 .. end - 1, c \div n = i - 1, c \div n = j - 1
                 PROVE  FALSE
      BY DEF ChunkOf, Disjoint
    <3>1. i - 1 = j - 1 /\ G \in Nat
      BY DEF Pieces
    <3> QED
      BY <3>1
  <2> QED
    BY <1>1, <2>1 DEF Disjoint
<1>5. Ordered(s)
  BY <1>0 DEF Ordered
<1>6. Queued(s)
  BY <1>0, <1>4, <1>5 DEF Queued
<1> QED
  BY <1>0, <1>3, <1>6 DEF FeedsTo, QueueOf, OnlyOf

\* A list of launches, given by position.
LEMMA LaunchList ==
  ASSUME NEW G \in Nat, NEW s, s = [i \in 1 .. G |-> s[i]],
         \A i \in 1 .. G : s[i] \in Launches
  PROVE  s \in Seq(Launches) /\ DOMAIN s = 1 .. G
<1>1. s \in [1 .. G -> Launches]
  BY Zenon
<1>2. [1 .. G -> Launches] \subseteq Seq(Launches)
  OBVIOUS
<1> QED
  BY <1>1, <1>2

LEMMA MulLess ==
  ASSUME NEW T \in Nat \ {0}, NEW x \in Int, NEW y \in Int
  PROVE  /\ x * T < y * T <=> x < y
         /\ x * T <= y * T <=> x <= y
<1>1. CASE x = y
  BY <1>1
<1>2. CASE x < y
  <2>1. PICK j \in Nat : y = x + 1 + j
    <3>1. y - x - 1 \in Nat /\ y = x + 1 + (y - x - 1)
      BY <1>2
    <3> QED
      BY <3>1
  <2>2. y * T = x * T + T + j * T
    BY ONLY <2>1, T \in Nat, x \in Int, j \in Nat
  <2>3. PICK a \in Int, z \in Nat : a = x * T /\ z = j * T
    OBVIOUS
  <2> QED
    BY <1>2, <2>2, <2>3
<1>3. CASE x > y
  <2>1. PICK j \in Nat : x = y + 1 + j
    <3>1. x - y - 1 \in Nat /\ x = y + 1 + (x - y - 1)
      BY <1>3
    <3> QED
      BY <3>1
  <2>2. x * T = y * T + T + j * T
    BY ONLY <2>1, T \in Nat, y \in Int, j \in Nat
  <2>3. PICK a \in Int, z \in Nat : a = y * T /\ z = j * T
    OBVIOUS
  <2> QED
    BY <1>3, <2>2, <2>3
<1> QED
  BY <1>1, <1>2, <1>3

LEMMA WholeIs ==
  ASSUME InputOK, NEW lo \in Nat, NEW hi \in Nat, NEW x \in Nat, NEW y \in Nat,
         lo = x * TokensPerBlock,
         hi + 1 = y * TokensPerBlock \/ hi + 1 >= Full
  PROVE  Whole(lo .. hi)
<1> SUFFICES ASSUME NEW k \in 0 .. NumBlocks - 1
             PROVE  \/ BlockCols(k) \subseteq lo .. hi
                    \/ Disjoint(BlockCols(k), lo .. hi)
  BY DEF Whole
<1>1. k \in Nat /\ NumBlocks \in Nat /\ k < NumBlocks
  BY InputIs
<1>2. PICK T \in Nat \ {0} : T = TokensPerBlock
  BY Bounds
<1>3. PICK f \in Nat : f = Full /\ f = NumBlocks * T
  BY <1>2, ColumnsAre
<1>4. \A c \in BlockCols(k) : c \in Int /\ c \div T = k
  <2>1. \A c \in BlockCols(k) : c \in Int
    BY DEF BlockCols
  <2> QED
    BY <1>1, <1>2, <2>1, BlockOf
<1>5. \A c \in Int : lo <= c <=> x <= c \div T
  BY <1>2, BlockOf
<1>6. \A c \in Int : y * T <= c <=> y <= c \div T
  BY <1>2, BlockOf
<1>7. \A c \in Int : f <= c <=> NumBlocks <= c \div T
  BY <1>1, <1>2, <1>3, BlockOf
<1>8. CASE k < x
  <2>1. \A c \in BlockCols(k) : ~(lo <= c)
    BY <1>1, <1>4, <1>5, <1>8
  <2> QED
    BY <2>1 DEF Disjoint
<1>9. CASE k >= x /\ hi + 1 >= Full
  <2>1. \A c \in BlockCols(k) : lo <= c /\ ~(f <= c)
    BY <1>1, <1>4, <1>5, <1>7, <1>9
  <2>2. BlockCols(k) \subseteq lo .. hi
    BY <1>3, <1>4, <1>9, <2>1
  <2> QED
    BY <2>2
<1>10. CASE k >= x /\ hi + 1 = y * T
  <2>1. PICK z \in Nat : z = y * T
    BY <1>2
  <2>2. \A c \in BlockCols(k) : lo <= c /\ (z <= c <=> y <= k) /\ c \in Int
    BY <1>1, <1>4, <1>5, <1>6, <1>10, <2>1
  <2>3. CASE y <= k
    <3>1. \A c \in BlockCols(k) : hi + 1 <= c
      BY <1>10, <2>1, <2>2, <2>3
    <3> QED
      BY <3>1 DEF Disjoint
  <2>4. CASE ~(y <= k)
    <3>1. \A c \in BlockCols(k) : lo <= c /\ c < hi + 1
      BY <1>10, <2>1, <2>2, <2>4
    <3>2. BlockCols(k) \subseteq lo .. hi
      BY <2>2, <3>1
    <3> QED
      BY <3>2
  <2> QED
    BY <2>3, <2>4
<1> QED
  BY <1>1, <1>2, <1>8, <1>9, <1>10

\* A launch over an interval, and one over a chunk.
LEMMA RangeLaunch ==
  ASSUME InputOK, NEW L \in Launches, KernelOK(L), ActiveOK(L),
         NEW lo \in Nat, NEW hi \in Nat, lo <= hi, L.cols = lo .. hi,
         lo .. hi \subseteq Planned, L.kernel # "accumulate"
  PROVE  LaunchOK(L)
  BY DEF LaunchOK, ColumnsOK

LEMMA ChunkLaunch ==
  ASSUME InputOK, NEW end, NEW n, NEW G, Pieces(end, n, G), NEW i \in 1 .. G,
         0 .. end - 1 \subseteq Planned, end >= Full,
         NEW L \in Launches, KernelOK(L), ActiveOK(L),
         L.cols = ChunkOf(end, n, i),
         NEW x \in Nat, n = x * TokensPerBlock,
         L.kernel = "accumulate" => L.block = (i - 1) * x
  PROVE  LaunchOK(L)
<1>1. PICK lo \in Nat, hi \in Nat :
           /\ lo <= hi /\ ChunkOf(end, n, i) = lo .. hi /\ lo = n * (i - 1)
           /\ hi + 1 = IF n * i <= end THEN n * i ELSE end
           /\ hi < end /\ i - 1 \in Nat
  BY ChunkIs
<1>2. PICK T \in Nat \ {0} : T = TokensPerBlock
  BY Bounds
<1>3. /\ (i - 1) * x \in Nat /\ i * x \in Nat
      /\ n * (i - 1) = ((i - 1) * x) * T /\ n * i = (i * x) * T
  <2>1. PICK j \in Nat, k \in Nat : j = i - 1 /\ k = i
    BY <1>1, i \in Nat
  <2>2. (x * T) * j = (j * x) * T /\ (x * T) * k = (k * x) * T
    OBVIOUS
  <2> QED
    BY <1>2, <2>1, <2>2
<1>4. lo .. hi \subseteq Planned
  BY <1>1 DEF ChunkOf
<1>5. Whole(lo .. hi)
  <2>1. end \in Nat /\ Full \in Nat
    BY ColumnsAre DEF Pieces
  <2>2. PICK p \in Nat, q \in Nat : p = (i - 1) * x /\ q = i * x
    BY <1>3
  <2>3. lo = p * TokensPerBlock
    BY <1>1, <1>2, <1>3, <2>2
  <2>4. hi + 1 = q * TokensPerBlock \/ hi + 1 >= Full
    BY <1>1, <1>2, <1>3, <2>1, <2>2
  <2> QED
    BY <2>3, <2>4, WholeIs
<1>6. ColumnsOK(L)
  <2>1. L.kernel = "accumulate" => lo = L.block * TokensPerBlock
    BY <1>1, <1>2, <1>3
  <2> QED
    BY <1>1, <1>4, <1>5, <2>1 DEF ColumnsOK
<1> QED
  BY <1>6 DEF LaunchOK

\* The groups of blocks.
LEMMA GroupsAre ==
  ASSUME InputOK
  PROVE  /\ Pieces(Full, GroupLen, Groups) /\ GroupLen = in.group * TokensPerBlock
         /\ Groups \in Nat
         /\ \A i \in 1 .. Groups : Group(i) = ChunkOf(Full, GroupLen, i)
<1>1. PICK T \in Nat \ {0}, g \in Nat \ {0}, b \in Nat :
        T = TokensPerBlock /\ g = in.group /\ b = NumBlocks
  <2>1. in.group \in Nat \ {0} /\ NumBlocks \in Nat
    BY InputIs
  <2> QED
    BY <2>1, Bounds
<1>2. PICK n \in Nat \ {0} : n = GroupLen /\ n = g * T
  <2>1. g * T \in Nat \ {0}
    OBVIOUS
  <2> QED
    BY <1>1, <2>1 DEF GroupLen
<1>3. Full = b * T /\ Full \in Nat
  BY <1>1, ColumnsAre
<1>4. Groups \in Nat /\ \A i \in Nat : i < Groups <=> g * i < b
  BY <1>1, Ceil DEF Groups
<1>5. ASSUME NEW i \in Nat
      PROVE  /\ n * i = (g * i) * T /\ g * i \in Nat
             /\ n * i < Full <=> g * i < b
             /\ n * i <= Full <=> g * i <= b
  <2>1. n * i = (g * i) * T /\ g * i \in Nat
    BY <1>2
  <2> QED
    BY <1>3, <2>1, MulLess
<1>6. Pieces(Full, n, Groups)
  BY <1>3, <1>4, <1>5 DEF Pieces
<1>7. ASSUME NEW i \in 1 .. Groups
      PROVE  Group(i) = ChunkOf(Full, n, i)
  <2>1. PICK lo \in Nat, hi \in Nat :
           /\ lo <= hi /\ ChunkOf(Full, n, i) = lo .. hi /\ lo = n * (i - 1)
           /\ hi + 1 = IF n * i <= Full THEN n * i ELSE Full
           /\ hi < Full /\ i - 1 \in Nat
    BY ONLY <1>6, i \in 1 .. Groups, ChunkIs
  <2>2. lo = (i - 1) * in.group * TokensPerBlock
    <3>1. PICK j \in Nat : j = i - 1
      BY <2>1
    <3>2. n * j = (j * g) * T
      BY <1>2
    <3> QED
      BY <1>1, <2>1, <3>1, <3>2
  <2>3. PICK q \in Nat : q = i * g /\ q = g * i
    BY i \in Nat
  <2>4. Min({q, b}) = IF q <= b THEN q ELSE b
    <3>1. \A z \in {q, b} : (\A w \in {q, b} : z <= w) <=> z = IF q <= b THEN q ELSE b
      OBVIOUS
    <3> QED
      BY <3>1 DEF Min
  <2>5. hi + 1 = Min({q, b}) * T
    BY <1>3, <1>5, <2>1, <2>3, <2>4, i \in Nat
  <2>6. hi = Min({i * in.group, NumBlocks}) * TokensPerBlock - 1
    <3>1. PICK z \in Int : z = Min({q, b}) * T
      BY <2>1, <2>5
    <3> QED
      BY <1>1, <2>1, <2>3, <2>5, <3>1
  <2> QED
    BY <2>1, <2>2, <2>6 DEF Group
<1> QED
  BY <1>1, <1>2, <1>4, <1>6, <1>7

\* A queue of chunks, all of one kernel.
KernelFits(k) ==
  k \in IF in.twoPass THEN {"stats", "accumulate"} ELSE {"step"}

IsList(s, G) == s = [i \in 1 .. G |-> s[i]]
Listed(s, end, n, G, k, x) ==
  \A i \in 1 .. G :
    /\ s[i] \in Launches /\ s[i].kernel = k
    /\ s[i].cols = ChunkOf(end, n, i) /\ ActiveOK(s[i])
    /\ k = "accumulate" => s[i].block = (i - 1) * x

LEMMA LaunchQueue ==
  ASSUME InputOK, NEW end, NEW n, NEW G, Pieces(end, n, G),
         0 .. end - 1 \subseteq Planned, end >= Full,
         NEW x \in Nat, n = x * TokensPerBlock,
         NEW k, KernelFits(k), NEW s, IsList(s, G), Listed(s, end, n, G, k, x)
  PROVE  FeedsTo(s, end, k)
<1>1. ASSUME NEW i \in 1 .. G PROVE LaunchOK(s[i])
  <2>1. /\ s[i] \in Launches /\ s[i].kernel = k
        /\ s[i].cols = ChunkOf(end, n, i) /\ ActiveOK(s[i])
        /\ s[i].kernel = "accumulate" => s[i].block = (i - 1) * x
    BY DEF Listed
  <2>2. KernelOK(s[i])
    BY <2>1 DEF KernelFits, KernelOK
  <2>3. PICK L \in Launches : L = s[i]
    BY <2>1
  <2>4. /\ KernelOK(L) /\ ActiveOK(L) /\ L.cols = ChunkOf(end, n, i)
        /\ L.kernel = "accumulate" => L.block = (i - 1) * x
    BY <2>1, <2>2, <2>3
  <2>5. LaunchOK(L)
    BY <2>4, ChunkLaunch
  <2> QED
    BY <2>3, <2>5
<1>2. s \in Seq(Launches) /\ DOMAIN s = 1 .. G
  <2>1. G \in Nat
    BY DEF Pieces
  <2> QED
    BY <2>1, LaunchList DEF IsList, Listed
<1>3. ChunksOf(s, end, n, G, k)
  BY <1>1, <1>2 DEF ChunksOf, Listed
<1> QED
  BY ONLY <1>3, Pieces(end, n, G), ChunkQueue

PlanOK(s) ==
  /\ Queued(s) /\ CoverOf(s, Sum1) = Planned
  /\ in.twoPass => CoverOf(s, Sum2) = Planned

\* The groups and then the tail, once or, for the scores, twice.
LEMMA PassesAre ==
  ASSUME InputOK, Tiled, NEW active,
         \A i \in 1 .. Groups :
           /\ active[i] \in SUBSET RowIds
           /\ \A b \in RowIds \ active[i] : \A c \in Group(i) : ~Valid(b, c)
  PROVE  PlanOK(Passes(active))
<1> DEFINE rec(k, C, A, b) == [kernel |-> k, cols |-> C, active |-> A, block |-> b]
           at(k, i) == rec(k, Group(i), active[i],
                           IF k = "accumulate" THEN (i - 1) * in.group ELSE 0)
           groups(k) == [i \in 1 .. Groups |-> at(k, i)]
           tail(k) == rec(k, TailColumns, RowIds, 0)
<1>1. /\ Pieces(Full, GroupLen, Groups) /\ GroupLen = in.group * TokensPerBlock
      /\ Groups \in Nat /\ in.group \in Nat
      /\ \A i \in 1 .. Groups : Group(i) = ChunkOf(Full, GroupLen, i)
  BY GroupsAre, InputIs
<1>2. /\ Full \in Nat /\ Total - 1 \in Nat /\ Full <= Total - 1
      /\ 0 .. Total - 1 \subseteq Columns /\ Planned = 0 .. Total - 1
      /\ 0 .. Full - 1 \subseteq Planned /\ TailColumns = Full .. Total - 1
      /\ TailColumns \subseteq Planned
      /\ Disjoint(0 .. Full - 1, TailColumns)
      /\ (0 .. Full - 1) \cup TailColumns = Planned
  <2>1. in.mode # "one_layer"
    BY DEF Tiled
  <2>2. PICK f \in Nat, t \in Nat : f = Full /\ t = Total /\ f < t
    BY ColumnsAre
  <2>3. Planned = 0 .. t - 1 /\ TailColumns = f .. t - 1
    BY <2>1, <2>2 DEF Planned, TailColumns
  <2>4. 0 .. f - 1 \subseteq 0 .. t - 1 /\ f .. t - 1 \subseteq 0 .. t - 1
        /\ (0 .. f - 1) \cap (f .. t - 1) = {} /\ t - 1 \in Nat /\ f <= t - 1
        /\ (0 .. f - 1) \cup (f .. t - 1) = 0 .. t - 1
    BY <2>2
  <2> QED
    BY <2>2, <2>3, <2>4, ColumnsAre DEF Disjoint
<1>3. Grid = RowIds
  BY DEF Grid
<1>4. ASSUME NEW k \in {"step", "stats", "accumulate"}, KernelFits(k)
      PROVE  FeedsTo(groups(k), Full, k)
  <2>1. ASSUME NEW i \in 1 .. Groups
        PROVE  /\ at(k, i) \in Launches /\ at(k, i).kernel = k
               /\ at(k, i).cols = ChunkOf(Full, GroupLen, i) /\ ActiveOK(at(k, i))
               /\ k = "accumulate" => at(k, i).block = (i - 1) * in.group
    <3>1. PICK b : b = IF k = "accumulate" THEN (i - 1) * in.group ELSE 0
      OBVIOUS
    <3>2. b \in Nat
      <4>1. i - 1 \in Nat
        BY <1>1
      <4>2. (i - 1) * in.group \in Nat
        BY <1>1, <4>1
      <4> QED
        BY <3>1, <4>2
    <3>3. PICK r : r = rec(k, Group(i), active[i], b)
      OBVIOUS
    <3>4. /\ r.kernel = k /\ r.cols = Group(i) /\ r.active = active[i] /\ r.block = b
      BY <3>3
    <3>5. Group(i) \subseteq Columns
      BY <1>1, <1>2 DEF ChunkOf
    <3>6. r \in Launches
      <4>1. k \in Sum1 \cup Sum2
        BY DEF Sum1, Sum2
      <4> QED
        BY <3>2, <3>3, <3>5, <4>1 DEF Launches
    <3>7. ActiveOK(r)
      BY <1>3, <3>4 DEF ActiveOK
    <3>8. r = at(k, i)
      BY <3>1, <3>3
    <3> HIDE DEF at
    <3> QED
      BY <1>1, <3>1, <3>4, <3>6, <3>7, <3>8
  <2>2. PICK s : s = groups(k)
    OBVIOUS
  <2> HIDE DEF at
  <2>3. s = [i \in 1 .. Groups |-> s[i]] /\ \A i \in 1 .. Groups : s[i] = at(k, i)
    BY <2>2
  <2>4. \A i \in 1 .. Groups :
           /\ s[i] \in Launches /\ s[i].kernel = k
           /\ s[i].cols = ChunkOf(Full, GroupLen, i) /\ ActiveOK(s[i])
           /\ k = "accumulate" => s[i].block = (i - 1) * in.group
    BY <2>1, <2>3
  <2>5. PICK x \in Nat : x = in.group
    BY <1>1
  <2>6. Full >= Full /\ 0 .. Full - 1 \subseteq Planned
    BY <1>2
  <2>7. FeedsTo(s, Full, k)
    <3>1. IsList(s, Groups) /\ Listed(s, Full, GroupLen, Groups, k, x)
      BY <2>3, <2>4, <2>5 DEF IsList, Listed
    <3>2. GroupLen = x * TokensPerBlock /\ Pieces(Full, GroupLen, Groups)
      BY <1>1, <2>5
    <3> HIDE DEF groups
    <3> QED
      BY <1>4, <2>6, <3>1, <3>2, LaunchQueue
  <2> HIDE DEF groups
  <2> QED
    BY <2>2, <2>7
<1>5. ASSUME NEW k \in {"step", "stats", "fold"},
             k \in IF in.twoPass THEN {"stats", "fold"} ELSE {"step"}
      PROVE  /\ QueueOf(<<tail(k)>>, IF k \in Sum1 THEN TailColumns ELSE {},
                        IF k \in Sum2 THEN TailColumns ELSE {})
             /\ \A K : k \in K => OnlyOf(<<tail(k)>>, K)
  <2>1. PICK r : r = tail(k)
    OBVIOUS
  <2>2. r.kernel = k /\ r.cols = TailColumns /\ r.active = RowIds /\ r.block = 0
    BY <2>1
  <2>3. r \in Launches
    <3>1. k \in Sum1 \cup Sum2 /\ TailColumns \subseteq Columns /\ 0 \in Nat
      BY <1>2 DEF Sum1, Sum2
    <3> QED
      BY <2>1, <3>1 DEF Launches
  <2>4. KernelOK(r) /\ ActiveOK(r)
    BY <1>2, <1>3, <1>5, <2>2 DEF KernelOK, ActiveOK
  <2>5. PICK lo \in Nat, hi \in Nat : lo = Full /\ hi = Total - 1 /\ lo <= hi
    BY <1>2
  <2>6. LaunchOK(r)
    <3>1. r.cols = lo .. hi /\ lo .. hi \subseteq Planned /\ r.kernel # "accumulate"
      BY <1>2, <2>2, <2>5
    <3> QED
      BY <2>3, <2>4, <2>5, <3>1, RangeLaunch
  <2>7. /\ QueueOf(<<r>>, ColsOf(r, Sum1), ColsOf(r, Sum2))
        /\ \A K : r.kernel \in K => OnlyOf(<<r>>, K)
    BY <2>6, OneLaunch
  <2>8. \A K : ColsOf(r, K) = IF k \in K THEN TailColumns ELSE {}
    BY <2>2 DEF ColsOf
  <2> HIDE DEF tail
  <2> QED
    BY <2>1, <2>2, <2>7, <2>8
<1>6. \A S \in {Sum1, Sum2} : Disjoint(0 .. Full - 1, TailColumns) /\ Disjoint({}, {})
  BY <1>2 DEF Disjoint
<1>7. CASE ~in.twoPass
  <2>1. Passes(active) = groups("step") \o <<tail("step")>>
    BY <1>7 DEF Passes, streaming_attention_step
  <2>2. "step" \in Sum1 /\ "step" \notin Sum2 /\ KernelFits("step")
    BY <1>7 DEF Sum1, Sum2, KernelFits
  <2> HIDE DEF groups, tail, at
  <2>3. /\ QueueOf(groups("step"), 0 .. Full - 1, {}) /\ OnlyOf(groups("step"), Sum1)
        /\ QueueOf(<<tail("step")>>, TailColumns, {})
    BY <1>4, <1>5, <1>7, <2>2 DEF FeedsTo
  <2>4. QueueOf(groups("step") \o <<tail("step")>>,
                (0 .. Full - 1) \cup TailColumns, {} \cup {})
    BY <1>6, <2>3, JoinQueues
  <2> QED
    BY <1>2, <1>7, <2>1, <2>4 DEF PlanOK, QueueOf
<1>8. CASE in.twoPass
  <2>1. Passes(active) = ((groups("stats") \o <<tail("stats")>>)
                           \o groups("accumulate")) \o <<tail("fold")>>
    BY <1>8 DEF Passes, streaming_attention_stats_step,
       streaming_attention_accumulate_step, streaming_attention_fold_fixed_step
  <2>2. /\ "stats" \in Sum1 /\ "stats" \notin Sum2 /\ KernelFits("stats")
        /\ "accumulate" \in Sum2 /\ "accumulate" \notin Sum1 /\ KernelFits("accumulate")
        /\ "fold" \in Sum2 /\ "fold" \notin Sum1
    BY <1>8 DEF Sum1, Sum2, KernelFits
  <2> HIDE DEF groups, tail, at
  <2>3. /\ QueueOf(groups("stats"), 0 .. Full - 1, {}) /\ OnlyOf(groups("stats"), Sum1)
        /\ QueueOf(<<tail("stats")>>, TailColumns, {}) /\ OnlyOf(<<tail("stats")>>, Sum1)
        /\ QueueOf(groups("accumulate"), {}, 0 .. Full - 1)
        /\ OnlyOf(groups("accumulate"), Sum2)
        /\ QueueOf(<<tail("fold")>>, {}, TailColumns) /\ OnlyOf(<<tail("fold")>>, Sum2)
    BY <1>4, <1>5, <1>8, <2>2 DEF FeedsTo
  <2>4. PICK A, B, C, D : /\ A = groups("stats") /\ B = <<tail("stats")>>
                          /\ C = groups("accumulate") /\ D = <<tail("fold")>>
    OBVIOUS
  <2>5. PICK X, Y : X = 0 .. Full - 1 /\ Y = TailColumns
    OBVIOUS
  <2>6. /\ QueueOf(A, X, {}) /\ OnlyOf(A, Sum1) /\ QueueOf(B, Y, {}) /\ OnlyOf(B, Sum1)
        /\ QueueOf(C, {}, X) /\ OnlyOf(C, Sum2) /\ QueueOf(D, {}, Y) /\ OnlyOf(D, Sum2)
        /\ Disjoint(X, Y) /\ Disjoint({}, {}) /\ Disjoint(X \cup Y, {})
        /\ Disjoint({}, X) /\ X \cup Y = Planned
    BY <1>2, <2>3, <2>4, <2>5 DEF Disjoint
  <2>7. QueueOf(A \o B, X \cup Y, {} \cup {})
    BY <2>6, JoinQueues
  <2>8. QueueOf(A \o B, X \cup Y, {})
    BY <2>7
  <2>9. QueueOf((A \o B) \o C, (X \cup Y) \cup {}, {} \cup X)
    BY <2>6, <2>8, JoinQueues
  <2>10. QueueOf((A \o B) \o C, X \cup Y, X)
    BY <2>9
  <2>11. QueueOf(((A \o B) \o C) \o D, (X \cup Y) \cup {}, X \cup Y)
    BY <2>6, <2>10, JoinQueues
  <2> QED
    BY <1>8, <2>1, <2>4, <2>6, <2>11 DEF PlanOK, QueueOf
<1> QED
  BY <1>7, <1>8

\* A launch of the experiments, and a queue of them.
LEMMA PlainLaunch ==
  ASSUME InputOK, ~Tiled, NEW k \in Sum1 \cup Sum2, NEW C \in SUBSET Columns,
         NEW b \in Nat, NEW L,
         L = [kernel |-> k, cols |-> C, active |-> {0}, block |-> b]
  PROVE  /\ L \in Launches /\ L.kernel = k /\ L.cols = C /\ L.block = b
         /\ ActiveOK(L)
<1>1. {0} \in SUBSET RowIds
  BY InputIs
<1>2. L \in Launches
  BY <1>1 DEF Launches
<1>3. L.active = {0} /\ Grid = {0}
  BY DEF Grid
<1> QED
  BY <1>2, <1>3 DEF ActiveOK

LEMMA PlainQueue ==
  ASSUME InputOK, ~Tiled, NEW end, NEW n, NEW G, Pieces(end, n, G),
         0 .. end - 1 \subseteq Planned, end >= Full,
         NEW x \in Nat, n = x * TokensPerBlock,
         NEW k \in Sum1 \cup Sum2, KernelFits(k), NEW s,
         s = [i \in 1 .. G |->
                [kernel |-> k, cols |-> ChunkOf(end, n, i), active |-> {0},
                 block |-> IF k = "accumulate" THEN (i - 1) * x ELSE 0]]
  PROVE  FeedsTo(s, end, k)
<1>1. ASSUME NEW i \in 1 .. G
      PROVE  /\ s[i] \in Launches /\ s[i].kernel = k
             /\ s[i].cols = ChunkOf(end, n, i) /\ ActiveOK(s[i])
             /\ k = "accumulate" => s[i].block = (i - 1) * x
  <2>1. PICK b : b = IF k = "accumulate" THEN (i - 1) * x ELSE 0
    OBVIOUS
  <2>2. b \in Nat
    <3>1. i - 1 \in Nat
      BY DEF Pieces
    <3>2. (i - 1) * x \in Nat
      BY <3>1
    <3> QED
      BY <2>1, <3>2
  <2>3. PICK C : C = ChunkOf(end, n, i)
    OBVIOUS
  <2>4. C \in SUBSET Columns
    <3>1. C \subseteq 0 .. end - 1
      BY <2>3 DEF ChunkOf
    <3> QED
      BY <3>1, ColumnsAre
  <2>5. s[i] = [kernel |-> k, cols |-> C, active |-> {0}, block |-> b]
    BY <2>1, <2>3
  <2>6. PICK L : L = s[i]
    OBVIOUS
  <2>7. /\ L \in Launches /\ L.kernel = k /\ L.cols = C /\ L.block = b
        /\ ActiveOK(L)
    BY ONLY InputOK, ~Tiled, k \in Sum1 \cup Sum2, <2>2, <2>4, <2>5, <2>6, PlainLaunch
  <2> QED
    BY <2>1, <2>3, <2>6, <2>7
<1>2. IsList(s, G) /\ Listed(s, end, n, G, k, x)
  BY <1>1 DEF IsList, Listed
<1> QED
  BY ONLY InputOK, Pieces(end, n, G), 0 .. end - 1 \subseteq Planned,
          end >= Full, x \in Nat, n = x * TokensPerBlock, KernelFits(k),
          <1>2, LaunchQueue

LEMMA TotalPieces ==
  ASSUME InputOK, NEW n \in Nat \ {0}
  PROVE  /\ Pieces(Total, n, (Total + n - 1) \div n)
         /\ Chunks(n) = 1 .. (Total + n - 1) \div n
         /\ \A i : Chunk(i, n) = ChunkOf(Total, n, i)
<1>1. Total \in Nat
  BY ColumnsAre
<1>2. Pieces(Total, n, (Total + n - 1) \div n)
  BY <1>1, Ceil DEF Pieces
<1> QED
  BY <1>2 DEF Chunks, Chunk, ChunkOf

LEMMA ExperimentIs ==
  ASSUME InputOK, ~Tiled
  PROVE  /\ in.twoPass <=> in.mode = "mass"
         /\ in.mode # "one_layer" => Planned = 0 .. Total - 1
         /\ 0 .. Full - 1 \subseteq Planned
         /\ Full \in Nat /\ Total \in Nat /\ Total - 1 \in Nat /\ Full <= Total - 1
         /\ Planned \subseteq Columns
         /\ in.group \in Nat \ {0} /\ TokensPerBlock \in Nat \ {0}
         /\ GroupLen \in Nat \ {0} /\ GroupLen = in.group * TokensPerBlock
<1>1. in.mode \notin {"layer", "sessions"} /\ Possible(in)
  BY DEF Tiled, InputOK
<1>2. in.twoPass <=> in.mode = "mass"
  BY <1>1 DEF Possible
<1>3. Full \in Nat /\ Total \in Nat /\ Total - 1 \in Nat /\ Full <= Total - 1
  <2>1. PICK f \in Nat, t \in Nat \ {0} : f = Full /\ t = Total /\ f < t
    BY ColumnsAre
  <2> QED
    BY <2>1
<1>4. 0 .. Full - 1 \subseteq Planned
  BY <1>3 DEF Planned
<1>5. GroupLen \in Nat \ {0} /\ GroupLen = in.group * TokensPerBlock
      /\ in.group \in Nat \ {0} /\ TokensPerBlock \in Nat \ {0}
  <2>1. PICK g \in Nat \ {0}, T \in Nat \ {0} : g = in.group /\ T = TokensPerBlock
    BY Bounds, InputIs
  <2>2. g * T \in Nat \ {0}
    OBVIOUS
  <2> QED
    BY <2>1, <2>2 DEF GroupLen
<1> QED
  BY <1>2, <1>3, <1>4, <1>5, ColumnsAre DEF Planned

\* One launch of the columns after the groups.
LEMMA PlainTail ==
  ASSUME InputOK, ~Tiled, ~in.twoPass, NEW lo \in Nat, NEW hi \in Nat, lo <= hi,
         lo .. hi \subseteq Planned, NEW k \in {"step", "one_shot"},
         k = "one_shot" => PerHead /\ lo .. hi = Planned,
         NEW L,
         L = [kernel |-> k, cols |-> lo .. hi, active |-> {0}, block |-> 0]
  PROVE  QueueOf(<<L>>, lo .. hi, {})
<1>1. PICK C \in SUBSET Columns : C = lo .. hi
  <2>1. lo .. hi \subseteq Columns
    BY ExperimentIs
  <2> QED
    BY <2>1
<1>2. k \in Sum1 \cup Sum2 /\ 0 \in Nat
  BY DEF Sum1
<1>3. L = [kernel |-> k, cols |-> C, active |-> {0}, block |-> 0]
  BY <1>1
<1>4. L \in Launches /\ L.kernel = k /\ L.cols = C /\ ActiveOK(L)
  BY ONLY InputOK, ~Tiled, C \in SUBSET Columns, <1>2, <1>3, PlainLaunch
<1>5. KernelOK(L)
  BY <1>1, <1>4 DEF KernelOK
<1>6. L.cols = lo .. hi /\ L.kernel # "accumulate"
  BY <1>1, <1>4
<1>7. LaunchOK(L)
  BY ONLY InputOK, <1>4, <1>5, <1>6, lo \in Nat, hi \in Nat, lo <= hi,
          lo .. hi \subseteq Planned, RangeLaunch
<1>8. QueueOf(<<L>>, ColsOf(L, Sum1), ColsOf(L, Sum2))
  BY <1>7, OneLaunch
<1>9. ColsOf(L, Sum1) = lo .. hi /\ ColsOf(L, Sum2) = {}
  BY <1>4, <1>6 DEF ColsOf, Sum1, Sum2
<1> QED
  BY <1>8, <1>9

LEMMA OneShotPlan ==
  ASSUME InputOK, in.mode = "one_shot"
  PROVE  PlanOK(build_triton_streaming_forward)
<1>1. ~Tiled /\ PerHead /\ ~in.twoPass /\ in.mode # "one_layer"
  <2>1. ~Tiled /\ PerHead
    BY DEF Tiled, PerHead
  <2> QED
    BY <2>1, ExperimentIs
<1>2. PICK hi \in Nat : hi = Total - 1 /\ Planned = 0 .. hi
  BY <1>1, ExperimentIs
<1>3. PICK L : L = [kernel |-> "one_shot", cols |-> 0 .. hi, active |-> {0}, block |-> 0]
  OBVIOUS
<1>4. QueueOf(<<L>>, 0 .. hi, {})
  BY <1>1, <1>2, <1>3, PlainTail, 0 \in Nat, 0 <= hi
<1>5. build_triton_streaming_forward = <<L>>
  BY <1>2, <1>3 DEF build_triton_streaming_forward
<1> QED
  BY <1>1, <1>2, <1>4, <1>5 DEF PlanOK, QueueOf

\* The chunks of all columns, of x blocks each, by one kernel.
LEMMA TotalQueue ==
  ASSUME InputOK, ~Tiled, in.mode # "one_layer", NEW x \in Nat \ {0},
         NEW n \in Nat \ {0}, n = x * TokensPerBlock,
         NEW k \in Sum1 \cup Sum2, KernelFits(k), NEW s,
         s = [i \in Chunks(n) |->
                [kernel |-> k, cols |-> Chunk(i, n), active |-> {0},
                 block |-> IF k = "accumulate" THEN (i - 1) * x ELSE 0]]
  PROVE  FeedsTo(s, Total, k)
<1>1. PICK G : G = (Total + n - 1) \div n
  OBVIOUS
<1>2. /\ Pieces(Total, n, G) /\ Chunks(n) = 1 .. G
      /\ \A i : Chunk(i, n) = ChunkOf(Total, n, i)
  BY <1>1, TotalPieces
<1>3. 0 .. Total - 1 \subseteq Planned /\ Total >= Full
  BY ExperimentIs
<1>4. s = [i \in 1 .. G |->
                [kernel |-> k, cols |-> ChunkOf(Total, n, i), active |-> {0},
                 block |-> IF k = "accumulate" THEN (i - 1) * x ELSE 0]]
  BY <1>2
<1>5. x \in Nat
  OBVIOUS
<1> QED
  BY ONLY InputOK, ~Tiled, <1>2, <1>3, <1>4, <1>5, n = x * TokensPerBlock,
          k \in Sum1 \cup Sum2, KernelFits(k), PlainQueue

LEMMA GroupedPlan ==
  ASSUME InputOK, ~Tiled, in.mode # "one_layer", in.mode # "mass",
         NEW x \in Nat \ {0}, NEW n \in Nat \ {0}, n = x * TokensPerBlock,
         NEW s,
         s = [i \in Chunks(n) |-> streaming_attention_step(Chunk(i, n), {0})]
  PROVE  PlanOK(s)
<1>1. ~in.twoPass /\ Planned = 0 .. Total - 1
  BY ExperimentIs
<1>2. PICK k : k = "step"
  OBVIOUS
<1>3. k \in Sum1 \cup Sum2 /\ KernelFits(k) /\ k \in Sum1 /\ k \notin Sum2
      /\ k # "accumulate"
  BY <1>1, <1>2 DEF Sum1, Sum2, KernelFits
<1>4. s = [i \in Chunks(n) |->
                [kernel |-> k, cols |-> Chunk(i, n), active |-> {0},
                 block |-> IF k = "accumulate" THEN (i - 1) * x ELSE 0]]
  BY <1>2, <1>3 DEF streaming_attention_step
<1>5. FeedsTo(s, Total, k)
  BY ONLY InputOK, ~Tiled, in.mode # "one_layer", x \in Nat \ {0},
          n \in Nat \ {0}, n = x * TokensPerBlock, <1>3, <1>4, TotalQueue
<1> QED
  BY <1>1, <1>3, <1>5 DEF FeedsTo, PlanOK, QueueOf

LEMMA MassPlan ==
  ASSUME InputOK, in.mode = "mass"
  PROVE  PlanOK(run_mass_case)
<1>1. ~Tiled /\ in.mode # "one_layer"
  BY DEF Tiled
<1>2. in.twoPass /\ Planned = 0 .. Total - 1
  BY <1>1, ExperimentIs
<1>3. PICK x \in Nat \ {0}, n \in Nat \ {0}, T \in Nat \ {0} :
        x = in.group /\ n = GroupLen /\ T = TokensPerBlock /\ n = x * TokensPerBlock
  BY <1>1, ExperimentIs
<1>4. PICK k, j : k = "stats" /\ j = "accumulate"
  OBVIOUS
<1>5. /\ k \in Sum1 \cup Sum2 /\ KernelFits(k) /\ k \in Sum1 /\ k \notin Sum2
      /\ j \in Sum1 \cup Sum2 /\ KernelFits(j) /\ j \notin Sum1 /\ j \in Sum2
      /\ k # "accumulate" /\ j = "accumulate"
  BY <1>2, <1>4 DEF Sum1, Sum2, KernelFits
<1>6. PICK s : s = [i \in Chunks(n) |->
                [kernel |-> k, cols |-> Chunk(i, n), active |-> {0},
                 block |-> IF k = "accumulate" THEN (i - 1) * x ELSE 0]]
  OBVIOUS
<1>7. PICK t : t = [i \in Chunks(n) |->
                [kernel |-> j, cols |-> Chunk(i, n), active |-> {0},
                 block |-> IF j = "accumulate" THEN (i - 1) * x ELSE 0]]
  OBVIOUS
<1>8. FeedsTo(s, Total, k)
  BY ONLY InputOK, <1>1, <1>3, x \in Nat \ {0}, n \in Nat \ {0}, <1>5, <1>6, TotalQueue
<1>9. FeedsTo(t, Total, j)
  BY ONLY InputOK, <1>1, <1>3, x \in Nat \ {0}, n \in Nat \ {0}, <1>5, <1>7, TotalQueue
<1>10. \A i \in Chunks(n) : ((i - 1) * n) \div T = (i - 1) * x
  <2> SUFFICES ASSUME NEW i \in Int PROVE ((i - 1) * n) \div T = (i - 1) * x
    BY DEF Chunks
  <2>1. PICK y \in Int : y = (i - 1) * x
    OBVIOUS
  <2>2. (i - 1) * n = T * y
    <3>1. PICK z \in Int : z = i - 1
      OBVIOUS
    <3>2. z * (x * T) = T * (z * x)
      OBVIOUS
    <3> QED
      BY <1>3, <2>1, <3>1, <3>2
  <2>3. (T * y) \div T = y
    <3>1. T * y < T * (y + 1) /\ T * y \in Int
      BY T * (y + 1) = T * y + T
    <3> QED
      BY <3>1, DivIs
  <2> QED
    BY <2>1, <2>2, <2>3
<1>11. run_mass_case = s \o t
  <2>1. [i \in Chunks(n) |-> streaming_attention_stats_step(Chunk(i, n), {0})] = s
    BY <1>4, <1>6 DEF streaming_attention_stats_step
  <2>2. [i \in Chunks(n) |-> streaming_attention_accumulate_step(
           Chunk(i, n), {0}, ((i - 1) * n) \div T)] = t
    <3>1. \A i \in Chunks(n) :
            streaming_attention_accumulate_step(Chunk(i, n), {0}, ((i - 1) * n) \div T)
              = [kernel |-> j, cols |-> Chunk(i, n), active |-> {0},
                 block |-> IF j = "accumulate" THEN (i - 1) * x ELSE 0]
      BY <1>4, <1>10 DEF streaming_attention_accumulate_step
    <3> QED
      BY ONLY <1>7, <3>1, Zenon
  <2>3. run_mass_case =
          [i \in Chunks(n) |-> streaming_attention_stats_step(Chunk(i, n), {0})]
            \o [i \in Chunks(n) |-> streaming_attention_accumulate_step(
                  Chunk(i, n), {0}, ((i - 1) * n) \div T)]
    BY <1>3, Zenon DEF run_mass_case
  <2> QED
    BY <2>1, <2>2, <2>3, Zenon
<1>12. PICK X : X = 0 .. Total - 1
  OBVIOUS
<1>13. /\ QueueOf(s, X, {}) /\ OnlyOf(s, Sum1) /\ QueueOf(t, {}, X)
       /\ Disjoint(X, {}) /\ Disjoint({}, X)
  BY <1>5, <1>8, <1>9, <1>12 DEF FeedsTo, Disjoint
<1>14. QueueOf(s \o t, X \cup {}, {} \cup X)
  BY ONLY <1>13, JoinQueues
<1>15. X \cup {} = X /\ {} \cup X = X
  OBVIOUS
<1> QED
  BY <1>2, <1>11, <1>12, <1>14, <1>15 DEF PlanOK, QueueOf

\* Steps over pieces of the blocks, then one over the rest.
LEMMA StepsPlan ==
  ASSUME InputOK, ~Tiled, ~in.twoPass, NEW x \in Nat, NEW n, NEW G,
         Pieces(Full, n, G), n = x * TokensPerBlock,
         NEW s, s = [i \in 1 .. G |->
                       streaming_attention_step(ChunkOf(Full, n, i), {0})],
         NEW lo \in Nat, NEW hi \in Nat, lo <= hi, Full <= lo,
         Planned = (0 .. Full - 1) \cup (lo .. hi), NEW L,
         L = streaming_attention_step(lo .. hi, {0})
  PROVE  PlanOK(s \o <<L>>)
<1>1. PICK k : k = "step"
  OBVIOUS
<1>2. k \in Sum1 \cup Sum2 /\ KernelFits(k) /\ k \in Sum1 /\ k \notin Sum2
      /\ k # "accumulate"
  BY <1>1 DEF Sum1, Sum2, KernelFits
<1>3. 0 .. Full - 1 \subseteq Planned /\ Full >= Full /\ lo .. hi \subseteq Planned
      /\ Full \in Nat
  BY ColumnsAre
<1>4. s = [i \in 1 .. G |->
                [kernel |-> k, cols |-> ChunkOf(Full, n, i), active |-> {0},
                 block |-> IF k = "accumulate" THEN (i - 1) * x ELSE 0]]
  BY <1>1, <1>2 DEF streaming_attention_step
<1>5. FeedsTo(s, Full, k)
  BY ONLY InputOK, ~Tiled, Pieces(Full, n, G), <1>2, <1>3, <1>4, x \in Nat,
          n = x * TokensPerBlock, PlainQueue
<1>6. PICK j \in {"step", "one_shot"} : j = "step"
  OBVIOUS
<1>7. L = [kernel |-> j, cols |-> lo .. hi, active |-> {0}, block |-> 0]
      /\ j # "one_shot"
  BY <1>6 DEF streaming_attention_step
<1>8. QueueOf(<<L>>, lo .. hi, {})
  BY ONLY InputOK, ~Tiled, ~in.twoPass, lo \in Nat, hi \in Nat, lo <= hi,
          <1>3, <1>6, j \in {"step", "one_shot"}, <1>7, PlainTail
<1>9. PICK X, Y : X = 0 .. Full - 1 /\ Y = lo .. hi
  OBVIOUS
<1>10. /\ QueueOf(s, X, {}) /\ OnlyOf(s, Sum1) /\ QueueOf(<<L>>, Y, {})
       /\ Disjoint(X, Y) /\ Disjoint({}, {}) /\ X \cup Y = Planned
  <2>1. Disjoint(X, Y)
    BY <1>3, <1>9 DEF Disjoint
  <2> QED
    BY <1>2, <1>5, <1>8, <1>9, <2>1 DEF FeedsTo, Disjoint
<1>11. QueueOf(s \o <<L>>, X \cup Y, {} \cup {})
  BY ONLY <1>10, JoinQueues
<1> QED
  BY <1>10, <1>11 DEF PlanOK, QueueOf

LEMMA FullLoopPlan ==
  ASSUME InputOK, in.mode = "full_loop"
  PROVE  PlanOK(build_layer_forward)
<1>1. ~Tiled /\ in.mode # "one_layer"
  BY DEF Tiled
<1>2. ~in.twoPass /\ Planned = 0 .. Total - 1
  BY <1>1, ExperimentIs
<1>3. PICK x \in Nat : x = in.group
  <2>1. in.group \in Nat
    BY <1>1, ExperimentIs
  <2> QED
    BY <2>1
<1>4. PICK lo \in Nat, hi \in Nat :
        lo = Full /\ hi = Total - 1 /\ lo <= hi /\ Full <= lo
  BY <1>1, ExperimentIs
<1>5. TailColumns = lo .. hi /\ Planned = (0 .. Full - 1) \cup (lo .. hi)
  <2>1. Planned = 0 .. hi
    BY <1>2, <1>4
  <2> QED
    BY <1>4, <2>1 DEF TailColumns
<1>6. /\ Pieces(Full, GroupLen, Groups) /\ GroupLen = x * TokensPerBlock
      /\ \A i \in 1 .. Groups : Group(i) = ChunkOf(Full, GroupLen, i)
  BY <1>3, GroupsAre
<1>7. PICK s : s = [i \in 1 .. Groups |-> streaming_attention_step(Group(i), {0})]
  OBVIOUS
<1>8. s = [i \in 1 .. Groups |->
             streaming_attention_step(ChunkOf(Full, GroupLen, i), {0})]
  BY <1>6, <1>7, Zenon
<1>9. PICK L : L = streaming_attention_step(lo .. hi, {0})
  OBVIOUS
<1>10. PlanOK(s \o <<L>>)
  BY ONLY InputOK, <1>1, <1>2, x \in Nat, <1>4, <1>5, <1>6, <1>8, <1>9,
          lo \in Nat, hi \in Nat, StepsPlan
<1>11. build_layer_forward = s \o <<L>>
  BY <1>5, <1>7, <1>9, Zenon DEF build_layer_forward
<1> QED
  BY <1>10, <1>11

LEMMA OneLayerPlan ==
  ASSUME InputOK, in.mode = "one_layer"
  PROVE  PlanOK(build_streaming_forward)
<1>1. ~Tiled
  BY DEF Tiled
<1>2. ~in.twoPass
  BY <1>1, ExperimentIs
<1>3. PICK lo \in Nat : lo = Total - 1 /\ Full <= lo /\ lo <= lo
  BY <1>1, ExperimentIs
<1>4. Planned = (0 .. Full - 1) \cup (lo .. lo) /\ {Total - 1} = lo .. lo
  <2>1. lo .. lo = {lo}
    OBVIOUS
  <2> QED
    BY <1>3, <2>1 DEF Planned
<1>5. PICK T \in Nat \ {0}, b \in Nat, f \in Nat :
        T = TokensPerBlock /\ b = NumBlocks /\ f = Full /\ f = b * T
  <2>1. NumBlocks \in Nat /\ Full \in Nat /\ Full = NumBlocks * TokensPerBlock
    BY InputIs, ColumnsAre
  <2> QED
    BY <2>1, Bounds
<1>6. Pieces(f, T, b)
  <2>1. ASSUME NEW i \in Nat PROVE i < b <=> T * i < f
    <3>1. T * i = i * T
      OBVIOUS
    <3> QED
      BY <1>5, <3>1, MulLess
  <2> QED
    BY <2>1 DEF Pieces
<1>7. ASSUME NEW i \in 1 .. b PROVE Chunk(i, T) = ChunkOf(f, T, i)
  <2>1. ASSUME NEW c \in Nat, c \div T = i - 1 PROVE c < f
    <3>1. PICK j \in Int : j = i - 1 /\ j + 1 <= b
      OBVIOUS
    <3>2. c < T * (j + 1)
      BY <2>1, <3>1, DivIs
    <3>3. (j + 1) * T <= b * T
      BY <3>1, MulLess
    <3>4. T * (j + 1) = (j + 1) * T
      OBVIOUS
    <3>5. PICK y \in Int : y = (j + 1) * T
      OBVIOUS
    <3> QED
      BY <1>5, <3>2, <3>3, <3>4, <3>5
  <2>2. PICK t \in Nat : t = Total /\ f < t
    BY <1>5, ColumnsAre
  <2> QED
    BY <2>1, <2>2 DEF Chunk, ChunkOf
<1>8. PICK s : s = [i \in 1 .. b |-> streaming_attention_step(ChunkOf(f, T, i), {0})]
  OBVIOUS
<1>9. PICK L : L = streaming_attention_step(lo .. lo, {0})
  OBVIOUS
<1>10. PlanOK(s \o <<L>>)
  <2>1. PICK x \in Nat : x = 1
    OBVIOUS
  <2>2. T = x * TokensPerBlock
    BY <1>5, <2>1
  <2>3. /\ Pieces(Full, T, b) /\ Full <= lo
        /\ s = [i \in 1 .. b |-> streaming_attention_step(ChunkOf(Full, T, i), {0})]
    BY <1>3, <1>5, <1>6, <1>8
  <2> QED
    BY ONLY InputOK, <1>1, <1>2, x \in Nat, <1>3, <1>4, <2>2, <2>3, <1>9,
            lo \in Nat, StepsPlan
<1>11. build_streaming_forward = s \o <<L>>
  <2>1. s = [i \in 1 .. b |-> streaming_attention_step(Chunk(i, T), {0})]
    BY <1>7, <1>8, Zenon
  <2> QED
    BY <1>4, <1>5, <1>9, <2>1, Zenon DEF build_streaming_forward
<1> QED
  BY <1>10, <1>11

\* The sessions that are not active in a group have only padding there.
LEMMA SessionsActive ==
  ASSUME InputOK, in.mode = "sessions", NEW i \in 1 .. Groups,
         NEW b \in RowIds \ group_row_active(i), NEW c \in Group(i)
  PROVE  ~Valid(b, c)
<1>1. Group(i) = ChunkOf(Full, GroupLen, i) /\ Pieces(Full, GroupLen, Groups)
      /\ GroupLen = in.group * TokensPerBlock
  BY GroupsAre
<1>2. c \in 0 .. Full - 1 /\ c < Full
  <2>1. c \in ChunkOf(Full, GroupLen, i)
    BY <1>1, Zenon
  <2>2. c \in 0 .. Full - 1
    BY <2>1, Zenon DEF ChunkOf
  <2> QED
    BY <2>2, ColumnsAre
<1>3. PICK p \in Nat, n \in Nat, k \in Int :
        /\ p = pad_blocks(b) /\ n = NumBlocks /\ p <= n /\ k = i * in.group
  <2>1. pad_blocks(b) \in 0 .. NumBlocks /\ NumBlocks \in Nat
    BY PaddingIs, InputIs
  <2>2. i * in.group \in Int
    BY InputIs
  <2> QED
    BY <2>1, <2>2
<1>4. PICK m \in Int : /\ m = Min({i * in.group, NumBlocks}) /\ m <= k /\ m <= n
                       /\ m \in {k, n}
  <2>1. \A z \in {k, n} : (\A w \in {k, n} : z <= w) <=> z = IF k <= n THEN k ELSE n
    OBVIOUS
  <2>2. Min({k, n}) = IF k <= n THEN k ELSE n
    BY <2>1 DEF Min
  <2>3. PICK m \in Int : m = Min({k, n}) /\ m \in {k, n} /\ m <= k /\ m <= n
    BY <2>2
  <2> QED
    BY <1>3, <2>3
<1>5. ~(p < m)
  BY <1>3, <1>4 DEF group_row_active
<1>6. c < m * TokensPerBlock
  <2>1. PICK y \in Int : y = m * TokensPerBlock
    BY Bounds
  <2>2. c <= y - 1
    BY <1>4, <2>1 DEF Group
  <2> QED
    BY <1>2, <2>1, <2>2
<1>7. PICK d \in Int : d = c \div TokensPerBlock
  BY BlockOf, <1>2, 0 \in Int
<1>8. ~(m <= d)
  <2>1. m <= d <=> m * TokensPerBlock <= c
    BY <1>2, <1>7, BlockOf, c \in Int
  <2>2. PICK y \in Int : y = m * TokensPerBlock
    BY Bounds
  <2> QED
    BY <1>2, <1>6, <2>1, <2>2
<1>9. d - p < 0
  BY <1>3, <1>5, <1>8
<1>10. ~GatherValid(b, c)
  <2>1. GatherValid(b, c) <=> c >= Full \/ d - p \in 0 .. in.nb[b] - 1
    BY <1>3, <1>7 DEF GatherValid
  <2>2. Full \in Nat
    BY ColumnsAre
  <2> QED
    BY <1>2, <1>3, <1>9, <2>1, <2>2
<1> QED
  BY <1>10 DEF Valid

\* The plan of a call feeds every column it is to feed, once.
LEMMA PlanIs ==
  ASSUME InputOK
  PROVE  PlanOK(Plan)
<1>1. in.mode \in {"layer", "sessions", "one_shot", "grouped", "mass",
                   "full_loop", "chunks", "one_layer"}
  BY InputIs, StreamingAssumption
<1>2. CASE in.mode = "layer"
  <2>1. PICK A : A = [i \in 1 .. Groups |-> RowIds]
    OBVIOUS
  <2>2. Tiled /\ \A i \in 1 .. Groups :
           /\ A[i] \in SUBSET RowIds
           /\ \A b \in RowIds \ A[i] : \A c \in Group(i) : ~Valid(b, c)
    BY <1>2, <2>1 DEF Tiled
  <2>3. PlanOK(Passes(A))
    BY <2>2, PassesAre
  <2>4. Plan = Passes(A)
    BY <1>2, <2>1 DEF Plan, LayerForward
  <2> QED
    BY <2>3, <2>4
<1>3. CASE in.mode = "sessions"
  <2>1. PICK A : A = [i \in 1 .. Groups |-> group_row_active(i)]
    OBVIOUS
  <2>2. Tiled /\ \A i \in 1 .. Groups :
           /\ A[i] \in SUBSET RowIds
           /\ \A b \in RowIds \ A[i] : \A c \in Group(i) : ~Valid(b, c)
    <3>1. Tiled
      BY <1>3 DEF Tiled
    <3>2. ASSUME NEW i \in 1 .. Groups
          PROVE  /\ A[i] \in SUBSET RowIds
                 /\ \A b \in RowIds \ A[i] : \A c \in Group(i) : ~Valid(b, c)
      <4>1. A[i] = group_row_active(i)
        BY <2>1
      <4>2. group_row_active(i) \in SUBSET RowIds
        BY DEF group_row_active
      <4> QED
        BY <1>3, <4>1, <4>2, SessionsActive
    <3> QED
      BY <3>1, <3>2
  <2>3. PlanOK(Passes(A))
    BY <2>2, PassesAre
  <2>4. Plan = Passes(A)
    BY <1>3, <2>1 DEF Plan, SessionsForward
  <2> QED
    BY <2>3, <2>4
<1>4. CASE in.mode = "one_shot"
  BY <1>4, OneShotPlan DEF Plan
<1>5. CASE in.mode = "grouped"
  <2>1. ~Tiled
    BY <1>5 DEF Tiled
  <2>2. PICK x \in Nat \ {0}, n \in Nat \ {0} :
          n = GroupLen /\ n = x * TokensPerBlock
    BY <2>1, ExperimentIs
  <2>3. PICK s : s = run_grouped_case
    OBVIOUS
  <2>4. s = [i \in Chunks(n) |-> streaming_attention_step(Chunk(i, n), {0})]
    BY <2>2, <2>3, Zenon DEF run_grouped_case
  <2>5. in.mode # "one_layer" /\ in.mode # "mass"
    BY <1>5
  <2>6. PlanOK(s)
    BY ONLY InputOK, <2>1, <2>2, <2>4, <2>5, x \in Nat \ {0}, n \in Nat \ {0},
            GroupedPlan
  <2> QED
    BY <1>5, <2>3, <2>6 DEF Plan
<1>6. CASE in.mode = "mass"
  BY <1>6, MassPlan DEF Plan
<1>7. CASE in.mode = "full_loop"
  BY <1>7, FullLoopPlan DEF Plan
<1>8. CASE in.mode = "chunks"
  <2>1. ~Tiled
    BY <1>8 DEF Tiled
  <2>2. PICK x \in Nat \ {0}, n \in Nat \ {0} :
          n = TokensPerBlock /\ n = x * TokensPerBlock
    <3>1. PICK T \in Nat \ {0} : T = TokensPerBlock
      BY Bounds
    <3>2. T = 1 * TokensPerBlock /\ 1 \in Nat \ {0}
      BY <3>1
    <3> QED
      BY <3>1, <3>2
  <2>3. PICK s : s = make_random_chunks
    OBVIOUS
  <2>4. s = [i \in Chunks(n) |-> streaming_attention_step(Chunk(i, n), {0})]
    BY <2>2, <2>3, Zenon DEF make_random_chunks
  <2>5. in.mode # "one_layer" /\ in.mode # "mass"
    BY <1>8
  <2>6. PlanOK(s)
    BY ONLY InputOK, <2>1, <2>2, <2>4, <2>5, x \in Nat \ {0}, n \in Nat \ {0},
            GroupedPlan
  <2> QED
    BY <1>8, <2>3, <2>6 DEF Plan
<1>9. CASE in.mode = "one_layer"
  BY <1>9, OneLayerPlan DEF Plan
<1> QED
  BY <1>1, <1>2, <1>3, <1>4, <1>5, <1>6, <1>7, <1>8, <1>9

-----------------------------------------------------------------------------
(* The initial states *)

\* The state of a row that has folded nothing is a fresh one.
LEMMA FreshIs ==
  ASSUME NEW a, Scored(a)
  PROVE  Fresh = StateOf(a, {}, {})
<1>1. MaxOf(a, {}) = NegInf
  BY MaxOfIs
<1>2. SumOf(a, {}, NegInf) = 0
  BY SumOfEmpty
<1>3. Terms(a, {}, NegInf) = [c \in Columns |-> 0]
  BY DEF Terms
<1> QED
  BY <1>1, <1>2, <1>3 DEF Fresh, StateOf

LEMMA InitHolds == Init => IInv
<1> SUFFICES ASSUME Init PROVE IInv
  OBVIOUS
<1>1. InputOK
  BY DEF Init, InputOK
<1>2. /\ todo = Plan /\ launch = Idle /\ pc = [p \in Programs |-> "stored"]
      /\ tile = [p \in Programs |-> <<>>] /\ mem = [a \in Addresses |-> Fresh]
      /\ mass = [a \in Addresses |-> [k \in 0 .. MaxBlocks + MaxTail |-> 0]]
  BY DEF Init
<1>3. PlanOK(todo)
  BY <1>1, <1>2, PlanIs
<1>4. launch.kernel \notin Sum1 \cup Sum2
  BY <1>2 DEF Idle, Sum1, Sum2
<1>5. InPlay \subseteq Addresses
  BY DEF InPlay
<1>6. TypeInv
  BY <1>1, <1>2 DEF TypeInv
<1>7. PlanInv
  <2>1. Queued(todo) /\ FirstPass
    BY <1>3 DEF PlanOK, FirstPass
  <2> QED
    BY <1>2, <2>1 DEF PlanInv
<1>8. ASSUME NEW a \in InPlay
      PROVE  Done(a, Sum1) = {} /\ Second(a) = {}
             /\ (in.twoPass => Done(a, Sum2) = {})
  <2>1. pc[Prog(a)] = "stored"
    BY <1>1, <1>2, HasProgram
  <2>2. \A K : Left(a, K) = CoverOf(todo, K)
    BY <2>1 DEF Left
  <2>3. Fed(a) \subseteq Planned
    BY <1>1, FedIs
  <2>4. Done(a, Sum1) = {} /\ (in.twoPass => Done(a, Sum2) = {})
    BY <1>3, <2>2, <2>3 DEF Done, PlanOK
  <2> QED
    BY <2>4 DEF Second
<1>9. StateInv
  <2>1. ASSUME NEW a \in InPlay PROVE mem[a] = StateOf(a, Done(a, Sum1), Second(a))
    <3>1. Scored(a) /\ mem[a] = Fresh
      BY <1>1, <1>2, <1>5, ScoredIs
    <3> QED
      BY <1>8, <3>1, FreshIs
  <2> QED
    BY <2>1 DEF StateInv
<1>10. MassInv
  <2>1. mass \in [Addresses -> [0 .. MaxBlocks + MaxTail -> Int]]
    BY <1>2
  <2>2. ASSUME in.twoPass, NEW a \in InPlay, NEW k \in 0 .. NumBlocks - 1
        PROVE  mass[a][k] = SumOf(a, Done(a, Sum2) \cap BlockCols(k),
                                  MaxOf(a, Done(a, Sum1)))
    <3>1. k \in 0 .. MaxBlocks + MaxTail
      BY <1>1, InputIs, StreamingAssumption
    <3>2. mass[a][k] = 0
      BY <1>2, <1>5, <3>1
    <3>3. Done(a, Sum2) \cap BlockCols(k) = {}
      BY <1>8, <2>2
    <3> QED
      BY <3>2, <3>3, SumOfEmpty
  <2> QED
    BY <2>1, <2>2 DEF MassInv
<1>11. TileInv
  BY <1>2 DEF TileInv
<1> QED
  BY <1>6, <1>7, <1>9, <1>10, <1>11 DEF IInv

-----------------------------------------------------------------------------
(* What a program folds *)

\* The scores of a row of a tile, where its program is active.
LEMMA ScoresAre ==
  ASSUME InputOK, LaunchOK(launch), NEW a \in InPlay, NEW p, p = Prog(a),
         NEW r \in TileRows, InTile(p, r), Address(p, r) = a,
         NEW N, N = Fed(a) \cap launch.cols
  PROVE  /\ RowOf(p) \in launch.active =>
              Scores(p, r) = ScoresOf(a, launch.cols, N)
         /\ RowOf(p) \notin launch.active => DOMAIN Scores(p, r) = {} /\ N = {}
         /\ N \subseteq Values(p)
         /\ ~Tiled => RowOf(p) \in launch.active /\ N = launch.cols
<1>1. /\ p \in Programs /\ RowOf(p) = a \div H /\ RowOf(p) \in Grid
  BY HasProgram, OwnRow
<1>2. PICK lo \in Nat, hi \in Nat :
        /\ lo <= hi /\ launch.cols = lo .. hi /\ launch.cols \subseteq Planned
  BY DEF LaunchOK, ColumnsOK
<1>3. N = {c \in launch.cols : Valid(RowOf(p), c)}
  BY <1>1, <1>2 DEF Fed
<1>4. Planned \subseteq 0 .. Total - 1
  BY ColumnsAre
<1>5. ASSUME RowOf(p) \in launch.active
      PROVE  Scores(p, r) = ScoresOf(a, launch.cols, N)
  BY <1>3, <1>5 DEF Scores, ScoresOf
<1>6. ASSUME RowOf(p) \notin launch.active
      PROVE  DOMAIN Scores(p, r) = {} /\ N = {}
  <2>1. DOMAIN Scores(p, r) = {}
    BY <1>6 DEF Scores
  <2>2. \A c \in launch.cols : ~Valid(RowOf(p), c)
    BY <1>1, <1>6 DEF LaunchOK, ActiveOK
  <2> QED
    BY <1>3, <2>1, <2>2
<1>7. N \subseteq Values(p)
  <2>1. ASSUME NEW c \in N PROVE c \in Values(p)
    <3>1. c \in launch.cols /\ Valid(RowOf(p), c) /\ c \in 0 .. Total - 1
      BY <1>2, <1>3, <1>4
    <3>2. ~ZeroBlock(RowOf(p), c)
      BY <1>1, <3>1, ValidIs
    <3> QED
      BY <3>1, <3>2 DEF Values
  <2> QED
    BY <2>1
<1>8. ASSUME ~Tiled PROVE RowOf(p) \in launch.active /\ N = launch.cols
  <2>1. \A c : Valid(RowOf(p), c)
    BY <1>8 DEF Valid, Tiled
  <2>2. N = launch.cols
    BY <1>3, <2>1
  <2>3. launch.cols # {}
    BY <1>2
  <2> QED
    BY <1>6, <2>2, <2>3
<1> QED
  BY <1>5, <1>6, <1>7, <1>8

\* The loops on the scores of a row, those of an inactive one included.
LEMMA OnlineLaunch ==
  ASSUME NEW a, Scored(a), NEW D \in SUBSET Columns, NEW E \in SUBSET D,
         NEW lo \in Nat, NEW hi \in Nat, lo <= hi, lo .. hi \subseteq Columns,
         NEW N \in SUBSET (lo .. hi), Disjoint(D, N), NEW V,
         NEW n \in Nat \ {0}, NEW guarded \in BOOLEAN, guarded \/ N = lo .. hi,
         NEW sc,
         sc = ScoresOf(a, lo .. hi, N) \/ (DOMAIN sc = {} /\ N = {})
  PROVE  OnlineLoop(StateOf(a, D, E), sc, n, V, guarded)
           = StateOf(a, D \cup N, E \cup (N \cap V))
<1>1. CASE sc = ScoresOf(a, lo .. hi, N)
  BY <1>1, OnlineLoopIs
<1>2. CASE DOMAIN sc = {} /\ N = {}
  <2>1. OnlineLoop(StateOf(a, D, E), sc, n, V, guarded) = StateOf(a, D, E)
    BY <1>2, OnlineLoopNone
  <2>2. D \cup N = D /\ E \cup (N \cap V) = E
    BY <1>2
  <2> QED
    BY <2>1, <2>2
<1> QED
  BY <1>1, <1>2

LEMMA FixedLaunch ==
  ASSUME NEW a, Scored(a), NEW D \in SUBSET Columns, D # {}, NEW E,
         NEW lo \in Nat, NEW hi \in Nat, lo <= hi, lo .. hi \subseteq Columns,
         NEW N \in SUBSET (lo .. hi), Disjoint(E, N), NEW V, N \subseteq V,
         NEW n \in Nat \ {0}, NEW sc,
         sc = ScoresOf(a, lo .. hi, N) \/ (DOMAIN sc = {} /\ N = {})
  PROVE  FixedLoop(StateOf(a, D, E), sc, n, V) = StateOf(a, D, E \cup N)
<1>1. CASE sc = ScoresOf(a, lo .. hi, N)
  BY <1>1, FixedLoopIs
<1>2. CASE DOMAIN sc = {} /\ N = {}
  <2>1. FixedLoop(StateOf(a, D, E), sc, n, V) = StateOf(a, D, E)
    BY <1>2, FixedLoopNone
  <2>2. E \cup N = E
    BY <1>2
  <2> QED
    BY <2>1, <2>2
<1> QED
  BY <1>1, <1>2

\* The columns of a launch that is running, for one of its rows.
LEMMA RunningCols ==
  ASSUME InputOK, Running, FirstPass, NEW a \in InPlay, pc[Prog(a)] # "stored",
         NEW N, N = Fed(a) \cap launch.cols
  PROVE  /\ launch.kernel \in Sum1 =>
              /\ Disjoint(Done(a, Sum1), N)
              /\ in.twoPass => Done(a, Sum2) = {}
         /\ launch.kernel \in Sum2 =>
              Disjoint(Done(a, Sum2), N) /\ Done(a, Sum1) = Fed(a)
         /\ \A K : /\ Done(a, K) \in SUBSET Columns
                   /\ Fed(a) \cap ColsOf(launch, K) =
                        IF launch.kernel \in K THEN N ELSE {}
<1>1. \A K : Left(a, K) = CoverOf(todo, K) \cup ColsOf(launch, K)
  BY DEF Left
<1>2. Fed(a) \subseteq Planned /\ Fed(a) \subseteq Columns
  BY FedIs
<1>3. \A K : Done(a, K) = Fed(a) \ Left(a, K)
  BY DEF Done
<1>4. ASSUME launch.kernel \in Sum1
      PROVE  /\ Disjoint(Done(a, Sum1), N)
             /\ in.twoPass => Done(a, Sum2) = {}
  <2>1. ColsOf(launch, Sum1) = launch.cols
    BY <1>4 DEF ColsOf
  <2>2. in.twoPass => Planned \subseteq CoverOf(todo, Sum2)
    BY <1>4 DEF FirstPass
  <2> QED
    BY <1>1, <1>2, <1>3, <2>1, <2>2 DEF Disjoint
<1>5. ASSUME launch.kernel \in Sum2
      PROVE  Disjoint(Done(a, Sum2), N) /\ Done(a, Sum1) = Fed(a)
  <2>1. ColsOf(launch, Sum2) = launch.cols /\ ColsOf(launch, Sum1) = {}
    BY <1>5 DEF ColsOf, Sum1, Sum2
  <2>2. \A i \in DOMAIN todo : ColsOf(todo[i], Sum1) = {}
    BY <1>5 DEF Running, ColsOf, Sum1, Sum2
  <2>3. CoverOf(todo, Sum1) = {}
    BY <2>2 DEF CoverOf
  <2> QED
    BY <1>1, <1>3, <2>1, <2>3 DEF Disjoint
<1>6. \A K : Fed(a) \cap ColsOf(launch, K) = IF launch.kernel \in K THEN N ELSE {}
  BY DEF ColsOf
<1>7. \A K : Done(a, K) \in SUBSET Columns
  BY <1>2, <1>3
<1> QED
  BY <1>4, <1>5, <1>6, <1>7

\* The program of a row adds the columns of its launch to its state.
LEMMA FoldedIs ==
  ASSUME InputOK, Running, FirstPass, NEW a \in InPlay, pc[Prog(a)] # "stored",
         mem[a] = StateOf(a, Done(a, Sum1), Second(a)),
         NEW p, p = Prog(a), NEW r \in TileRows, InTile(p, r), Address(p, r) = a
  PROVE  Folded(p, r).st =
           StateOf(a, Done(a, Sum1) \cup (Fed(a) \cap ColsOf(launch, Sum1)),
                   Second(a) \cup
                     (Fed(a) \cap ColsOf(launch, IF in.twoPass THEN Sum2 ELSE Sum1)))
<1>1. PICK lo \in Nat, hi \in Nat :
        /\ lo <= hi /\ launch.cols = lo .. hi /\ launch.cols \subseteq Planned
  BY DEF Running, LaunchOK, ColumnsOK
<1>2. PICK N : N = Fed(a) \cap launch.cols
  OBVIOUS
<1>3. /\ launch.kernel \in Sum1 =>
           /\ Disjoint(Done(a, Sum1), N)
           /\ in.twoPass => Done(a, Sum2) = {}
      /\ launch.kernel \in Sum2 =>
           Disjoint(Done(a, Sum2), N) /\ Done(a, Sum1) = Fed(a)
      /\ \A K : /\ Done(a, K) \in SUBSET Columns
                /\ Fed(a) \cap ColsOf(launch, K) =
                     IF launch.kernel \in K THEN N ELSE {}
  BY <1>2, RunningCols
<1>4. PICK sc : sc = Scores(p, r)
  OBVIOUS
<1>5. PICK V : V = Values(p)
  OBVIOUS
<1>6. /\ RowOf(p) \in launch.active => sc = ScoresOf(a, lo .. hi, N)
      /\ RowOf(p) \notin launch.active => DOMAIN sc = {} /\ N = {}
      /\ N \subseteq V
      /\ ~Tiled => RowOf(p) \in launch.active /\ N = lo .. hi
  <2>1. LaunchOK(launch)
    BY DEF Running
  <2> QED
    BY <1>1, <1>2, <1>4, <1>5, <2>1, ScoresAre
<1>7. PICK D, E : D = Done(a, Sum1) /\ E = Second(a)
  OBVIOUS
<1>8. PICK st : st = StateOf(a, D, E)
  OBVIOUS
<1>9. Loaded(p, r) = st
  BY <1>7, <1>8 DEF Loaded
<1>10. /\ Scored(a) /\ lo .. hi \subseteq Columns /\ N \subseteq lo .. hi
       /\ N \subseteq Columns /\ N \cap Columns = N /\ N \cap V = N
       /\ BlockKV \in Nat \ {0} /\ TokensPerBlock \in Nat \ {0}
       /\ {} \in SUBSET D /\ N \cap {} = {}
  <2>1. Scored(a)
    BY HasProgram, ScoredIs
  <2>2. lo .. hi \subseteq Columns
    BY <1>1, ColumnsAre
  <2>3. N \subseteq lo .. hi
    BY <1>1, <1>2
  <2> QED
    BY <1>6, <2>1, <2>2, <2>3, Bounds
<1>11. sc = ScoresOf(a, lo .. hi, N) \/ (DOMAIN sc = {} /\ N = {})
  BY <1>6
<1>12. /\ D \in SUBSET Columns /\ E \in SUBSET Columns
       /\ ~in.twoPass => E = D
       /\ in.twoPass => E = Done(a, Sum2)
  BY <1>3, <1>7 DEF Second
<1>13. /\ launch.kernel \in IF in.twoPass THEN {"stats", "accumulate", "fold"}
                            ELSE {"step", "one_shot"}
       /\ launch.kernel = "fold" => Tiled
       /\ launch.kernel = "one_shot" => PerHead /\ launch.cols = Planned
  BY DEF Running, LaunchOK, KernelOK
<1>14. Tiled => ~PerHead
  BY Modes3
<1>15. in.twoPass => Tiled \/ PerHead
  <2>1. ~Tiled => (in.twoPass <=> in.mode = "mass")
    BY ExperimentIs
  <2> QED
    BY <2>1 DEF PerHead
<1>21. PICK guarded \in BOOLEAN : guarded <=> Tiled
  OBVIOUS
<1>22. guarded \/ N = lo .. hi
  BY <1>6, <1>21
<1>23. ASSUME Disjoint(D, N), E \in SUBSET D, NEW W
       PROVE  OnlineLoop(StateOf(a, D, E), sc, BlockKV, W, guarded)
                = StateOf(a, D \cup N, E \cup (N \cap W))
  <2>1. /\ Scored(a) /\ D \in SUBSET Columns /\ lo <= hi
        /\ lo .. hi \subseteq Columns /\ N \in SUBSET (lo .. hi)
        /\ BlockKV \in Nat \ {0} /\ (guarded \/ N = lo .. hi)
    BY <1>1, <1>10, <1>12, <1>22
  <2> QED
    BY ONLY <1>11, <1>23, <2>1, lo \in Nat, hi \in Nat, guarded \in BOOLEAN,
            OnlineLaunch
<1> DEFINE X1 == Fed(a) \cap ColsOf(launch, Sum1)
           X2 == Fed(a) \cap ColsOf(launch, IF in.twoPass THEN Sum2 ELSE Sum1)
<1>16. SUFFICES Folded(p, r).st = StateOf(a, D \cup X1, E \cup X2)
  BY <1>7
<1>17. CASE launch.kernel = "step"
  <2>1. X1 = N /\ X2 = N /\ E = D /\ Disjoint(D, N)
    BY <1>3, <1>7, <1>12, <1>13, <1>17 DEF Sum1
  <2>2. E \in SUBSET D
    BY <2>1
  <2>3. CASE Tiled
    <3>1. Folded(p, r).st = OnlineLoop(st, sc, BlockKV, V, guarded)
      BY <1>4, <1>5, <1>9, <1>14, <1>17, <1>21, <2>3
         DEF Folded, _decode_attention_step_kernel
    <3>2. OnlineLoop(st, sc, BlockKV, V, guarded)
            = StateOf(a, D \cup N, E \cup (N \cap V))
      BY ONLY <1>8, <1>23, <2>1, <2>2
    <3> QED
      BY <1>10, <2>1, <3>1, <3>2
  <2>4. CASE PerHead
    <3>1. Folded(p, r).st = OnlineLoop(st, sc, BlockKV, Columns, guarded)
      BY <1>4, <1>9, <1>14, <1>17, <1>21, <2>4
         DEF Folded, decode_attention_step_kernel
    <3>3. OnlineLoop(st, sc, BlockKV, Columns, guarded)
            = StateOf(a, D \cup N, E \cup (N \cap Columns))
      BY ONLY <1>8, <1>23, <2>1, <2>2
    <3> QED
      BY <1>10, <2>1, <3>1, <3>3
  <2>5. CASE ~Tiled /\ ~PerHead
    <3>1. Folded(p, r).st = Online(st, sc, Columns, guarded)
      BY <1>4, <1>9, <1>17, <1>21, <2>5 DEF Folded, prototype_chunk
    <3>2. N = lo .. hi /\ N # {} /\ sc = ScoresOf(a, N, N)
      BY <1>1, <1>6, <2>5
    <3>4. PICK C \in SUBSET Columns : C = N /\ N \in SUBSET C
      BY <1>10
    <3>6. Disjoint(D, N)
      BY <2>1
    <3>3. Online(st, sc, Columns, guarded)
            = StateOf(a, D \cup N, E \cup (N \cap Columns))
      <4>1. Online(StateOf(a, D, E), ScoresOf(a, C, N), Columns, guarded)
              = StateOf(a, D \cup N, E \cup (N \cap Columns))
        <5>1. /\ Scored(a) /\ D \in SUBSET Columns /\ E \in SUBSET D
              /\ N \in SUBSET C /\ Disjoint(D, N) /\ (guarded \/ N # {})
          BY <1>10, <1>12, <2>2, <3>2, <3>4, <3>6
        <5> QED
          BY ONLY <5>1, guarded \in BOOLEAN, C \in SUBSET Columns, OnlineIs
      <4> QED
        BY <1>8, <3>2, <3>4, <4>1
    <3> QED
      BY <1>10, <2>1, <3>1, <3>3
  <2> QED
    BY <2>3, <2>4, <2>5
<1>18. CASE launch.kernel = "one_shot"
  <2>1. X1 = N /\ X2 = N /\ E = D /\ PerHead /\ N = lo .. hi
    BY <1>3, <1>6, <1>12, <1>13, <1>14, <1>18 DEF Sum1
  <2>2. D = {}
    <3>1. ColsOf(launch, Sum1) = Planned
      BY <1>13, <1>18 DEF ColsOf, Sum1
    <3>2. Planned \subseteq Left(a, Sum1)
      BY <3>1 DEF Left
    <3>3. Fed(a) \subseteq Planned
      BY DEF Fed
    <3> QED
      BY <1>7, <3>2, <3>3 DEF Done
  <2>3. Folded(p, r).st = OnlineLoop(Fresh, sc, BlockKV, Columns, guarded)
    BY <1>4, <1>14, <1>18, <1>21, <2>1 DEF Folded, decode_attention_kernel
  <2>4. Fresh = StateOf(a, D, E)
    BY <1>10, <2>1, <2>2, FreshIs
  <2>5. Disjoint(D, N) /\ E \in SUBSET D
    BY <2>1, <2>2 DEF Disjoint
  <2>6. OnlineLoop(Fresh, sc, BlockKV, Columns, guarded)
          = StateOf(a, D \cup N, E \cup (N \cap Columns))
    BY ONLY <1>23, <2>4, <2>5
  <2> QED
    BY <1>10, <2>1, <2>3, <2>6
<1>19. CASE launch.kernel = "stats"
  <2>1. X1 = N /\ X2 = {} /\ E = {} /\ Disjoint(D, N) /\ in.twoPass
    BY <1>3, <1>7, <1>12, <1>13, <1>19 DEF Sum1, Sum2
  <2>2. E \in SUBSET D /\ E \cup (N \cap {}) = {}
    BY <2>1
  <2>4. Folded(p, r).st = Stats(st, OnlineLoop(st, sc, BlockKV, {}, guarded))
    <3>1. CASE Tiled
      BY <1>4, <1>9, <1>14, <1>19, <1>21, <3>1 DEF Folded, _decode_attention_stats_kernel
    <3>2. CASE PerHead
      BY <1>4, <1>9, <1>14, <1>19, <1>21, <3>2 DEF Folded, decode_attention_stats_kernel
    <3> QED
      BY <1>15, <2>1, <3>1, <3>2
  <2>6. OnlineLoop(st, sc, BlockKV, {}, guarded)
          = StateOf(a, D \cup N, E \cup (N \cap {}))
    BY ONLY <1>8, <1>23, <2>1, <2>2
  <2>7. Stats(StateOf(a, D, {}), StateOf(a, D \cup N, {})) = StateOf(a, D \cup N, {})
    BY StatsIs
  <2> QED
    BY <1>8, <2>1, <2>2, <2>4, <2>6, <2>7
<1>20. CASE launch.kernel \in {"accumulate", "fold"}
  <2>1. X1 = {} /\ X2 = N /\ Disjoint(E, N) /\ D = Fed(a) /\ in.twoPass
    BY <1>3, <1>7, <1>12, <1>13, <1>20 DEF Sum1, Sum2
  <2>2. D # {} /\ D \cup {} = D
    BY <2>1, FedIs
  <2>3. PICK n, W : /\ n \in Nat \ {0}
                    /\ Folded(p, r).st = FixedLoop(st, sc, n, W)
                    /\ N \subseteq W
    <3>1. CASE launch.kernel = "fold"
      <4>1. Folded(p, r).st = FixedLoop(st, sc, BlockKV, V)
        BY <1>4, <1>5, <1>9, <1>13, <3>1 DEF Folded, _decode_attention_fold_fixed_kernel
      <4> QED
        BY <1>6, <1>10, <4>1
    <3>2. CASE launch.kernel = "accumulate" /\ Tiled
      <4>1. Folded(p, r).st = FixedLoop(st, sc, TokensPerBlock, V)
        BY <1>4, <1>5, <1>9, <1>14, <3>2 DEF Folded, _decode_attention_accumulate_kernel
      <4> QED
        BY <1>6, <1>10, <4>1
    <3>3. CASE launch.kernel = "accumulate" /\ PerHead
      <4>1. Folded(p, r).st = FixedLoop(st, sc, TokensPerBlock, Columns)
        BY <1>4, <1>9, <1>14, <3>3
           DEF Folded, decode_attention_accumulate_kernel,
               _decode_attention_accumulate_kernel
      <4> QED
        BY <1>10, <4>1
    <3> QED
      BY <1>15, <1>20, <2>1, <3>1, <3>2, <3>3
  <2>4. FixedLoop(st, sc, n, W) = StateOf(a, D, E \cup N)
    <3>1. Disjoint(E, N) /\ D # {} /\ n \in Nat \ {0} /\ N \subseteq W
      BY <2>1, <2>2, <2>3
    <3>2. FixedLoop(StateOf(a, D, E), sc, n, W) = StateOf(a, D, E \cup N)
      <4>1. /\ Scored(a) /\ D \in SUBSET Columns /\ lo <= hi
            /\ lo .. hi \subseteq Columns /\ N \in SUBSET (lo .. hi)
        BY <1>1, <1>10, <1>12
      <4> QED
        BY ONLY <1>11, <3>1, <4>1, lo \in Nat, hi \in Nat, FixedLaunch
    <3> QED
      BY <1>8, <3>2
  <2> QED
    BY <2>1, <2>2, <2>3, <2>4
<1> QED
  BY <1>13, <1>17, <1>18, <1>19, <1>20

\* The mass a program hands out: that of the tiles, which are blocks.
LEMMA TileBlock ==
  ASSUME InputOK, NEW lo \in Nat, NEW hi \in Nat, lo <= hi,
         NEW block \in Nat, lo = block * TokensPerBlock,
         NEW k \in Int, NEW i \in Int, i = k + 1 - block
  PROVE  /\ i \in 1 .. NumTiles(lo .. hi, TokensPerBlock) =>
              /\ TileOf(lo .. hi, TokensPerBlock, i) = (lo .. hi) \cap BlockCols(k)
              /\ TileOf(lo .. hi, TokensPerBlock, i) # {}
         /\ i \notin 1 .. NumTiles(lo .. hi, TokensPerBlock) =>
              Disjoint(lo .. hi, BlockCols(k))
<1>1. PICK T \in Nat \ {0} : T = TokensPerBlock
  BY Bounds
<1>9. /\ NumTiles(lo .. hi, T) \in Nat
      /\ Upto(lo, hi, T, 0) = {}
      /\ Upto(lo, hi, T, NumTiles(lo .. hi, T)) = lo .. hi
      /\ \A j \in 1 .. NumTiles(lo .. hi, T) :
           /\ TileOf(lo .. hi, T, j) =
                {c \in lo .. hi : lo + T * (j - 1) <= c /\ c < lo + T * j}
           /\ TileOf(lo .. hi, T, j) # {}
           /\ Upto(lo, hi, T, j) = Upto(lo, hi, T, j - 1) \cup TileOf(lo .. hi, T, j)
           /\ Disjoint(Upto(lo, hi, T, j - 1), TileOf(lo .. hi, T, j))
  BY ONLY lo \in Nat, hi \in Nat, lo <= hi, T \in Nat \ {0}, TilesAre, Zenon
<1>2. PICK G \in Nat : G = NumTiles(lo .. hi, T)
  BY <1>9
<1>3. /\ Upto(lo, hi, T, G) = lo .. hi
      /\ \A j \in 1 .. G :
           /\ TileOf(lo .. hi, T, j) =
                {c \in lo .. hi : lo + T * (j - 1) <= c /\ c < lo + T * j}
           /\ TileOf(lo .. hi, T, j) # {}
  BY <1>2, <1>9
<1>4. /\ lo + T * (i - 1) = k * T /\ lo + T * i = (k + 1) * T
      /\ lo + T * G = (block + G) * T
      /\ \A x, y \in Int : /\ x * T < y * T <=> x < y
                           /\ x * T <= y * T <=> x <= y
  <2>1. T * (i - 1) = T * i - T /\ T * i = T * (k + 1) - T * block
        /\ T * (k + 1) = T * k + T /\ (block + G) * T = block * T + T * G
    BY <1>1
  <2>2. lo = block * T /\ block * T = T * block /\ k * T = T * k
        /\ (k + 1) * T = T * (k + 1)
    BY <1>1
  <2>3. PICK x1 \in Int, x2 \in Int, x3 \in Int, x4 \in Int :
          x1 = T * i /\ x2 = T * (k + 1) /\ x3 = T * block /\ x4 = T * k
    OBVIOUS
  <2>4. lo + T * (i - 1) = k * T /\ lo + T * i = (k + 1) * T
    BY <2>1, <2>2, <2>3
  <2>5. lo + T * G = (block + G) * T
    BY <2>1, <2>2
  <2>6. \A x, y \in Int : x * T < y * T <=> x < y
    BY <1>1, MulLess
  <2>7. \A x, y \in Int : x * T <= y * T <=> x <= y
    BY <1>1, MulLess
  <2> QED
    BY <2>4, <2>5, <2>6, <2>7
<1>5. PICK u \in Int, v \in Int : u = k * T /\ v = (k + 1) * T
  BY <1>1
<1>6. BlockCols(k) = u .. v - 1
  BY <1>1, <1>5 DEF BlockCols
<1>7. ASSUME i \in 1 .. G
      PROVE  /\ TileOf(lo .. hi, T, i) = (lo .. hi) \cap BlockCols(k)
             /\ TileOf(lo .. hi, T, i) # {}
  <2>1. TileOf(lo .. hi, T, i) = {c \in lo .. hi : u <= c /\ c < v}
    <3>1. TileOf(lo .. hi, T, i)
            = {c \in lo .. hi : lo + T * (i - 1) <= c /\ c < lo + T * i}
      BY <1>3, <1>7, Zenon
    <3>2. lo + T * (i - 1) = u /\ lo + T * i = v
      BY <1>4, <1>5
    <3> QED
      BY <3>1, <3>2, Zenon
  <2>2. {c \in lo .. hi : u <= c /\ c < v} = (lo .. hi) \cap (u .. v - 1)
    OBVIOUS
  <2> QED
    BY <1>3, <1>6, <1>7, <2>1, <2>2
<1>8. ASSUME i \notin 1 .. G
      PROVE  Disjoint(lo .. hi, BlockCols(k))
  <2>1. CASE i < 1
    <3>1. k + 1 <= block /\ k + 1 \in Int
      BY <2>1
    <3>2. (k + 1) * T <= block * T
      BY <1>4, <3>1
    <3>3. v <= lo
      BY <1>1, <1>5, <3>2
    <3> QED
      BY <1>6, <3>3 DEF Disjoint
  <2>2. CASE i > G
    <3>1. block + G <= k /\ block + G \in Int
      BY <2>2
    <3>2. (block + G) * T <= k * T
      BY <1>4, <3>1
    <3>3. PICK w \in Int : w = lo + T * G
      BY <1>1
    <3>4. w <= u
      BY <1>4, <1>5, <3>2, <3>3
    <3>5. \A c \in lo .. hi : c < w
      BY <1>3, <3>3 DEF Upto
    <3> QED
      BY <1>6, <3>4, <3>5 DEF Disjoint
  <2> QED
    BY <1>8, <2>1, <2>2
<1> QED
  BY <1>1, <1>2, <1>7, <1>8

MassOf(a, k, N, i, M, cols) ==
  IF i \in DOMAIN M
  THEN M[i] = SumOf(a, N \cap BlockCols(k), MaxOf(a, Fed(a)))
       /\ BlockCols(k) \subseteq cols
  ELSE N \cap BlockCols(k) = {}

LEMMA MassIs ==
  ASSUME InputOK, Running, FirstPass, NEW a \in InPlay, pc[Prog(a)] # "stored",
         mem[a] = StateOf(a, Done(a, Sum1), Second(a)),
         NEW p, p = Prog(a), NEW r \in TileRows, InTile(p, r), Address(p, r) = a,
         NEW N, N = Fed(a) \cap launch.cols, NEW M, M = Folded(p, r).mass
  PROVE  /\ \A i \in DOMAIN M : M[i] \in Int
         /\ launch.kernel # "accumulate" => DOMAIN M = {}
         /\ launch.kernel = "accumulate" =>
              \A k \in 0 .. NumBlocks - 1 :
                MassOf(a, k, N, k + 1 - launch.block, M, launch.cols)
<1>1. PICK lo \in Nat, hi \in Nat :
        /\ lo <= hi /\ launch.cols = lo .. hi /\ launch.cols \subseteq Planned
        /\ launch.kernel = "accumulate" =>
             lo = launch.block * TokensPerBlock /\ Whole(launch.cols)
  BY DEF Running, LaunchOK, ColumnsOK
<1>2. PICK sc : sc = Scores(p, r)
  OBVIOUS
<1>3. /\ sc = ScoresOf(a, lo .. hi, N) \/ (DOMAIN sc = {} /\ N = {})
      /\ N \subseteq lo .. hi
  <2>1. LaunchOK(launch)
    BY DEF Running
  <2> QED
    BY <1>1, <1>2, <2>1, ScoresAre
<1>4. PICK st : st = mem[a]
  OBVIOUS
<1>5. Loaded(p, r) = st
  BY <1>4 DEF Loaded
<1>6. /\ launch.kernel \in {"stats", "accumulate", "fold", "step", "one_shot"}
      /\ launch.kernel \in {"stats", "accumulate", "fold"} <=> in.twoPass
      /\ launch.block \in Nat
  BY DEF Running, LaunchOK, KernelOK, Launches
<1>7. Tiled => ~PerHead
  BY Modes3
<1>8. in.twoPass => Tiled \/ PerHead
  <2>1. ~Tiled => (in.twoPass <=> in.mode = "mass")
    BY ExperimentIs
  <2> QED
    BY <2>1 DEF PerHead
<1>9. ASSUME launch.kernel # "accumulate" PROVE DOMAIN M = {}
  <2>1. M = <<>>
    BY <1>6, <1>7, <1>8, <1>9 DEF Folded
  <2> QED
    BY <2>1
<1>10. ASSUME launch.kernel = "accumulate"
       PROVE  /\ \A i \in DOMAIN M : M[i] \in Int
              /\ \A k \in 0 .. NumBlocks - 1 :
                   MassOf(a, k, N, k + 1 - launch.block, M, launch.cols)
  <2>1. M = [i \in 1 .. NumTiles(DOMAIN sc, TokensPerBlock) |->
              SumOver([c \in DOMAIN sc |-> Exp(sc[c], st.m)],
                      TileOf(DOMAIN sc, TokensPerBlock, i))]
    <3>1. CASE Tiled
      BY <1>2, <1>5, <1>7, <1>10, <3>1
         DEF Folded, _decode_attention_accumulate_kernel
    <3>2. CASE PerHead
      BY <1>2, <1>5, <1>7, <1>10, <3>2
         DEF Folded, decode_attention_accumulate_kernel,
             _decode_attention_accumulate_kernel
    <3> QED
      BY <1>6, <1>8, <1>10, <3>1, <3>2
  <2>2. CASE DOMAIN sc = {} /\ N = {}
    <3>1. NumTiles({}, TokensPerBlock) = 0
      <4>1. PICK T \in Nat \ {0} : T = TokensPerBlock
        BY Bounds
      <4>2. (0 + T - 1) \div T = 0
        BY <4>1
      <4> QED
        BY <4>1, <4>2, FS_EmptySet DEF NumTiles
    <3>2. DOMAIN M = {}
      BY <2>1, <2>2, <3>1
    <3> QED
      BY <2>2, <3>2 DEF MassOf
  <2>3. CASE sc = ScoresOf(a, lo .. hi, N)
    <3>1. DOMAIN sc = lo .. hi
      BY <2>3 DEF ScoresOf
    <3>2. PICK m : m = MaxOf(a, Fed(a))
      OBVIOUS
    <3>3. Scored(a) /\ lo .. hi \in SUBSET Columns /\ m \in 0 .. TopScore
      <4>1. Scored(a)
        BY HasProgram, ScoredIs
      <4>2. Fed(a) \in SUBSET Columns /\ Fed(a) # {}
        BY FedIs
      <4> QED
        BY <1>1, <3>2, <4>1, <4>2, ColumnsAre, MaxOfIs
    <3>4. st.m = m
      <4>1. Done(a, Sum1) = Fed(a)
        BY <1>10, RunningCols DEF Sum2
      <4> QED
        BY <1>4, <3>2, <4>1 DEF StateOf
    <3>5. PICK G \in Nat : G = NumTiles(lo .. hi, TokensPerBlock)
      <4>1. NumTiles(lo .. hi, TokensPerBlock) \in Nat
        <5>1. PICK T \in Nat \ {0} : T = TokensPerBlock
          BY Bounds
        <5>2. NumTiles(lo .. hi, T) \in Nat
          BY ONLY lo \in Nat, hi \in Nat, <1>1, T \in Nat \ {0}, TilesAre, Zenon
        <5> QED
          BY <5>1, <5>2
      <4> QED
        BY <4>1
    <3>6. DOMAIN M = 1 .. G
      BY <2>1, <3>1, <3>5
    <3>7. ASSUME NEW i \in 1 .. G
          PROVE  /\ M[i] = SumOf(a, N \cap TileOf(lo .. hi, TokensPerBlock, i), m)
                 /\ M[i] \in Int
      <4>1. PICK S : S = TileOf(lo .. hi, TokensPerBlock, i)
        OBVIOUS
      <4>2. M[i] = SumOver([c \in lo .. hi |-> Exp(ScoresOf(a, lo .. hi, N)[c], m)], S)
        BY <2>1, <2>3, <3>1, <3>4, <3>5, <4>1
      <4>3. S \in SUBSET (lo .. hi)
        BY <4>1 DEF TileOf
      <4>4. M[i] = SumOf(a, N \cap S, m)
        <5>1. PICK C \in SUBSET Columns : C = lo .. hi
          BY <3>3
        <5>2. N \in SUBSET C /\ S \in SUBSET C
          BY <1>3, <4>3, <5>1
        <5>3. SumOver([c \in C |-> Exp(ScoresOf(a, C, N)[c], m)], S)
                = SumOf(a, N \cap S, m)
          BY ONLY <3>3, <5>2, C \in SUBSET Columns, TileMass
        <5> QED
          BY <4>2, <5>1, <5>3
      <4>5. m \in NegInf .. TopScore
        BY <3>3, StreamingAssumption DEF NegInf
      <4>6. SumOf(a, N \cap S, m) \in Int
        BY <3>3, <4>5, TermsType
      <4> QED
        BY <4>1, <4>4, <4>6
    <3>8. ASSUME NEW k \in 0 .. NumBlocks - 1
          PROVE  MassOf(a, k, N, k + 1 - launch.block, M, launch.cols)
      <4>1. PICK i \in Int, block \in Nat, k1 \in Int :
              /\ i = k + 1 - launch.block /\ block = launch.block /\ k1 = k
        BY <1>6, InputIs
      <4>2. lo = block * TokensPerBlock /\ i = k1 + 1 - block
        BY <1>1, <1>10, <4>1
      <4>3. /\ i \in 1 .. G =>
                 /\ TileOf(lo .. hi, TokensPerBlock, i) = (lo .. hi) \cap BlockCols(k1)
                 /\ TileOf(lo .. hi, TokensPerBlock, i) # {}
            /\ i \notin 1 .. G => Disjoint(lo .. hi, BlockCols(k1))
        BY ONLY InputOK, lo \in Nat, hi \in Nat, <1>1, block \in Nat, i \in Int,
                k1 \in Int, <4>2, <3>5, TileBlock
      <4>4. CASE i \in 1 .. G
        <5>1. N \cap TileOf(lo .. hi, TokensPerBlock, i) = N \cap BlockCols(k)
          BY <1>3, <4>1, <4>3, <4>4
        <5>2. BlockCols(k) \subseteq lo .. hi \/ Disjoint(BlockCols(k), lo .. hi)
          BY <1>1, <1>10 DEF Whole
        <5>3. BlockCols(k) \subseteq launch.cols
          BY <1>1, <4>1, <4>3, <4>4, <5>2 DEF Disjoint
        <5>4. M[i] = SumOf(a, N \cap BlockCols(k), m)
          BY <3>7, <4>4, <5>1
        <5> QED
          BY <3>2, <3>6, <4>1, <4>4, <5>3, <5>4 DEF MassOf
      <4>5. CASE i \notin 1 .. G
        <5>1. N \cap BlockCols(k) = {}
          BY <1>3, <4>1, <4>3, <4>5 DEF Disjoint
        <5> QED
          BY <3>6, <4>1, <4>5, <5>1 DEF MassOf
      <4> QED
        BY <4>4, <4>5
    <3> QED
      BY <3>6, <3>7, <3>8
  <2> QED
    BY <1>3, <2>2, <2>3
<1> QED
  BY <1>9, <1>10

-----------------------------------------------------------------------------
(* The steps *)

\* Removing a position leaves a sequence of the other elements, in their order.
LEMMA RemoveAtIs ==
  ASSUME NEW S, NEW s \in Seq(S), NEW i \in 1 .. Len(s)
  PROVE  /\ RemoveAt(s, i) \in Seq(S)
         /\ Len(RemoveAt(s, i)) = Len(s) - 1
         /\ \A k \in 1 .. Len(s) - 1 :
              RemoveAt(s, i)[k] = IF k < i THEN s[k] ELSE s[k + 1]
<1> DEFINE a == SubSeq(s, 1, i - 1)
           b == SubSeq(s, i + 1, Len(s))
<1>1. a \in Seq(S) /\ Len(a) = i - 1 /\ \A k \in 1 .. i - 1 : a[k] = s[k]
  BY SubSeqProperties
<1>2. /\ b \in Seq(S) /\ Len(b) = Len(s) - i
      /\ \A k \in 1 .. Len(s) - i : b[k] = s[i + k]
  BY SubSeqProperties
<1>3. RemoveAt(s, i) = a \o b
  BY DEF RemoveAt
<1> HIDE DEF a, b
<1>4. /\ a \o b \in Seq(S)
      /\ Len(a \o b) = Len(a) + Len(b)
      /\ \A k \in 1 .. Len(a) + Len(b) :
           (a \o b)[k] = IF k <= Len(a) THEN a[k] ELSE b[k - Len(a)]
  BY <1>1, <1>2, ConcatProperties
<1>5. Len(a) + Len(b) = Len(s) - 1
  BY <1>1, <1>2
<1>6. ASSUME NEW k \in 1 .. Len(s) - 1
      PROVE  (a \o b)[k] = IF k < i THEN s[k] ELSE s[k + 1]
  <2>1. CASE k < i
    <3>1. (a \o b)[k] = a[k]
      BY <1>1, <1>4, <1>5, <2>1
    <3>2. a[k] = s[k]
      BY <1>1, <2>1
    <3> QED
      BY <2>1, <3>1, <3>2
  <2>2. CASE k >= i
    <3>1. (a \o b)[k] = b[k - (i - 1)]
      BY <1>1, <1>4, <1>5, <2>2
    <3>2. k - (i - 1) \in 1 .. Len(s) - i
      BY <2>2
    <3>3. b[k - (i - 1)] = s[i + (k - (i - 1))]
      BY <1>2, <3>2
    <3>4. i + (k - (i - 1)) = k + 1
      OBVIOUS
    <3> QED
      BY <2>2, <3>1, <3>3, <3>4
  <2>3. k < i \/ k >= i
    OBVIOUS
  <2> QED
    BY <2>1, <2>2, <2>3, Zenon
<1> QED
  BY <1>3, <1>4, <1>5, <1>6

\* A queue without one of its launches is a queue.
LEMMA RemovedQueue ==
  ASSUME NEW s, Queued(s), NEW i \in DOMAIN s, NEW t, t = RemoveAt(s, i)
  PROVE  /\ Queued(t) /\ LaunchOK(s[i])
         /\ \A K : CoverOf(s, K) = CoverOf(t, K) \cup ColsOf(s[i], K)
         /\ \A K \in {Sum1, Sum2} : Disjoint(CoverOf(t, K), ColsOf(s[i], K))
         /\ \A j \in DOMAIN t : \E k \in DOMAIN s :
              t[j] = s[k] /\ k # i /\ (i = 1 => k > i)
<1>1. s \in Seq(Launches) /\ DOMAIN s = 1 .. Len(s) /\ Len(s) \in Nat
  BY DEF Queued
<1>2. /\ t \in Seq(Launches) /\ Len(t) = Len(s) - 1 /\ DOMAIN t = 1 .. Len(s) - 1
      /\ \A k \in 1 .. Len(s) - 1 : t[k] = IF k < i THEN s[k] ELSE s[k + 1]
  <2>1. /\ t \in Seq(Launches) /\ Len(t) = Len(s) - 1
        /\ \A k \in 1 .. Len(s) - 1 : t[k] = IF k < i THEN s[k] ELSE s[k + 1]
    BY <1>1, RemoveAtIs
  <2> QED
    BY <2>1
<1> DEFINE at(j) == IF j < i THEN j ELSE j + 1
<1>3. /\ \A j \in DOMAIN t : at(j) \in DOMAIN s \ {i} /\ t[j] = s[at(j)]
      /\ \A j, k \in DOMAIN t : at(j) < at(k) <=> j < k
      /\ \A j, k \in DOMAIN t : j # k => at(j) # at(k)
      /\ \A k \in DOMAIN s \ {i} : \E j \in DOMAIN t : at(j) = k
      /\ \A j \in DOMAIN t : i = 1 => at(j) > i
  <2>1. \A j \in DOMAIN t : at(j) \in DOMAIN s \ {i} /\ t[j] = s[at(j)]
    BY <1>1, <1>2
  <2>2. \A k \in DOMAIN s \ {i} : \E j \in DOMAIN t : at(j) = k
    <3>1. ASSUME NEW k \in DOMAIN s \ {i} PROVE \E j \in DOMAIN t : at(j) = k
      <4>1. CASE k < i
        <5>1. k \in DOMAIN t /\ at(k) = k
          BY <1>1, <1>2, <4>1
        <5> QED
          BY <5>1
      <4>2. CASE k > i
        <5>1. k - 1 \in DOMAIN t /\ at(k - 1) = k
          BY <1>1, <1>2, <4>2
        <5> QED
          BY <5>1
      <4> QED
        BY <1>1, <4>1, <4>2
    <3> QED
      BY <3>1
  <2> QED
    BY <1>1, <1>2, <2>1, <2>2
<1> HIDE DEF at
<1>4. /\ \A k \in DOMAIN s : LaunchOK(s[k]) /\ Apart(s, Sum1) /\ Apart(s, Sum2)
      /\ Ordered(s)
  BY DEF Queued
<1>5. Queued(t)
  <2>1. \A j \in DOMAIN t : LaunchOK(t[j])
    BY <1>3, <1>4
  <2>2. \A K : Apart(s, K) => Apart(t, K)
    BY <1>3 DEF Apart
  <2>3. Ordered(t)
    BY <1>3, <1>4 DEF Ordered
  <2> QED
    BY <1>1, <1>2, <1>4, <2>1, <2>2, <2>3 DEF Queued
<1>6. ASSUME NEW K PROVE CoverOf(s, K) = CoverOf(t, K) \cup ColsOf(s[i], K)
  <2>1. ASSUME NEW c \in CoverOf(s, K) PROVE c \in CoverOf(t, K) \cup ColsOf(s[i], K)
    <3>1. PICK k \in DOMAIN s : c \in ColsOf(s[k], K)
      BY DEF CoverOf
    <3>2. k # i => \E j \in DOMAIN t : t[j] = s[k]
      BY <1>3
    <3> QED
      BY <3>1, <3>2 DEF CoverOf
  <2>2. CoverOf(t, K) \subseteq CoverOf(s, K)
    <3>1. \A j \in DOMAIN t : \E k \in DOMAIN s : t[j] = s[k]
      BY <1>3
    <3> QED
      BY <3>1 DEF CoverOf
  <2>3. ColsOf(s[i], K) \subseteq CoverOf(s, K)
    BY DEF CoverOf
  <2> QED
    BY <2>1, <2>2, <2>3
<1>7. ASSUME NEW K \in {Sum1, Sum2} PROVE Disjoint(CoverOf(t, K), ColsOf(s[i], K))
  <2>1. Apart(s, K)
    BY <1>1, <1>4
  <2>2. \A j \in DOMAIN t : Disjoint(ColsOf(t[j], K), ColsOf(s[i], K))
    BY <1>3, <2>1 DEF Apart
  <2> QED
    BY <2>2 DEF CoverOf, Disjoint
<1> QED
  BY <1>3, <1>4, <1>5, <1>6, <1>7

\* What depends on the input only.
LEMMA InputStays ==
  ASSUME in' = in
  PROVE  /\ InputOK' <=> InputOK
         /\ NumBlocks' = NumBlocks /\ Planned' = Planned /\ InPlay' = InPlay
         /\ Programs' = Programs /\ TileRows' = TileRows /\ Tiled' = Tiled
         /\ PerHead' = PerHead
         /\ \A a : Prog(a)' = Prog(a) /\ Fed(a)' = Fed(a)
         /\ \A a, D, E : StateOf(a, D, E)' = StateOf(a, D, E)
         /\ \A a, D : MaxOf(a, D)' = MaxOf(a, D)
         /\ \A a, D, m : SumOf(a, D, m)' = SumOf(a, D, m)
         /\ \A L : LaunchOK(L)' <=> LaunchOK(L)
         /\ \A s : Queued(s)' <=> Queued(s)
         /\ \A p, r : /\ Address(p, r)' = Address(p, r)
                      /\ InTile(p, r)' <=> InTile(p, r)
                      /\ RowOf(p)' = RowOf(p)
         /\ \A b, c : /\ Valid(b, c)' <=> Valid(b, c)
                      /\ ZeroBlock(b, c)' <=> ZeroBlock(b, c)
                      /\ Score(b, c)' = Score(b, c)
<1>1. InputOK' <=> InputOK
  BY Zenon DEF InputOK
<1>2. /\ Tiled' = Tiled /\ PerHead' = PerHead /\ NumBlocks' = NumBlocks
      /\ Full' = Full /\ Total' = Total
  BY Zenon DEF Tiled, PerHead, NumBlocks, Full, Total
<1>3. Planned' = Planned /\ InPlay' = InPlay /\ Grid' = Grid
  BY <1>2, Zenon DEF Planned, InPlay, Grid
<1>4. Programs' = Programs /\ TileRows' = TileRows
  BY <1>2 DEF Programs, TileRows
<1>5. ASSUME NEW b PROVE pad_blocks(b)' = pad_blocks(b) /\ Padding(b)' = Padding(b)
  BY <1>2, Zenon DEF pad_blocks, Padding
<1>6. ASSUME NEW b, NEW c PROVE Valid(b, c)' <=> Valid(b, c)
  <2>1. WindowValid(c)' <=> WindowValid(c)
    BY <1>2, Zenon DEF WindowValid
  <2>2. RowValid(b, c)' <=> RowValid(b, c)
    BY <2>1, Zenon DEF RowValid
  <2>3. GatherValid(b, c)' <=> GatherValid(b, c)
    BY <1>2, <1>5, Zenon DEF GatherValid
  <2> QED
    BY <2>2, <2>3 DEF Valid
<1>15. ASSUME NEW b, NEW c PROVE ZeroBlock(b, c)' <=> ZeroBlock(b, c)
  BY <1>5, Zenon DEF ZeroBlock
<1>7. ASSUME NEW a, NEW c PROVE Score(a, c)' = Score(a, c)
  <2>1. \A b : ZeroBlock(b, c)' <=> ZeroBlock(b, c)
    BY <1>15
  <2> QED
    BY <2>1, Zenon DEF Score
<1>8. ASSUME NEW a PROVE Prog(a)' = Prog(a) /\ Fed(a)' = Fed(a)
  <2>1. Prog(a)' = Prog(a)
    BY <1>2, Zenon DEF Prog
  <2>2. Fed(a)' = Fed(a)
    BY <1>3, <1>6 DEF Fed
  <2> QED
    BY <2>1, <2>2
<1>9. ASSUME NEW a, NEW D PROVE MaxOf(a, D)' = MaxOf(a, D)
  <2>1. {Score(a, c)' : c \in D} = {Score(a, c) : c \in D}
    BY <1>7
  <2> QED
    BY <2>1, Zenon DEF MaxOf
<1>10. ASSUME NEW a, NEW D, NEW m
       PROVE  Terms(a, D, m)' = Terms(a, D, m) /\ SumOf(a, D, m)' = SumOf(a, D, m)
  <2>1. Terms(a, D, m)' = Terms(a, D, m)
    BY <1>7 DEF Terms
  <2> QED
    BY <2>1, Zenon DEF SumOf
<1>11. ASSUME NEW a, NEW D, NEW E PROVE StateOf(a, D, E)' = StateOf(a, D, E)
  BY <1>9, <1>10, Zenon DEF StateOf
<1>12. ASSUME NEW L PROVE LaunchOK(L)' <=> LaunchOK(L)
  <2>1. KernelOK(L)' <=> KernelOK(L)
    BY <1>2, <1>3 DEF KernelOK
  <2>2. Whole(L.cols)' <=> Whole(L.cols)
    BY <1>2 DEF Whole
  <2>3. ColumnsOK(L)' <=> ColumnsOK(L)
    BY <1>3, <2>2 DEF ColumnsOK
  <2>4. ActiveOK(L)' <=> ActiveOK(L)
    BY <1>3, <1>6 DEF ActiveOK
  <2> QED
    BY <2>1, <2>3, <2>4 DEF LaunchOK
<1>13. ASSUME NEW s PROVE Queued(s)' <=> Queued(s)
  BY <1>12 DEF Queued
<1>14. ASSUME NEW p, NEW r
       PROVE  /\ Address(p, r)' = Address(p, r) /\ (InTile(p, r)' <=> InTile(p, r))
              /\ RowOf(p)' = RowOf(p)
  <2>1. RowOf(p)' = RowOf(p)
    BY <1>2, Zenon DEF RowOf
  <2>2. Address(p, r)' = Address(p, r)
    BY <1>2, <2>1 DEF Address
  <2>3. row_mask(r)' <=> row_mask(r)
    BY <1>2, Zenon DEF row_mask
  <2> QED
    BY <2>1, <2>2, <2>3, Zenon DEF InTile
<1> QED
  BY <1>1, <1>2, <1>3, <1>4, <1>6, <1>7, <1>8, <1>9, <1>10, <1>11, <1>12, <1>13,
     <1>14, <1>15

\* A fold depends on the input, the launch and the rows that are loaded.
LEMMA FoldedStays ==
  ASSUME in' = in, launch' = launch, NEW p, NEW r,
         Loaded(p, r)' = Loaded(p, r)
  PROVE  Folded(p, r)' = Folded(p, r)
<1>1. /\ Tiled' = Tiled /\ PerHead' = PerHead /\ RowOf(p)' = RowOf(p)
      /\ Address(p, r)' = Address(p, r) /\ (InTile(p, r)' <=> InTile(p, r))
      /\ \A b, c : /\ Valid(b, c)' <=> Valid(b, c)
                   /\ ZeroBlock(b, c)' <=> ZeroBlock(b, c)
                   /\ Score(b, c)' = Score(b, c)
  BY InputStays
<1>2. Scores(p, r)' = Scores(p, r)
  BY <1>1 DEF Scores
<1>3. Values(p)' = Values(p)
  BY <1>1 DEF Values
<1> QED
  BY <1>1, <1>2, <1>3 DEF Folded

LEMMA LaunchKeeps ==
  ASSUME IInv, Launch
  PROVE  IInv'
<1>1. PICK i \in DOMAIN todo :
        /\ Tiled \/ PerHead => i = 1
        /\ launch' = todo[i]
        /\ todo' = RemoveAt(todo, i)
  BY Zenon DEF Launch
<1>2. /\ \A p \in Programs : pc[p] = "stored"
      /\ pc' = [p \in Programs |-> "waiting"]
      /\ in' = in /\ tile' = tile /\ mem' = mem /\ mass' = mass
  BY DEF Launch
<1>3. InputOK /\ Queued(todo) /\ FirstPass
  BY DEF IInv, TypeInv, PlanInv
<1>4. /\ Queued(todo') /\ LaunchOK(launch')
      /\ \A K : CoverOf(todo, K) = CoverOf(todo', K) \cup ColsOf(launch', K)
      /\ \A K \in {Sum1, Sum2} : Disjoint(CoverOf(todo', K), ColsOf(launch', K))
      /\ \A j \in DOMAIN todo' : \E k \in DOMAIN todo :
           todo'[j] = todo[k] /\ k # i /\ (i = 1 => k > i)
  BY <1>1, <1>3, RemovedQueue
<1>5. /\ InputOK' /\ NumBlocks' = NumBlocks /\ Planned' = Planned
      /\ InPlay' = InPlay /\ Programs' = Programs
      /\ \A a : Prog(a)' = Prog(a) /\ Fed(a)' = Fed(a)
      /\ \A a, D, E : StateOf(a, D, E)' = StateOf(a, D, E)
      /\ \A a, D : MaxOf(a, D)' = MaxOf(a, D)
      /\ \A a, D, m : SumOf(a, D, m)' = SumOf(a, D, m)
      /\ \A L : LaunchOK(L)' <=> LaunchOK(L)
      /\ \A s : Queued(s)' <=> Queued(s)
  BY <1>2, <1>3, InputStays
<1>6. launch'.kernel \in Sum2 => \A j \in DOMAIN todo' : todo'[j].kernel \in Sum2
  <2>1. ASSUME launch'.kernel \in Sum2, NEW j \in DOMAIN todo'
        PROVE  todo'[j].kernel \in Sum2
    <3>1. in.twoPass
      BY <1>4, <2>1 DEF LaunchOK, KernelOK, Sum2
    <3>2. Tiled \/ PerHead
      <4>1. ~Tiled => (in.twoPass <=> in.mode = "mass")
        BY <1>3, ExperimentIs
      <4> QED
        BY <3>1, <4>1 DEF PerHead
    <3>3. PICK k \in DOMAIN todo : todo'[j] = todo[k] /\ k > i
      BY <1>1, <1>4, <3>2
    <3>4. todo[k].kernel \notin Sum1
      BY <1>1, <1>3, <2>1, <3>3 DEF Queued, Ordered, Sum1, Sum2
    <3>5. todo[k].kernel \in Sum1 \cup Sum2
      <4>1. LaunchOK(todo[k])
        BY <1>3 DEF Queued
      <4> QED
        BY <4>1 DEF LaunchOK, Launches
    <3> QED
      BY <3>3, <3>4, <3>5
  <2> QED
    BY <2>1
<1>7. TypeInv'
  BY <1>2, <1>5 DEF IInv, TypeInv
<1>8. launch' # Idle
  <2>1. launch'.kernel \in Sum1 \cup Sum2
    BY <1>4 DEF LaunchOK, Launches
  <2> QED
    BY <2>1 DEF Idle, Sum1, Sum2
<1>9. PlanInv'
  <2>1. Queued(todo)'
    BY <1>4, <1>5
  <2>2. LaunchOK(launch)'
    BY <1>4, <1>5
  <2>3. Running'
    BY <1>4, <1>6, <2>2 DEF Running
  <2>4. FirstPass'
    <3>1. SUFFICES ASSUME in.twoPass,
                          \/ launch'.kernel \in Sum1
                          \/ \E j \in DOMAIN todo' : todo'[j].kernel \in Sum1
                   PROVE  Planned \subseteq CoverOf(todo', Sum2)
      BY <1>2, <1>5 DEF FirstPass
    <3>2. \E j \in DOMAIN todo : todo[j].kernel \in Sum1
      BY <1>1, <1>4, <3>1
    <3>3. Planned \subseteq CoverOf(todo, Sum2)
      BY <1>3, <3>1, <3>2 DEF FirstPass
    <3>4. launch'.kernel \notin Sum2
      BY <1>6, <3>1 DEF Sum1, Sum2
    <3>5. ColsOf(launch', Sum2) = {}
      BY <3>4 DEF ColsOf
    <3> QED
      BY <1>4, <3>3, <3>5
  <2> QED
    BY <1>8, <2>1, <2>3, <2>4 DEF PlanInv
<1>10. ASSUME NEW a \in InPlay, NEW K PROVE Done(a, K)' = Done(a, K)
  <2>1. Prog(a) \in Programs
    BY <1>3, HasProgram
  <2>2. Left(a, K) = CoverOf(todo, K)
    BY <1>2, <2>1 DEF Left
  <2>3. Left(a, K)' = CoverOf(todo', K) \cup ColsOf(launch', K)
    BY <1>2, <1>5, <2>1 DEF Left
  <2> QED
    BY <1>4, <1>5, <2>2, <2>3 DEF Done
<1>11. StateInv'
  <2>1. ASSUME NEW a \in InPlay
        PROVE  mem'[a] = StateOf(a, Done(a, Sum1), Second(a))'
    <3>1. Second(a)' = Second(a)
      BY <1>2, <1>10 DEF Second
    <3> QED
      BY <1>2, <1>5, <1>10, <3>1 DEF IInv, StateInv
  <2> QED
    BY <1>5, <2>1 DEF StateInv
<1>12. MassInv'
  BY <1>2, <1>5, <1>10 DEF IInv, MassInv
<1>13. TileInv'
  BY <1>2, <1>5 DEF IInv, TileInv, TypeInv
<1> QED
  BY <1>7, <1>9, <1>11, <1>12, <1>13 DEF IInv

LEMMA FoldKeeps ==
  ASSUME IInv, NEW p \in Programs, Fold(p)
  PROVE  IInv'
<1>1. /\ pc[p] = "waiting" /\ pc' = [pc EXCEPT ![p] = "folded"]
      /\ tile' = [tile EXCEPT ![p] = [r \in TileRows |-> Folded(p, r)]]
      /\ in' = in /\ todo' = todo /\ launch' = launch /\ mem' = mem /\ mass' = mass
  BY DEF Fold
<1>2. /\ pc \in [Programs -> {"waiting", "folded", "stored"}]
      /\ DOMAIN tile = Programs /\ launch # Idle
  BY <1>1 DEF IInv, TypeInv, PlanInv
<1>3. /\ pc'[p] = "folded" /\ \A q \in Programs \ {p} : pc'[q] = pc[q]
      /\ pc' \in [Programs -> {"waiting", "folded", "stored"}]
      /\ DOMAIN tile' = Programs /\ tile'[p] = [r \in TileRows |-> Folded(p, r)]
      /\ \A q \in Programs \ {p} : tile'[q] = tile[q]
  BY <1>1, <1>2
<1>4. /\ InputOK' /\ NumBlocks' = NumBlocks /\ Planned' = Planned
      /\ InPlay' = InPlay /\ Programs' = Programs /\ TileRows' = TileRows
      /\ \A a : Prog(a)' = Prog(a) /\ Fed(a)' = Fed(a)
      /\ \A a, D, E : StateOf(a, D, E)' = StateOf(a, D, E)
      /\ \A a, D : MaxOf(a, D)' = MaxOf(a, D)
      /\ \A a, D, m : SumOf(a, D, m)' = SumOf(a, D, m)
      /\ \A L : LaunchOK(L)' <=> LaunchOK(L)
      /\ \A s : Queued(s)' <=> Queued(s)
  BY <1>1, InputStays DEF IInv, TypeInv
<1>5. \A q, r : Folded(q, r)' = Folded(q, r)
  <2>1. ASSUME NEW q, NEW r PROVE Loaded(q, r)' = Loaded(q, r)
    <3>1. Address(q, r)' = Address(q, r) /\ (InTile(q, r)' <=> InTile(q, r))
      BY <1>1, InputStays
    <3> QED
      BY <1>1, <3>1 DEF Loaded
  <2>2. ASSUME NEW q, NEW r PROVE Folded(q, r)' = Folded(q, r)
    BY <1>1, <2>1, FoldedStays
  <2> QED
    BY <2>2
<1>6. TypeInv'
  BY <1>1, <1>3, <1>4 DEF IInv, TypeInv
<1>7. PlanInv'
  <2>1. Queued(todo)' /\ Running' /\ FirstPass'
    BY <1>1, <1>2, <1>4 DEF IInv, PlanInv, Running, FirstPass
  <2> QED
    BY <1>1, <1>2, <2>1 DEF PlanInv
<1>8. ASSUME NEW a, NEW K, a \in InPlay PROVE Done(a, K)' = Done(a, K)
  <2>1. Prog(a) \in Programs
    BY <1>8, HasProgram DEF IInv, TypeInv
  <2>2. Left(a, K)' = Left(a, K)
    <3>1. pc'[Prog(a)] = "stored" <=> pc[Prog(a)] = "stored"
      BY <1>1, <1>3, <2>1
    <3> QED
      BY <1>1, <1>4, <3>1 DEF Left
  <2> QED
    BY <1>4, <2>2 DEF Done
<1>9. StateInv'
  <2>1. ASSUME NEW a \in InPlay
        PROVE  mem'[a] = StateOf(a, Done(a, Sum1), Second(a))'
    <3>1. Second(a)' = Second(a)
      BY <1>1, <1>8 DEF Second
    <3> QED
      BY <1>1, <1>4, <1>8, <3>1 DEF IInv, StateInv
  <2> QED
    BY <1>4, <2>1 DEF StateInv
<1>10. MassInv'
  BY <1>1, <1>4, <1>8 DEF IInv, MassInv
<1>11. TileInv'
  <2>1. ASSUME NEW q \in Programs
        PROVE  /\ pc'[q] = "folded" => tile'[q] = [r \in TileRows |-> Folded(q, r)]
               /\ pc'[q] # "folded" => tile'[q] = <<>>
    BY <1>3 DEF IInv, TileInv
  <2> QED
    BY <1>4, <1>5, <2>1 DEF TileInv
<1> QED
  BY <1>6, <1>7, <1>9, <1>10, <1>11 DEF IInv

\* The columns of a block come before the tail.
LEMMA BlockInFull ==
  ASSUME InputOK, NEW k \in 0 .. NumBlocks - 1
  PROVE  BlockCols(k) \subseteq 0 .. Full - 1
<1>1. PICK T \in Nat \ {0}, n \in Nat : T = TokensPerBlock /\ n = NumBlocks
  <2>1. NumBlocks \in Nat
    BY InputIs
  <2> QED
    BY <2>1, Bounds
<1>2. k \in Nat /\ k + 1 <= n /\ 0 <= k
  BY <1>1
<1>3. PICK u \in Int, v \in Int, w \in Int : u = k * T /\ v = (k + 1) * T /\ w = n * T
  BY <1>1, <1>2
<1>4. v <= w /\ 0 <= u
  <2>1. (k + 1) * T <= n * T /\ 0 * T <= k * T
    BY <1>1, <1>2, MulLess
  <2>2. 0 * T = 0
    OBVIOUS
  <2> QED
    BY <1>3, <2>1, <2>2
<1>5. BlockCols(k) = u .. v - 1 /\ Full = w
  BY <1>1, <1>3, ColumnsAre DEF BlockCols
<1> QED
  BY <1>4, <1>5

\* What a program stores, for its own rows and for the others.
LEMMA Stored ==
  ASSUME IInv, NEW p \in Programs, Store(p)
  PROVE  /\ pc[p] = "folded" /\ launch # Idle /\ Running
         /\ \A a \in InPlay : Prog(a) = p =>
              \E r \in TileRows :
                /\ InTile(p, r) /\ Address(p, r) = a
                /\ mem'[a] = Folded(p, r).st
                /\ \A k \in 0 .. MaxBlocks + MaxTail :
                     mass'[a][k] =
                       IF k + 1 - launch.block \in DOMAIN Folded(p, r).mass
                       THEN Folded(p, r).mass[k + 1 - launch.block]
                       ELSE mass[a][k]
         /\ \A a \in Addresses : (a \in InPlay => Prog(a) # p) =>
              mem'[a] = mem[a] /\ mass'[a] = mass[a]
         /\ \A a \in Addresses :
              mass'[a] = [k \in 0 .. MaxBlocks + MaxTail |-> mass'[a][k]]
         /\ mass' = [a \in Addresses |-> mass'[a]]
<1>1. /\ InputOK /\ TileInv /\ MassInv /\ PlanInv
  BY DEF IInv, TypeInv
<1>2. pc[p] = "folded"
  BY DEF Store
<1>3. launch # Idle /\ Running
  BY <1>1, <1>2 DEF PlanInv
<1>4. tile[p] = [r \in TileRows |-> Folded(p, r)]
  BY <1>1, <1>2 DEF TileInv
<1> DEFINE rows == {r \in TileRows : InTile(p, r)}
           at(a) == CHOOSE r \in rows : Address(p, r) = a
           stored == {Address(p, r) : r \in rows}
<1>7. /\ mem' = [a \in Addresses |->
                   IF a \in stored THEN tile[p][at(a)].st ELSE mem[a]]
      /\ mass' = [a \in Addresses |-> [k \in DOMAIN mass[a] |->
                   IF a \in stored /\ k + 1 - launch.block \in DOMAIN tile[p][at(a)].mass
                   THEN tile[p][at(a)].mass[k + 1 - launch.block]
                   ELSE mass[a][k]]]
  BY Zenon DEF Store
<1>5. rows = {r \in TileRows : InTile(p, r)}
  OBVIOUS
<1>6. stored = {Address(p, r) : r \in rows}
  OBVIOUS
<1> HIDE DEF rows, stored
<1>8. ASSUME NEW a \in Addresses
      PROVE  a \in stored <=> a \in InPlay /\ Prog(a) = p
  <2>1. ASSUME a \in stored PROVE a \in InPlay /\ Prog(a) = p
    <3>1. PICK r \in TileRows : InTile(p, r) /\ a = Address(p, r)
      BY <1>5, <1>6, <2>1
    <3> QED
      BY <1>1, <3>1, OwnRow
  <2>2. ASSUME a \in InPlay, Prog(a) = p PROVE a \in stored
    <3>1. \E r \in TileRows : InTile(p, r) /\ Address(p, r) = a
      BY <1>1, <2>2, HasProgram
    <3> QED
      BY <1>5, <1>6, <3>1
  <2> QED
    BY <2>1, <2>2
<1>9. ASSUME NEW a \in stored
      PROVE  at(a) \in rows /\ Address(p, at(a)) = a
  <2>1. \E r \in rows : Address(p, r) = a
    BY <1>6
  <2> QED
    BY <2>1
<1> HIDE DEF at
<1>10. mass \in [Addresses -> [0 .. MaxBlocks + MaxTail -> Int]]
  BY <1>1 DEF MassInv
<1>11. ASSUME NEW a \in InPlay, Prog(a) = p
       PROVE  \E r \in TileRows :
                /\ InTile(p, r) /\ Address(p, r) = a
                /\ mem'[a] = Folded(p, r).st
                /\ \A k \in 0 .. MaxBlocks + MaxTail :
                     mass'[a][k] =
                       IF k + 1 - launch.block \in DOMAIN Folded(p, r).mass
                       THEN Folded(p, r).mass[k + 1 - launch.block]
                       ELSE mass[a][k]
  <2>1. a \in Addresses /\ a \in stored
    BY <1>8, <1>11 DEF InPlay
  <2>2. PICK r \in TileRows : r = at(a) /\ InTile(p, r) /\ Address(p, r) = a
    BY <1>5, <1>9, <2>1
  <2>3. tile[p][r] = Folded(p, r)
    BY <1>4
  <2>4. mem'[a] = Folded(p, r).st
    BY <1>7, <2>1, <2>2, <2>3
  <2>5. DOMAIN mass[a] = 0 .. MaxBlocks + MaxTail
    BY <1>10, <2>1
  <2>6. mass'[a] = [k \in 0 .. MaxBlocks + MaxTail |->
                     IF k + 1 - launch.block \in DOMAIN Folded(p, r).mass
                     THEN Folded(p, r).mass[k + 1 - launch.block]
                     ELSE mass[a][k]]
    BY <1>7, <2>1, <2>2, <2>3, <2>5
  <2> QED
    BY <2>2, <2>4, <2>6
<1>12. ASSUME NEW a \in Addresses, a \in InPlay => Prog(a) # p
       PROVE  mem'[a] = mem[a] /\ mass'[a] = mass[a]
  <2>1. a \notin stored
    BY <1>8, <1>12
  <2>2. mem'[a] = mem[a] /\ mass'[a] = [k \in DOMAIN mass[a] |-> mass[a][k]]
    BY <1>7, <2>1
  <2> QED
    BY <1>10, <2>2
<1>13. \A a \in Addresses :
         mass'[a] = [k \in 0 .. MaxBlocks + MaxTail |-> mass'[a][k]]
  BY <1>7, <1>10
<1>14. mass' = [a \in Addresses |-> mass'[a]]
  BY <1>7
<1> QED
  BY <1>2, <1>3, <1>11, <1>12, <1>13, <1>14

LEMMA StoreKeeps ==
  ASSUME IInv, NEW p \in Programs, Store(p)
  PROVE  IInv'
<1>1. /\ pc[p] = "folded" /\ pc' = [pc EXCEPT ![p] = "stored"]
      /\ tile' = [tile EXCEPT ![p] = <<>>]
      /\ launch' = IF \A q \in Programs \ {p} : pc[q] = "stored" THEN Idle ELSE launch
      /\ in' = in /\ todo' = todo
  BY DEF Store
<1>2. /\ pc \in [Programs -> {"waiting", "folded", "stored"}]
      /\ DOMAIN tile = Programs /\ launch # Idle /\ Running /\ InputOK
      /\ FirstPass /\ Queued(todo) /\ TileInv
  BY <1>1 DEF IInv, TypeInv, PlanInv
<1>3. /\ pc'[p] = "stored" /\ \A q \in Programs \ {p} : pc'[q] = pc[q]
      /\ pc' \in [Programs -> {"waiting", "folded", "stored"}]
      /\ DOMAIN tile' = Programs /\ tile'[p] = <<>>
      /\ \A q \in Programs \ {p} : tile'[q] = tile[q]
  BY <1>1, <1>2
<1>4. /\ InputOK' /\ NumBlocks' = NumBlocks /\ Planned' = Planned
      /\ InPlay' = InPlay /\ Programs' = Programs /\ TileRows' = TileRows
      /\ \A a : Prog(a)' = Prog(a) /\ Fed(a)' = Fed(a)
      /\ \A a, D, E : StateOf(a, D, E)' = StateOf(a, D, E)
      /\ \A a, D : MaxOf(a, D)' = MaxOf(a, D)
      /\ \A a, D, m : SumOf(a, D, m)' = SumOf(a, D, m)
      /\ \A L : LaunchOK(L)' <=> LaunchOK(L)
      /\ \A s : Queued(s)' <=> Queued(s)
  BY <1>1, <1>2, InputStays
<1>5. /\ \A a \in InPlay : Prog(a) = p =>
           \E r \in TileRows :
             /\ InTile(p, r) /\ Address(p, r) = a
             /\ mem'[a] = Folded(p, r).st
             /\ \A k \in 0 .. MaxBlocks + MaxTail :
                  mass'[a][k] =
                    IF k + 1 - launch.block \in DOMAIN Folded(p, r).mass
                    THEN Folded(p, r).mass[k + 1 - launch.block]
                    ELSE mass[a][k]
      /\ \A a \in Addresses : (a \in InPlay => Prog(a) # p) =>
           mem'[a] = mem[a] /\ mass'[a] = mass[a]
      /\ \A a \in Addresses :
           mass'[a] = [k \in 0 .. MaxBlocks + MaxTail |-> mass'[a][k]]
      /\ mass' = [a \in Addresses |-> mass'[a]]
  BY Stored
<1>6. ASSUME NEW q \in Programs \ {p}, pc[q] # "stored"
      PROVE  launch' = launch
  BY <1>1, <1>6
<1>7. InPlay \subseteq Addresses
  BY DEF InPlay
<1>8. TypeInv'
  <2>1. \A a \in Addresses \ InPlay : mem'[a] = Fresh
    BY <1>5 DEF IInv, TypeInv
  <2> QED
    BY <1>3, <1>4, <2>1 DEF TypeInv
<1>9. PlanInv'
  <2>1. CASE \A q \in Programs \ {p} : pc[q] = "stored"
    <3>1. launch' = Idle /\ \A q \in Programs : pc'[q] = "stored"
      BY <1>1, <1>3, <2>1
    <3>2. launch'.kernel \notin Sum1
      BY <3>1 DEF Idle, Sum1
    <3>3. FirstPass'
      BY <1>1, <1>2, <1>4, <3>2 DEF FirstPass
    <3> QED
      BY <1>1, <1>2, <1>4, <3>1, <3>3 DEF PlanInv
  <2>2. CASE ~(\A q \in Programs \ {p} : pc[q] = "stored")
    <3>1. launch' = launch
      BY <1>1, <2>2
    <3>2. Running' /\ FirstPass' /\ Queued(todo)'
      BY <1>1, <1>2, <1>4, <3>1 DEF Running, FirstPass
    <3> QED
      BY <1>2, <3>1, <3>2 DEF PlanInv
  <2> QED
    BY <2>1, <2>2
<1>10. ASSUME NEW a \in InPlay, Prog(a) # p, NEW K PROVE Done(a, K)' = Done(a, K)
  <2>1. Prog(a) \in Programs \ {p}
    BY <1>2, <1>10, HasProgram
  <2>2. pc'[Prog(a)] = pc[Prog(a)]
    BY <1>3, <2>1
  <2>3. Left(a, K)' = Left(a, K)
    <3>1. CASE pc[Prog(a)] = "stored"
      BY <1>1, <1>4, <2>2, <3>1 DEF Left
    <3>2. CASE pc[Prog(a)] # "stored"
      <4>1. launch' = launch
        BY <1>6, <2>1, <3>2
      <4> QED
        BY <1>1, <1>4, <2>2, <4>1 DEF Left
    <3> QED
      BY <3>1, <3>2
  <2> QED
    BY <1>4, <2>3 DEF Done
<1>11. ASSUME NEW a \in InPlay, Prog(a) = p, NEW K \in {Sum1, Sum2}
       PROVE  Done(a, K)' = Done(a, K) \cup (Fed(a) \cap ColsOf(launch, K))
  <2>1. Left(a, K)' = CoverOf(todo, K)
    BY <1>1, <1>3, <1>4, <1>11 DEF Left
  <2>2. Left(a, K) = CoverOf(todo, K) \cup ColsOf(launch, K)
    BY <1>1, <1>11 DEF Left
  <2>3. Disjoint(CoverOf(todo, K), ColsOf(launch, K))
    BY <1>2 DEF Running
  <2> QED
    BY <1>4, <2>1, <2>2, <2>3 DEF Done, Disjoint
<1>12. ASSUME NEW a \in InPlay, Prog(a) = p
       PROVE  pc[Prog(a)] # "stored" /\ mem[a] = StateOf(a, Done(a, Sum1), Second(a))
  BY <1>1, <1>12 DEF IInv, StateInv
<1>13. StateInv'
  <2>1. ASSUME NEW a \in InPlay
        PROVE  mem'[a] = StateOf(a, Done(a, Sum1), Second(a))'
    <3>1. CASE Prog(a) # p
      <4>1. Done(a, Sum1)' = Done(a, Sum1) /\ Second(a)' = Second(a)
        BY <1>1, <1>10, <3>1 DEF Second
      <4>2. mem'[a] = mem[a]
        BY <1>5, <1>7, <3>1
      <4> QED
        BY <1>4, <4>1, <4>2 DEF IInv, StateInv
    <3>2. CASE Prog(a) = p
      <4>1. PICK K2 \in {Sum1, Sum2} : K2 = IF in.twoPass THEN Sum2 ELSE Sum1
        OBVIOUS
      <4>2. /\ Second(a) = Done(a, K2) /\ Second(a)' = Done(a, K2)'
        BY <1>1, <4>1 DEF Second
      <4>3. PICK r \in TileRows : /\ InTile(p, r) /\ Address(p, r) = a
                                  /\ mem'[a] = Folded(p, r).st
        BY <1>5, <3>2
      <4>4. PICK q : q = p
        OBVIOUS
      <4>5. Folded(q, r).st =
              StateOf(a, Done(a, Sum1) \cup (Fed(a) \cap ColsOf(launch, Sum1)),
                      Second(a) \cup
                        (Fed(a) \cap ColsOf(launch, IF in.twoPass THEN Sum2 ELSE Sum1)))
        <5>1. pc[Prog(a)] # "stored" /\ mem[a] = StateOf(a, Done(a, Sum1), Second(a))
          BY <1>12, <3>2
        <5>2. q = Prog(a) /\ InTile(q, r) /\ Address(q, r) = a
          BY <3>2, <4>3, <4>4
        <5> QED
          BY ONLY <1>2, <5>1, <5>2, a \in InPlay, r \in TileRows, FoldedIs
      <4>6. mem'[a] = StateOf(a, Done(a, Sum1)', Second(a)')
        <5>1. Done(a, Sum1)' = Done(a, Sum1) \cup (Fed(a) \cap ColsOf(launch, Sum1))
          BY <1>11, <3>2
        <5>2. Second(a)' = Second(a) \cup (Fed(a) \cap ColsOf(launch, K2))
          BY <1>11, <3>2, <4>2
        <5> QED
          BY <4>1, <4>3, <4>4, <4>5, <5>1, <5>2
      <4> QED
        BY <1>4, <4>6
    <3> QED
      BY <3>1, <3>2
  <2> QED
    BY <1>4, <2>1 DEF StateInv
<1>14. MassInv'
  <2>1. ASSUME NEW a \in InPlay, Prog(a) = p
        PROVE  /\ \A k \in 0 .. MaxBlocks + MaxTail : mass'[a][k] \in Int
               /\ in.twoPass => \A k \in 0 .. NumBlocks - 1 :
                    mass'[a][k] = SumOf(a, Done(a, Sum2)' \cap BlockCols(k),
                                        MaxOf(a, Done(a, Sum1)'))
    <3>1. PICK r \in TileRows :
            /\ InTile(p, r) /\ Address(p, r) = a
            /\ \A k \in 0 .. MaxBlocks + MaxTail :
                 mass'[a][k] =
                   IF k + 1 - launch.block \in DOMAIN Folded(p, r).mass
                   THEN Folded(p, r).mass[k + 1 - launch.block]
                   ELSE mass[a][k]
      BY <1>5, <2>1
    <3>2. PICK M, N, q : /\ M = Folded(p, r).mass /\ N = Fed(a) \cap launch.cols
                         /\ q = p
      OBVIOUS
    <3>3. /\ \A i \in DOMAIN M : M[i] \in Int
          /\ launch.kernel # "accumulate" => DOMAIN M = {}
          /\ launch.kernel = "accumulate" =>
               \A k \in 0 .. NumBlocks - 1 :
                 MassOf(a, k, N, k + 1 - launch.block, M, launch.cols)
      <4>1. pc[Prog(a)] # "stored" /\ mem[a] = StateOf(a, Done(a, Sum1), Second(a))
        BY <1>12, <2>1
      <4>2. q = Prog(a) /\ InTile(q, r) /\ Address(q, r) = a
            /\ M = Folded(q, r).mass /\ N = Fed(a) \cap launch.cols
        BY <2>1, <3>1, <3>2
      <4> QED
        BY ONLY <1>2, <4>1, <4>2, a \in InPlay, r \in TileRows, MassIs
    <3>4. \A k \in 0 .. MaxBlocks + MaxTail :
            /\ mass[a][k] \in Int
            /\ mass'[a][k] = IF k + 1 - launch.block \in DOMAIN M
                             THEN M[k + 1 - launch.block] ELSE mass[a][k]
      BY <1>7, <3>1, <3>2 DEF IInv, MassInv
    <3>5. \A k \in 0 .. MaxBlocks + MaxTail : mass'[a][k] \in Int
      BY <3>3, <3>4
    <3>6. ASSUME in.twoPass, NEW k \in 0 .. NumBlocks - 1
          PROVE  mass'[a][k] = SumOf(a, Done(a, Sum2)' \cap BlockCols(k),
                                     MaxOf(a, Done(a, Sum1)'))
      <4>1. /\ launch.kernel \in Sum1 =>
                 /\ Disjoint(Done(a, Sum1), N)
                 /\ in.twoPass => Done(a, Sum2) = {}
            /\ launch.kernel \in Sum2 =>
                 Disjoint(Done(a, Sum2), N) /\ Done(a, Sum1) = Fed(a)
            /\ \A K : /\ Done(a, K) \in SUBSET Columns
                      /\ Fed(a) \cap ColsOf(launch, K) =
                           IF launch.kernel \in K THEN N ELSE {}
        <5>1. pc[Prog(a)] # "stored"
          BY <1>12, <2>1
        <5>2. N = Fed(a) \cap launch.cols
          BY <3>2
        <5> QED
          BY ONLY <1>2, <5>1, <5>2, a \in InPlay, RunningCols
      <4>2. /\ Done(a, Sum1)' = Done(a, Sum1) \cup (Fed(a) \cap ColsOf(launch, Sum1))
            /\ Done(a, Sum2)' = Done(a, Sum2) \cup (Fed(a) \cap ColsOf(launch, Sum2))
        BY <1>11, <2>1
      <4>3. mass[a][k] = SumOf(a, Done(a, Sum2) \cap BlockCols(k),
                               MaxOf(a, Done(a, Sum1)))
        BY <3>6 DEF IInv, MassInv
      <4>4. k \in 0 .. MaxBlocks + MaxTail /\ k \in Int
        BY <1>2, InputIs, StreamingAssumption
      <4>5. PICK i : i = k + 1 - launch.block
        OBVIOUS
      <4>6. mass'[a][k] = IF i \in DOMAIN M THEN M[i] ELSE mass[a][k]
        BY <3>4, <4>4, <4>5
      <4>7. launch.kernel \in {"stats", "accumulate", "fold"}
        BY <1>2, <3>6 DEF Running, LaunchOK, KernelOK
      <4>8. CASE launch.kernel = "stats"
        <5>1. Done(a, Sum2) = {} /\ Done(a, Sum2)' = {}
          BY <3>6, <4>1, <4>2, <4>8 DEF Sum1, Sum2
        <5>2. mass'[a][k] = mass[a][k]
          BY <3>3, <4>6, <4>8
        <5>3. {} \cap BlockCols(k) = {}
          OBVIOUS
        <5>4. mass[a][k] = 0
          BY <4>3, <5>1, <5>3, SumOfEmpty
        <5> QED
          BY <5>1, <5>2, <5>3, <5>4, SumOfEmpty
      <4>9. CASE launch.kernel \in {"accumulate", "fold"}
        <5>1. /\ Done(a, Sum1)' = Fed(a) /\ Done(a, Sum1) = Fed(a)
              /\ Done(a, Sum2)' = Done(a, Sum2) \cup N
              /\ Disjoint(Done(a, Sum2), N)
          BY <4>1, <4>2, <4>9 DEF Sum1, Sum2
        <5>2. CASE i \in DOMAIN M
          <6>1. launch.kernel = "accumulate"
            BY <3>3, <5>2
          <6>2. /\ M[i] = SumOf(a, N \cap BlockCols(k), MaxOf(a, Fed(a)))
                /\ BlockCols(k) \subseteq launch.cols
            BY <3>3, <4>5, <5>2, <6>1 DEF MassOf
          <6>3. Done(a, Sum2)' \cap BlockCols(k) = N \cap BlockCols(k)
            <7>1. Done(a, Sum2) \subseteq Fed(a)
              BY DEF Done
            <7> QED
              BY <3>2, <5>1, <6>2, <7>1 DEF Disjoint
          <6> QED
            BY <4>6, <5>1, <5>2, <6>2, <6>3
        <5>3. CASE i \notin DOMAIN M
          <6>1. N \cap BlockCols(k) = {}
            <7>1. CASE launch.kernel = "accumulate"
              BY <3>3, <4>5, <5>3, <7>1 DEF MassOf
            <7>2. CASE launch.kernel = "fold"
              <8>1. Disjoint(0 .. Full - 1, launch.cols)
                BY <1>2, <7>2 DEF Running, LaunchOK, KernelOK
              <8>2. BlockCols(k) \subseteq 0 .. Full - 1
                BY <1>2, BlockInFull
              <8> QED
                BY <3>2, <8>1, <8>2 DEF Disjoint
            <7> QED
              BY <4>9, <7>1, <7>2
          <6>2. Done(a, Sum2)' \cap BlockCols(k) = Done(a, Sum2) \cap BlockCols(k)
            BY <5>1, <6>1
          <6> QED
            BY <4>3, <4>6, <5>1, <5>3, <6>2
        <5> QED
          BY <5>2, <5>3
      <4> QED
        BY <4>7, <4>8, <4>9
    <3> QED
      BY <3>5, <3>6
  <2>2. ASSUME NEW a \in Addresses, a \in InPlay => Prog(a) # p
        PROVE  /\ mass'[a] = mass[a]
               /\ \A k \in 0 .. MaxBlocks + MaxTail : mass'[a][k] \in Int
               /\ in.twoPass /\ a \in InPlay => \A k \in 0 .. NumBlocks - 1 :
                    mass'[a][k] = SumOf(a, Done(a, Sum2)' \cap BlockCols(k),
                                        MaxOf(a, Done(a, Sum1)'))
    <3>1. mass'[a] = mass[a]
      BY <1>5, <2>2
    <3>2. a \in InPlay => Done(a, Sum1)' = Done(a, Sum1) /\ Done(a, Sum2)' = Done(a, Sum2)
      BY <1>10, <2>2
    <3> QED
      BY <3>1, <3>2 DEF IInv, MassInv
  <2>3. \A a \in Addresses : mass'[a] \in [0 .. MaxBlocks + MaxTail -> Int]
    <3>1. ASSUME NEW a \in Addresses
          PROVE  mass'[a] \in [0 .. MaxBlocks + MaxTail -> Int]
      <4>1. \A k \in 0 .. MaxBlocks + MaxTail : mass'[a][k] \in Int
        <5>1. CASE a \in InPlay /\ Prog(a) = p
          BY <2>1, <5>1
        <5>2. CASE a \in InPlay => Prog(a) # p
          BY <2>2, <5>2
        <5> QED
          BY <5>1, <5>2
      <4>2. mass'[a] = [k \in 0 .. MaxBlocks + MaxTail |-> mass'[a][k]]
        BY <1>5
      <4>3. PICK f : f = mass'[a]
        OBVIOUS
      <4>4. \A k \in 0 .. MaxBlocks + MaxTail : f[k] \in Int
        BY <4>1, <4>3, Zenon
      <4>5. f = [k \in 0 .. MaxBlocks + MaxTail |-> f[k]]
        BY <4>2, <4>3, Zenon
      <4>6. f \in [0 .. MaxBlocks + MaxTail -> Int]
        BY ONLY <4>4, <4>5
      <4> QED
        BY <4>3, <4>6
    <3> QED
      BY <3>1
  <2>4. mass' \in [Addresses -> [0 .. MaxBlocks + MaxTail -> Int]]
    <3>1. PICK g : g = mass'
      OBVIOUS
    <3>2. g = [a \in Addresses |-> g[a]]
      BY <1>5, <3>1, Zenon
    <3>3. \A a \in Addresses : g[a] \in [0 .. MaxBlocks + MaxTail -> Int]
      BY <2>3, <3>1, Zenon
    <3>4. g \in [Addresses -> [0 .. MaxBlocks + MaxTail -> Int]]
      BY ONLY <3>2, <3>3
    <3> QED
      BY <3>1, <3>4
  <2>5. ASSUME in.twoPass, NEW a \in InPlay, NEW k \in 0 .. NumBlocks - 1
        PROVE  mass'[a][k] = SumOf(a, Done(a, Sum2)' \cap BlockCols(k),
                                   MaxOf(a, Done(a, Sum1)'))
    <3>1. a \in Addresses
      BY <1>7
    <3> QED
      BY <2>1, <2>2, <2>5, <3>1
  <2> QED
    BY <1>1, <1>4, <2>4, <2>5 DEF MassInv
<1>15. TileInv'
  <2>1. ASSUME NEW q \in Programs \ {p}, pc[q] = "folded"
        PROVE  \A r \in TileRows : Folded(q, r)' = Folded(q, r)
    <3>1. launch' = launch
      BY <1>6, <2>1
    <3>2. ASSUME NEW r \in TileRows PROVE Folded(q, r)' = Folded(q, r)
      <4>1. Address(q, r)' = Address(q, r) /\ (InTile(q, r)' <=> InTile(q, r))
        BY <1>1, InputStays
      <4>2. InTile(q, r) => mem'[Address(q, r)] = mem[Address(q, r)]
        <5>1. ASSUME InTile(q, r) PROVE mem'[Address(q, r)] = mem[Address(q, r)]
          <6>1. Prog(Address(q, r)) = q /\ Address(q, r) \in Addresses
            BY <1>2, <1>7, <5>1, OwnRow
          <6> QED
            BY <1>5, <6>1
        <5> QED
          BY <5>1
      <4>3. Loaded(q, r)' = Loaded(q, r)
        BY <4>1, <4>2 DEF Loaded
      <4> QED
        BY <1>1, <3>1, <4>3, FoldedStays
    <3> QED
      BY <3>2
  <2>2. ASSUME NEW q \in Programs
        PROVE  /\ pc'[q] = "folded" =>
                    tile'[q] = [r \in TileRows |-> Folded(q, r)']
               /\ pc'[q] # "folded" => tile'[q] = <<>>
    <3>1. CASE q = p
      BY <1>3, <3>1
    <3>2. CASE q # p
      <4>1. tile'[q] = tile[q] /\ pc'[q] = pc[q]
        BY <1>3, <3>2
      <4> QED
        BY <1>2, <2>1, <3>2, <4>1 DEF TileInv
    <3> QED
      BY <3>1, <3>2
  <2> QED
    BY <1>4, <2>2 DEF TileInv
<1> QED
  BY <1>8, <1>9, <1>13, <1>14, <1>15 DEF IInv

LEMMA StutterKeeps ==
  ASSUME IInv, UNCHANGED vars
  PROVE  IInv'
<1>1. /\ in' = in /\ todo' = todo /\ launch' = launch /\ pc' = pc /\ tile' = tile
      /\ mem' = mem /\ mass' = mass
  BY DEF vars
<1>9. InputOK
  BY DEF IInv, TypeInv
<1>2. /\ InputOK' /\ NumBlocks' = NumBlocks /\ Planned' = Planned
      /\ InPlay' = InPlay /\ Programs' = Programs /\ TileRows' = TileRows
      /\ \A a : Prog(a)' = Prog(a) /\ Fed(a)' = Fed(a)
      /\ \A a, D, E : StateOf(a, D, E)' = StateOf(a, D, E)
      /\ \A a, D : MaxOf(a, D)' = MaxOf(a, D)
      /\ \A a, D, m : SumOf(a, D, m)' = SumOf(a, D, m)
      /\ \A L : LaunchOK(L)' <=> LaunchOK(L)
      /\ \A s : Queued(s)' <=> Queued(s)
      /\ \A p, r : /\ Address(p, r)' = Address(p, r)
                   /\ InTile(p, r)' <=> InTile(p, r)
  BY <1>1, <1>9, InputStays
<1>3. TypeInv'
  BY <1>1, <1>2 DEF IInv, TypeInv
<1>4. PlanInv'
  <2>1. Queued(todo)' /\ FirstPass'
    BY <1>1, <1>2 DEF IInv, PlanInv, FirstPass
  <2>2. launch = Idle \/ Running'
    BY <1>1, <1>2 DEF IInv, PlanInv, Running
  <2> QED
    BY <1>1, <1>2, <2>1, <2>2 DEF IInv, PlanInv
<1>5. \A a, K : Done(a, K)' = Done(a, K)
  BY <1>1, <1>2 DEF Done, Left
<1>6. StateInv'
  <2>1. \A a : Second(a)' = Second(a)
    BY <1>1, <1>5 DEF Second
  <2>2. ASSUME NEW a \in InPlay
        PROVE  mem'[a] = StateOf(a, Done(a, Sum1), Second(a))'
    BY <1>1, <1>2, <1>5, <2>1 DEF IInv, StateInv
  <2> QED
    BY <1>2, <2>2 DEF StateInv
<1>7. MassInv'
  <2>1. \A a \in InPlay : Done(a, Sum1)' = Done(a, Sum1) /\ Done(a, Sum2)' = Done(a, Sum2)
    BY <1>5
  <2> QED
    BY <1>1, <1>2, <2>1 DEF IInv, MassInv
<1>8. TileInv'
  <2>1. ASSUME NEW p, NEW r PROVE Folded(p, r)' = Folded(p, r)
    <3>1. Loaded(p, r)' = Loaded(p, r)
      BY <1>1, <1>2 DEF Loaded
    <3> QED
      BY <1>1, <3>1, FoldedStays
  <2> QED
    BY <1>1, <1>2, <2>1 DEF IInv, TileInv
<1> QED
  BY <1>3, <1>4, <1>6, <1>7, <1>8 DEF IInv

\* What the memory of a row holds is what the launches so far have fed it,
\* and the launches to come feed the rest, each column once.
THEOREM Invariance == Spec => []IInv
<1>1. IInv /\ [Next]_vars => IInv'
  <2> SUFFICES ASSUME IInv, [Next]_vars PROVE IInv'
    OBVIOUS
  <2>1. CASE Launch
    BY <2>1, LaunchKeeps
  <2>2. CASE \E p \in Programs : Fold(p) \/ Store(p)
    BY <2>2, FoldKeeps, StoreKeeps
  <2>3. CASE UNCHANGED vars
    BY <2>3, StutterKeeps
  <2> QED
    BY <2>1, <2>2, <2>3 DEF Next
<1> QED
  BY <1>1, InitHolds, PTL DEF Spec

-----------------------------------------------------------------------------
(* The properties *)

\* The registers and the memory have their types: the state of a row is that
\* of the columns folded into it, or a fresh one.
THEOREM TypeCorrect == Spec => []TypeOK
<1>1. ASSUME IInv PROVE TypeOK
  <2>1. InputOK
    BY <1>1 DEF IInv, TypeInv
  <2>2. in \in Inputs
    BY <2>1 DEF InputOK
  <2>3. launch.kernel \in {"idle", "one_shot", "step", "stats", "accumulate", "fold"}
    <3>1. CASE launch = Idle
      BY <3>1 DEF Idle
    <3>2. CASE Running
      BY <3>2 DEF Running, LaunchOK, Launches, Sum1, Sum2
    <3> QED
      BY <1>1, <3>1, <3>2 DEF IInv, PlanInv
  <2>4. pc \in [Programs -> {"waiting", "folded", "stored"}]
    BY <1>1 DEF IInv, TypeInv
  <2>5. ASSUME NEW p \in Programs PROVE (pc[p] = "folded") = (tile[p] # <<>>)
    <3>1. 0 \in TileRows
      <4>1. CASE Tiled
        BY <4>1, TiledTile
      <4>2. CASE ~Tiled
        BY <4>2, Bounds DEF TileRows
      <4> QED
        BY <4>1, <4>2
    <3>2. pc[p] = "folded" => tile[p] = [r \in TileRows |-> Folded(p, r)]
      BY <1>1 DEF IInv, TileInv
    <3>3. pc[p] # "folded" => tile[p] = <<>>
      BY <1>1 DEF IInv, TileInv
    <3>4. [r \in TileRows |-> Folded(p, r)] # <<>>
      <4>1. DOMAIN [r \in TileRows |-> Folded(p, r)] = TileRows
        BY Zenon
      <4>2. 0 \notin DOMAIN <<>>
        OBVIOUS
      <4> QED
        BY <3>1, <4>1, <4>2, Zenon
    <3> QED
      BY <3>2, <3>3, <3>4
  <2>6. ASSUME NEW a \in Addresses
        PROVE  /\ mem[a].m \in NegInf .. TopScore /\ mem[a].l \in Nat
               /\ mem[a].acc \in [Columns -> Nat]
    <3>1. Scored(a)
      BY <2>1, ScoredIs
    <3>2. CASE a \in InPlay
      <4>1. PICK D : D = Done(a, Sum1)
        OBVIOUS
      <4>2. D \in SUBSET Columns
        BY <2>1, <3>2, <4>1, FedIs DEF Done
      <4>3. PICK E, m : E = Second(a) /\ m = MaxOf(a, D)
        OBVIOUS
      <4>4. mem[a].m = m /\ mem[a].l = SumOf(a, D, m) /\ mem[a].acc = Terms(a, E, m)
        <5>1. mem[a] = StateOf(a, D, E)
          BY <1>1, <3>2, <4>1, <4>3 DEF IInv, StateInv
        <5> QED
          BY <4>3, <5>1 DEF StateOf
      <4>5. m \in NegInf .. TopScore
        BY <3>1, <4>2, <4>3, MaxOfIs
      <4>6. SumOf(a, D, m) \in Nat
        BY <3>1, <4>5, TermsType
      <4>7. Terms(a, E, m) \in [Columns -> Nat]
        <5>1. \A c \in Columns : Terms(a, E, m)[c] \in Nat
          BY <3>1, <4>5, TermsType
        <5> QED
          BY <5>1 DEF Terms
      <4> QED
        BY <4>4, <4>5, <4>6, <4>7
    <3>3. CASE a \notin InPlay
      <4>1. mem[a] = Fresh
        BY <1>1, <3>3 DEF IInv, TypeInv
      <4>2. NegInf \in NegInf .. TopScore
        BY Bounds DEF NegInf
      <4> QED
        BY <4>1, <4>2 DEF Fresh
    <3> QED
      BY <3>2, <3>3
  <2> QED
    BY <2>2, <2>3, <2>4, <2>5, <2>6 DEF TypeOK
<1> QED
  BY <1>1, Invariance, PTL

\* Whatever program runs, the rows of the others keep their state and mass,
\* those included that the padded end of its tile overlaps.
THEOREM OthersUntouched == Spec => OnlyOwnRows
<1> DEFINE A == \E p \in Programs : \A a \in Addresses \ Own(p) :
                  mem'[a] = mem[a] /\ mass'[a] = mass[a]
<1>1. ASSUME IInv, [Next]_vars PROVE [A]_vars
  <2>1. InputOK
    BY <1>1 DEF IInv, TypeInv
  <2>2. CASE UNCHANGED vars
    BY <2>2
  <2>3. CASE Launch \/ \E p \in Programs : Fold(p)
    <3>1. mem' = mem /\ mass' = mass
      BY <2>3 DEF Launch, Fold
    <3>2. \E p : p \in Programs
      <4>1. 0 \in InPlay
        BY Bounds, AddressBounds DEF InPlay
      <4> QED
        BY <2>1, <4>1, HasProgram
    <3> QED
      BY <3>1, <3>2
  <2>4. CASE \E p \in Programs : Store(p)
    <3>1. PICK p \in Programs : Store(p)
      BY <2>4
    <3>2. \A a \in Addresses : (a \in InPlay => Prog(a) # p) =>
            mem'[a] = mem[a] /\ mass'[a] = mass[a]
      BY <1>1, <3>1, Stored
    <3>3. ASSUME NEW a \in InPlay, Prog(a) = p PROVE a \in Own(p)
      <4>1. PICK r \in TileRows : InTile(p, r) /\ Address(p, r) = a
        BY <2>1, <3>3, HasProgram
      <4> QED
        BY <4>1 DEF Own, InTile, row_mask
    <3> QED
      BY <3>2, <3>3
  <2> QED
    BY <1>1, <2>2, <2>3, <2>4 DEF Next
<1>2. Spec => [][A]_vars
  BY <1>1, Invariance, PTL DEF Spec
<1> QED
  BY <1>2 DEF OnlyOwnRows

\* When nothing is left to launch, the state of a row is that of all its
\* columns.
LEMMA AtTheEnd ==
  ASSUME IInv, Quiet, todo = <<>>, NEW a \in InPlay
  PROVE  /\ InputOK /\ a \in Addresses /\ Scored(a)
         /\ mem[a] = StateOf(a, Fed(a), Fed(a))
         /\ \A K : Done(a, K) = Fed(a)
<1>1. InputOK
  BY DEF IInv, TypeInv
<1>2. a \in Addresses /\ Scored(a)
  BY <1>1, ScoredIs DEF InPlay
<1>3. ASSUME NEW K PROVE Done(a, K) = Fed(a)
  <2>1. CoverOf(todo, K) = {}
    BY DEF CoverOf
  <2>2. pc[Prog(a)] = "stored"
    BY <1>1, HasProgram DEF IInv, PlanInv, Quiet
  <2> QED
    BY <2>1, <2>2 DEF Done, Left
<1>4. mem[a] = StateOf(a, Fed(a), Fed(a))
  <2>1. Done(a, Sum1) = Fed(a) /\ Second(a) = Fed(a)
    BY <1>3 DEF Second
  <2> QED
    BY <2>1 DEF IInv, StateInv
<1> QED
  BY <1>1, <1>2, <1>3, <1>4

\* When a call ends, acc / l of every row is the softmax over the tokens it
\* attends to: every column counts once, in whatever chunks and tiles, with
\* whatever rescaling in between, and padding not at all.  A window needs a row
\* without padding (WindowExact).
THEOREM OutputCorrect == Spec => []OutputIsAttention
<1>1. ASSUME IInv PROVE OutputIsAttention
  <2>1. SUFFICES ASSUME Quiet, todo = <<>>, in.mode # "one_layer", WindowExact,
                        NEW a \in InPlay,
                        NEW all, all = Seen(a, Columns),
                        NEW W, W = [c \in all |-> RefWeight(a, c, RefMax(a, Columns))]
                 PROVE  /\ mem[a].l > 0
                        /\ \A c \in Columns :
                             mem[a].acc[c] * SumOver(W, all)
                               = (IF c \in all THEN W[c] ELSE 0) * mem[a].l
    BY Zenon DEF OutputIsAttention
  <2>2. /\ InputOK /\ Scored(a) /\ mem[a] = StateOf(a, Fed(a), Fed(a))
    BY <1>1, <2>1, AtTheEnd
  <2>3. /\ all = Fed(a) /\ all \in SUBSET Columns /\ Total - 1 \in all
    BY <2>1, <2>2, FedIs
  <2>4. PICK m : m = MaxOf(a, all)
    OBVIOUS
  <2>5. m \in NegInf .. TopScore /\ m \in 0 .. TopScore
    BY <2>2, <2>3, <2>4, MaxOfIs
  <2>6. RefMax(a, Columns) = m
    BY <2>1, <2>4 DEF RefMax, MaxOf
  <2>7. PICK t : t = Terms(a, all, m)
    OBVIOUS
  <2>8. /\ mem[a].l = SumOf(a, all, m) /\ mem[a].acc = t
    BY <2>2, <2>3, <2>4, <2>7 DEF StateOf
  <2>9. \A c \in Columns : (IF c \in all THEN W[c] ELSE 0) = t[c]
    BY <2>1, <2>3, <2>6, <2>7 DEF Terms, RefWeight
  <2>10. SumOver(W, all) = SumOf(a, all, m)
    BY <2>7, <2>9, SumOverIs
  <2>11. /\ \A c \in Columns : t[c] \in Nat
         /\ t[Total - 1] \in Nat \ {0} /\ SumOf(a, all, m) \in Int
    BY <2>2, <2>3, <2>5, <2>7, TermsType
  <2>12. SumOf(a, all, m) > 0
    <3>1. \A i \in 0 .. MaxCols - 1 : t[i] \in Nat
      BY <2>11, Bounds
    <3>2. \A i \in 0 .. MaxCols - 1 : t[i] <= SumUpTo(t, MaxCols)
      BY <3>1, Bounds, SumPositive
    <3>3. t[Total - 1] <= SumOf(a, all, m)
      BY <2>3, <2>7, <3>2, Bounds DEF SumOf
    <3> QED
      BY <2>11, <3>3
  <2> QED
    BY <2>8, <2>9, <2>10, <2>12, Zenon
<1> QED
  BY <1>1, Invariance, PTL

\* The scores handed to the pager are by the row's own block ids: its k-th
\* block has the weight of the tokens the row attends to in that block,
\* although the row's columns begin after its padding.
THEOREM MassCorrect == Spec => []MassPerBlock
<1>1. ASSUME IInv PROVE MassPerBlock
  <2>1. SUFFICES ASSUME Quiet, todo = <<>>, in.twoPass, WindowExact,
                        NEW a \in InPlay,
                        NEW k \in DOMAIN SessionMass(a),
                        NEW first,
                        first = IF in.mode = "sessions" THEN Padding(a \div H) ELSE 0,
                        NEW B,
                        B = {c \in Columns : (c - first) \div TokensPerBlock = k},
                        NEW W,
                        W = [c \in Seen(a, Columns) |-> RefWeight(a, c, mem[a].m)]
                 PROVE  SessionMass(a)[k] = SumOver(W, Seen(a, B))
    BY Zenon DEF MassPerBlock
  <2>2. /\ InputOK /\ Scored(a) /\ mem[a] = StateOf(a, Fed(a), Fed(a))
        /\ \A K : Done(a, K) = Fed(a)
    BY <1>1, <2>1, AtTheEnd
  <2>3. in.mode # "one_layer"
    BY <2>1, <2>2 DEF InputOK, Possible
  <2>4. /\ Seen(a, Columns) = Fed(a) /\ Fed(a) \in SUBSET Columns
        /\ a \div H \in RowIds
    BY <2>1, <2>2, <2>3, FedIs
  <2>5. PICK b : b = a \div H
    OBVIOUS
  <2>6. PICK T \in Nat \ {0} : T = TokensPerBlock
    BY Bounds
  <2>7. PICK pb \in Nat :
          /\ pb = IF in.mode = "sessions" THEN pad_blocks(b) ELSE 0
          /\ first = pb * T /\ pb + in.nb[b] <= NumBlocks /\ in.nb[b] \in Nat
    <3>1. /\ pad_blocks(b) \in 0 .. NumBlocks /\ in.nb[b] = NumBlocks - pad_blocks(b)
          /\ in.mode = "sessions" => Padding(b) = pad_blocks(b) * TokensPerBlock
      BY <2>2, <2>4, <2>5, PaddingIs
    <3>2. NumBlocks \in Nat /\ in.nb[b] \in Nat /\ in.nb[b] <= NumBlocks
      BY <2>2, <2>4, <2>5, InputIs
    <3>3. 0 * T = 0
      OBVIOUS
    <3>4. CASE in.mode = "sessions"
      BY <2>1, <2>5, <2>6, <3>1, <3>2, <3>4
    <3>5. CASE in.mode # "sessions"
      BY <2>1, <3>2, <3>3, <3>5
    <3> QED
      BY <3>4, <3>5
  <2>8. k \in 0 .. in.nb[b] - 1 /\ SessionMass(a)[k] = mass[a][k + pb]
    BY <2>1, <2>5, <2>7 DEF SessionMass
  <2>9. PICK j \in 0 .. NumBlocks - 1 : j = k + pb
    <3>1. NumBlocks \in Nat
      BY <2>2, InputIs
    <3> QED
      BY <2>7, <2>8, <3>1
  <2>10. PICK m : m = MaxOf(a, Fed(a))
    OBVIOUS
  <2>11. m = mem[a].m
    BY <2>2, <2>10 DEF StateOf
  <2>12. SessionMass(a)[k] = SumOf(a, Fed(a) \cap BlockCols(j), m)
    <3>1. mass[a][j] = SumOf(a, Done(a, Sum2) \cap BlockCols(j),
                             MaxOf(a, Done(a, Sum1)))
      BY <1>1, <2>1 DEF IInv, MassInv
    <3>2. Done(a, Sum2) = Fed(a) /\ Done(a, Sum1) = Fed(a)
      BY <2>2
    <3>3. mass[a][j] = SumOf(a, Fed(a) \cap BlockCols(j), m)
      BY <2>10, <3>1, <3>2, Zenon
    <3> QED
      BY <2>8, <2>9, <3>3, Zenon
  <2>13. ASSUME NEW c \in Columns PROVE c \in B <=> c \in BlockCols(j)
    <3>1. c \in Int /\ k \in Int /\ j \in Int
      BY <2>8, <2>9, Bounds
    <3>2. PICK x \in Int, y \in Int, z \in Int : x = k * T /\ y = pb * T /\ z = j * T
      BY <3>1
    <3>3. z = x + y /\ (k + 1) * T = x + T /\ (j + 1) * T = z + T
      <4>1. (k + pb) * T = k * T + pb * T /\ (k + 1) * T = k * T + T
            /\ (j + 1) * T = j * T + T
        BY <3>1
      <4> QED
        BY <2>9, <3>2, <4>1
    <3>4. (c - y) \div T = k <=> x <= c - y /\ c - y < x + T
      <4>1. c - y \in Int
        BY <3>1
      <4>2. T * k = k * T /\ T * (k + 1) = (k + 1) * T
        BY <3>1
      <4>3. (c - y) \div T = k <=> T * k <= c - y /\ c - y < T * (k + 1)
        BY <3>1, <4>1, DivIs
      <4> QED
        BY <3>2, <3>3, <4>2, <4>3
    <3>5. BlockCols(j) = z .. z + T - 1
      BY <2>6, <3>2, <3>3 DEF BlockCols
    <3>6. c \in B <=> (c - y) \div T = k
      BY <2>1, <2>6, <2>7, <3>2, Zenon
    <3>7. c \in BlockCols(j) <=> z <= c /\ c <= z + T - 1
      BY <3>1, <3>5
    <3>8. x <= c - y /\ c - y < x + T <=> z <= c /\ c <= z + T - 1
      BY <3>1, <3>3
    <3> QED
      BY <3>4, <3>6, <3>7, <3>8, Zenon
  <2>14. Seen(a, B) = Fed(a) \cap BlockCols(j)
    <3>1. Seen(a, B) = Seen(a, Columns) \cap B
      BY <2>1 DEF Seen
    <3> QED
      BY <2>4, <2>13, <3>1
  <2>15. \A c \in Columns : (IF c \in Seen(a, B) THEN W[c] ELSE 0)
                              = Terms(a, Fed(a) \cap BlockCols(j), m)[c]
    BY <2>1, <2>4, <2>11, <2>14 DEF Terms, RefWeight
  <2>16. SumOver(W, Seen(a, B)) = SumOf(a, Fed(a) \cap BlockCols(j), m)
    BY <2>15, SumOverIs
  <2> QED
    BY <2>12, <2>16
<1> QED
  BY <1>1, Invariance, PTL

=============================================================================
