-------------------------- MODULE BeamSearch_proofs --------------------------
(***************************************************************************)
(* Proofs about BeamSearch, for any prompts, beams, block size and costs:  *)
(* where the entries of a row are (BeamInv), what its score is (ScoreInv)  *)
(* and which hypotheses are answered (RankInv), whatever its parents were. *)
(***************************************************************************)
EXTENDS BeamSearch, FiniteSetTheorems, SequenceTheorems, WellFoundedInduction,
        TLAPS

T == TokensPerBlock
Beams == run.num_beams

\* The hypothesis of a row, with its prompt, and how much of it is cached.
Hyp(row) == Prompt(row) \o tokens[row]
Size == Len(run.prompts[1]) + Len(tokens[1])
Cached == IF pc = "select" THEN Size ELSE Size - 1

\* How many entries n blocks hold.
Start(n) == n * T

\* The entries s are those of h from position o on.
Piece(s, h, o) == \A i \in 1 .. Len(s) : s[i] = h[o + i]

Types ==
  /\ run \in Runs
  /\ pc \in {"forward", "select", "rank", "done"}
  /\ tokens \in [Rows -> Seq(Vocab)]
  /\ blocks \in Seq([Rows -> Seq(Nat)])
  /\ tail \in [Rows -> Seq(Nat)]

\* The rows of a batch are of one length.
Even == \A row \in Rows : Len(tokens[row]) = Len(tokens[1])

Stored ==
  \A row \in Rows :
    /\ Start(Len(blocks)) + Len(tail[row]) = Cached
    /\ Len(tail[row]) < T
    /\ \A b \in 1 .. Len(blocks) :
         /\ Len(blocks[b][row]) = T
         /\ Piece(blocks[b][row], Hyp(row), Start(b - 1))
    /\ Piece(tail[row], Hyp(row), Start(Len(blocks)))

Fed == \A row \in Rows : input[row] = Last(Hyp(row))

Masked ==
  \A row \in Rows : \A i \in DOMAIN Prompt(row) :
    Prompt(row)[i] = Pad <=> i <= pads[row]

BeamInv == Types /\ Even /\ Stored /\ Fed /\ Masked

-----------------------------------------------------------------------------
(* Rows and groups *)

LEMMA DivMod ==
  ASSUME NEW n \in Nat \ {0}, NEW a \in Nat
  PROVE  /\ a \div n \in Nat /\ a % n \in 0 .. n - 1
         /\ a = (a \div n) * n + (a % n)
OBVIOUS

LEMMA DivModOf ==
  ASSUME NEW n \in Nat \ {0}, NEW q \in Nat, NEW r \in 0 .. n - 1
  PROVE  (q * n + r) \div n = q /\ (q * n + r) % n = r
OBVIOUS

LEMMA Products ==
  ASSUME NEW n \in Nat \ {0}, NEW p \in Nat, NEW q \in Nat
  PROVE  /\ p * n \in Nat /\ (p + q) * n = p * n + q * n
         /\ (p + 1) * n = p * n + n
         /\ p <= q => p * n <= q * n
         /\ p * n < q * n => p < q
OBVIOUS

LEMMA Starts ==
  ASSUME NEW p \in Nat, NEW q \in Nat
  PROVE  /\ T \in Nat \ {0} /\ Start(p) \in Nat
         /\ Start(p + q) = Start(p) + Start(q) /\ Start(p + 1) = Start(p) + T
         /\ p <= q => Start(p) <= Start(q)
<1>1. T \in Nat \ {0}
  BY BeamAssumption DEF T
<1> QED
  BY <1>1, Products DEF Start

LEMMA StartStep ==
  ASSUME NEW b \in Nat \ {0}
  PROVE  /\ b - 1 \in Nat /\ Start(b - 1) \in Nat /\ Start(b) \in Nat
         /\ Start(b) = Start(b - 1) + T
<1>1. PICK a \in Nat : a = b - 1 /\ a + 1 = b
  OBVIOUS
<1>2. Start(a) \in Nat /\ Start(b) \in Nat /\ Start(a + 1) = Start(a) + T
  BY <1>1, Starts
<1> QED
  BY <1>1, <1>2

LEMMA Arguments ==
  ASSUME run \in Runs
  PROVE  /\ T \in Nat \ {0} /\ Beams \in Nat \ {0}
         /\ run.prompts \in Seq(Seq(Nat)) /\ Len(run.prompts) \in Nat \ {0}
         /\ Groups = 1 .. Len(run.prompts)
         /\ Vocab \subseteq Nat
         /\ Len(run.prompts[1]) \in Nat /\ Len(run.prompts[1]) > 1
         /\ \A g \in Groups : /\ run.prompts[g] \in Seq(Nat)
                              /\ Len(run.prompts[g]) = Len(run.prompts[1])
                              /\ LeftPadded(run.prompts[g])
<1>1. /\ T \in Nat \ {0} /\ Vocab \subseteq Nat
      /\ Beams \in 1 .. Cardinality(Vocab)
      /\ run.prompts \in Seq(Seq(Vocab \cup {Pad})) /\ run.prompts # <<>>
      /\ \A p, q \in DOMAIN run.prompts :
           Len(run.prompts[p]) = Len(run.prompts[q])
      /\ \A p \in DOMAIN run.prompts : LeftPadded(run.prompts[p])
  BY BeamAssumption DEF T, Beams
<1>2. Beams \in Nat \ {0}
  BY <1>1
<1>3. Vocab \cup {Pad} \subseteq Nat
  BY <1>1 DEF Pad
<1>4. Seq(Vocab \cup {Pad}) \subseteq Seq(Nat)
  BY <1>3, SeqMonotonic
<1>5. /\ run.prompts \in Seq(Seq(Nat)) /\ Len(run.prompts) \in Nat \ {0}
      /\ Groups = 1 .. Len(run.prompts)
  BY <1>1, <1>4, SeqMonotonic, EmptySeq DEF Groups
<1>6. 1 \in Groups /\ \A g \in Groups : run.prompts[g] \in Seq(Nat)
  BY <1>5
<1>7. Len(run.prompts[1]) \in Nat /\ Len(run.prompts[1]) > 1
  BY <1>1, <1>6 DEF LeftPadded, Groups
<1> QED
  BY <1>1, <1>2, <1>5, <1>6, <1>7 DEF Groups

LEMMA RowFacts ==
  ASSUME run \in Runs
  PROVE  /\ 1 \in Rows
         /\ \A row \in Rows :
              /\ row \in Nat \ {0}
              /\ GroupOf(row) \in Groups
              /\ Prompt(row) \in Seq(Nat)
              /\ Len(Prompt(row)) = Len(run.prompts[1])
              /\ LeftPadded(Prompt(row))
<1>1. PICK n \in Nat \ {0}, m \in Nat \ {0} : n = Beams /\ m = Len(run.prompts)
  BY Arguments
<1>2. m * n \in Nat /\ m * n >= 1
  <2>1. 1 * n <= m * n /\ m * n \in Nat
    BY <1>1, Products
  <2> QED
    BY <2>1
<1>3. Rows = 1 .. m * n
  BY <1>1 DEF Rows, Beams
<1>4. ASSUME NEW row \in Rows PROVE row \in Nat \ {0} /\ GroupOf(row) \in Groups
  <2>1. row \in Nat \ {0} /\ row - 1 \in Nat /\ row - 1 < m * n
    BY <1>2, <1>3
  <2>0. PICK a \in Nat : a = row - 1
    BY <2>1
  <2>2. PICK q \in Nat, r \in 0 .. n - 1 :
          q = (row - 1) \div n /\ row - 1 = q * n + r
    BY <2>0, DivMod
  <2>3. q * n \in Nat /\ q * n < m * n
    BY <1>2, <2>1, <2>2, Products
  <2>4. q < m
    BY <1>1, <2>3, Products
  <2>5. GroupOf(row) = 1 + q
    BY <1>1, <2>2 DEF GroupOf, Beams
  <2>6. 1 + q \in 1 .. m
    BY <1>1, <2>4
  <2> QED
    BY <1>1, <2>1, <2>5, <2>6, Arguments
<1> QED
  BY <1>2, <1>3, <1>4, Arguments DEF Prompt

\* The parent of a row is a row of its prompt.
LEMMA ParentOf ==
  ASSUME run \in Runs, NEW row \in Rows, NEW pick, pick[1] \in 1 .. Beams
  PROVE  LET parent == Parent(GroupOf(row), pick) IN
         /\ parent \in Rows /\ Prompt(parent) = Prompt(row)
         /\ GroupOf(parent) = GroupOf(row)
<1>0. PICK n \in Nat \ {0}, m \in Nat \ {0} : n = Beams /\ m = Len(run.prompts)
  BY Arguments
<1>1. PICK g \in 1 .. m, k \in 1 .. n :
        n = Beams /\ m = Len(run.prompts) /\ g = GroupOf(row) /\ k = pick[1]
  BY <1>0, Arguments, RowFacts
<1>2. Parent(GroupOf(row), pick) = (g - 1) * n + k
  BY <1>1 DEF Parent, Beams
<1>3. /\ g - 1 \in Nat /\ k - 1 \in 0 .. n - 1
      /\ (g - 1) * n \in Nat
  BY <1>1, Products
<1>4. ((g - 1) * n + k) - 1 = (g - 1) * n + (k - 1)
  BY <1>3
<1>5. ((g - 1) * n + (k - 1)) \div n = g - 1
  BY <1>3, DivModOf
<1>6. GroupOf((g - 1) * n + k) = g
  BY <1>1, <1>3, <1>4, <1>5 DEF GroupOf, Beams
<1>7. ((g - 1) + 1) * n = (g - 1) * n + n /\ (g - 1) + 1 = g
  BY <1>3, Products
<1>8. g * n <= m * n /\ m * n \in Nat
  BY <1>1, Products, g \in Nat, g <= m
<1>9. (g - 1) * n + k \in 1 .. m * n
  <2>1. PICK x \in Nat, y \in Nat : x = (g - 1) * n /\ y = m * n
    BY <1>3, <1>8
  <2>2. x + n <= y
    BY <1>7, <1>8, <2>1
  <2>3. x + k \in 1 .. y
    BY ONLY <2>2, k \in 1 .. n, n \in Nat, x \in Nat, y \in Nat
  <2> QED
    BY <2>1, <2>3
<1> QED
  BY <1>1, <1>2, <1>6, <1>9 DEF Rows, Prompt, Beams

-----------------------------------------------------------------------------
(* Hypotheses, and a cache cut in blocks and tail *)

LEMMA HypIs ==
  ASSUME Types, Even, NEW row \in Rows
  PROVE  /\ Hyp(row) \in Seq(Nat) /\ Len(Hyp(row)) = Size
         /\ Size \in Nat /\ Size > 1 /\ Len(tokens[1]) \in Nat
         /\ \A i \in 1 .. Len(run.prompts[1]) : Hyp(row)[i] = Prompt(row)[i]
         /\ \A i \in 1 .. Len(tokens[1]) :
              Hyp(row)[Len(run.prompts[1]) + i] = tokens[row][i]
<1>1. /\ Prompt(row) \in Seq(Nat) /\ Len(Prompt(row)) = Len(run.prompts[1])
      /\ Len(run.prompts[1]) \in Nat /\ Len(run.prompts[1]) > 1
      /\ Vocab \subseteq Nat
  BY Arguments, RowFacts DEF Types
<1>2. tokens[row] \in Seq(Nat) /\ Len(tokens[row]) = Len(tokens[1])
  <2>1. tokens[row] \in Seq(Vocab)
    BY DEF Types
  <2> QED
    BY <1>1, <2>1, SeqMonotonic DEF Even
<1>3. PICK p \in Seq(Nat), t \in Seq(Nat), l \in Nat, n \in Nat :
        /\ p = Prompt(row) /\ t = tokens[row]
        /\ l = Len(run.prompts[1]) /\ n = Len(tokens[1])
        /\ Len(p) = l /\ Len(t) = n
  BY <1>1, <1>2
<1>4. /\ p \o t \in Seq(Nat) /\ Len(p \o t) = l + n
      /\ \A i \in 1 .. l + n : (p \o t)[i] = IF i <= l THEN p[i] ELSE t[i - l]
  <2>1. /\ p \o t \in Seq(Nat) /\ Len(p \o t) = Len(p) + Len(t)
        /\ \A i \in 1 .. Len(p) + Len(t) :
             (p \o t)[i] = IF i <= Len(p) THEN p[i] ELSE t[i - Len(p)]
    BY ONLY ConcatProperties, p \in Seq(Nat), t \in Seq(Nat)
  <2>2. Len(p) = l /\ Len(t) = n
    BY <1>3
  <2> QED
    BY ONLY <2>1, <2>2
<1>5. ASSUME NEW i \in 1 .. l PROVE (p \o t)[i] = p[i]
  <2>1. i \in 1 .. l + n /\ i <= l
    BY ONLY i \in 1 .. l, l \in Nat, n \in Nat
  <2> QED
    BY ONLY <1>4, <2>1
<1>6. \A i \in 1 .. n : (p \o t)[l + i] = t[i]
  BY <1>4
<1>7. Hyp(row) = p \o t /\ Size = l + n
  BY <1>3 DEF Hyp, Size
<1>8. l + n \in Nat /\ l + n > 1
  <2>1. l > 1
    BY <1>1, <1>3
  <2> QED
    BY ONLY <2>1, l \in Nat, n \in Nat
<1> QED
  BY <1>3, <1>4, <1>5, <1>6, <1>7, <1>8

Splits(new, seqs, n) ==
  /\ new.blocks \in Seq([Rows -> Seq(Nat)])
  /\ Len(new.blocks) \in Nat
  /\ new.tail \in [Rows -> Seq(Nat)]
  /\ \A row \in Rows :
       /\ \A b \in 1 .. Len(new.blocks) :
            /\ Len(new.blocks[b][row]) = T
            /\ Piece(new.blocks[b][row], seqs[row], Start(b - 1))
       /\ Start(Len(new.blocks)) + Len(new.tail[row]) = n
       /\ Len(new.tail[row]) < T
       /\ Piece(new.tail[row], seqs[row], Start(Len(new.blocks)))

\* A part of a sequence.
LEMMA PartOf ==
  ASSUME NEW s \in Seq(Nat), NEW a \in Nat, NEW b \in Nat, a <= b, b <= Len(s)
  PROVE  /\ SubSeq(s, a + 1, b) \in Seq(Nat)
         /\ Len(SubSeq(s, a + 1, b)) = b - a
         /\ Piece(SubSeq(s, a + 1, b), s, a)
<1>1. \A i \in a + 1 .. b : s[i] \in Nat
  OBVIOUS
<1>2. PICK p : p = SubSeq(s, a + 1, b)
  OBVIOUS
<1>3. /\ p \in Seq(Nat)
      /\ Len(p) = IF a + 1 <= b THEN b - (a + 1) + 1 ELSE 0
      /\ \A i \in 1 .. b - (a + 1) + 1 : p[i] = s[a + 1 + i - 1]
  BY <1>1, <1>2, SubSeqProperties
<1>4. Len(p) = b - a
  BY <1>3
<1>5. ASSUME NEW i \in 1 .. Len(p) PROVE p[i] = s[a + i]
  <2>1. i \in 1 .. b - (a + 1) + 1 /\ a + 1 + i - 1 = a + i
    BY <1>4
  <2>2. p[i] = s[a + 1 + i - 1]
    BY <1>3, <2>1
  <2> QED
    BY <2>1, <2>2
<1> QED
  BY <1>2, <1>3, <1>4, <1>5 DEF Piece

LEMMA SplitOf ==
  ASSUME run \in Runs, NEW n \in Nat, NEW seqs \in [Rows -> Seq(Nat)],
         \A row \in Rows : Len(seqs[row]) = n
  PROVE  Splits(Split(seqs, n), seqs, n)
<1>1. T \in Nat \ {0}
  BY Arguments
<1>2. PICK q \in Nat, r \in 0 .. T - 1 : q = n \div T /\ n = Start(q) + r
  BY <1>1, DivMod DEF Start
<1>3. Start(q) \in Nat /\ Start(q) <= n /\ n - Start(q) = r
  <2>1. PICK x \in Nat : x = Start(q)
    BY Starts
  <2>2. n = x + r /\ r \in Nat
    BY <1>1, <1>2, <2>1
  <2>3. x <= n /\ n - x = r
    BY ONLY <2>2, x \in Nat, n \in Nat
  <2> QED
    BY <2>1, <2>3
<1>4. PICK bs, ts :
        /\ bs = [b \in 1 .. q |-> BlockOf(seqs, b)]
        /\ ts = [row \in Rows |-> SubSeq(seqs[row], q * T + 1, n)]
  OBVIOUS
<1>5. Split(seqs, n).blocks = bs /\ Split(seqs, n).tail = ts
  BY <1>2, <1>4 DEF Split, T
<1>6. ASSUME NEW b \in 1 .. q, NEW row \in Rows
      PROVE  /\ BlockOf(seqs, b)[row] \in Seq(Nat)
             /\ Len(BlockOf(seqs, b)[row]) = T
             /\ Piece(BlockOf(seqs, b)[row], seqs[row], Start(b - 1))
  <2>1. b - 1 \in Nat /\ (b - 1) + 1 = b
    OBVIOUS
  <2>2. PICK x \in Nat, y \in Nat : x = Start(b - 1) /\ y = Start(b)
    BY StartStep
  <2>3. y = x + T
    BY <2>2, StartStep
  <2>4. y <= Start(q)
    BY <1>1, <2>2, Starts, b \in Nat, b <= q
  <2>5. x <= y /\ y <= n /\ y - x = T
    BY <1>1, <1>3, <2>3, <2>4
  <2>6. BlockOf(seqs, b)[row] = SubSeq(seqs[row], x + 1, y)
    BY <2>2 DEF BlockOf, T, Start
  <2>7. PICK s \in Seq(Nat) : s = seqs[row] /\ Len(s) = n
    OBVIOUS
  <2>8. /\ SubSeq(s, x + 1, y) \in Seq(Nat)
        /\ Len(SubSeq(s, x + 1, y)) = y - x
        /\ Piece(SubSeq(s, x + 1, y), s, x)
    BY <2>5, <2>7, PartOf
  <2> QED
    BY <2>2, <2>5, <2>6, <2>7, <2>8
<1>7. ASSUME NEW row \in Rows
      PROVE  /\ ts[row] \in Seq(Nat) /\ Len(ts[row]) = r
             /\ Piece(ts[row], seqs[row], Start(q))
  <2>1. PICK x \in Nat : x = Start(q) /\ x <= n /\ n - x = r
    BY <1>3
  <2>2. ts[row] = SubSeq(seqs[row], x + 1, n)
    BY <1>4, <2>1 DEF Start
  <2>3. PICK s \in Seq(Nat) : s = seqs[row] /\ Len(s) = n
    OBVIOUS
  <2>4. /\ SubSeq(s, x + 1, n) \in Seq(Nat)
        /\ Len(SubSeq(s, x + 1, n)) = n - x
        /\ Piece(SubSeq(s, x + 1, n), s, x)
    BY <2>1, <2>3, PartOf
  <2> QED
    BY <2>1, <2>2, <2>3, <2>4
<1>8. ts \in [Rows -> Seq(Nat)]
  BY <1>4, <1>7
<1>9. \A b \in 1 .. q : BlockOf(seqs, b) \in [Rows -> Seq(Nat)]
  <2>1. \A b \in 1 .. q : BlockOf(seqs, b) = [row \in Rows |-> BlockOf(seqs, b)[row]]
    BY DEF BlockOf
  <2> QED
    BY <1>6, <2>1
<1>10. bs \in Seq([Rows -> Seq(Nat)]) /\ Len(bs) = q
  BY <1>4, <1>9
<1>11. \A b \in 1 .. q : bs[b] = BlockOf(seqs, b)
  BY <1>4
<1>12. Start(q) + r = n /\ r < T
  BY <1>1, <1>2
<1> QED
  BY <1>5, <1>6, <1>7, <1>8, <1>10, <1>11, <1>12 DEF Splits

-----------------------------------------------------------------------------
(* The invariant *)

LEMMA InitInv == Init => BeamInv
<1> SUFFICES ASSUME Init PROVE BeamInv
  OBVIOUS
<1>1. /\ run \in Runs /\ pc = "forward"
      /\ tokens = [row \in Rows |-> <<>>]
      /\ input = [row \in Rows |-> Last(Prompt(row))]
      /\ pads = [row \in Rows |->
                   Cardinality({i \in DOMAIN Prompt(row) : Prompt(row)[i] = Pad})]
  BY DEF Init
<1>2. PICK l \in Nat : l = Len(run.prompts[1]) /\ l > 1
  BY <1>1, Arguments
<1>3. PICK seqs : seqs = [row \in Rows |-> Front(Prompt(row))]
  OBVIOUS
<1>4. blocks = Split(seqs, l - 1).blocks /\ tail = Split(seqs, l - 1).tail
  BY <1>2, <1>3 DEF Init
<1>5. ASSUME NEW row \in Rows
      PROVE  /\ seqs[row] \in Seq(Nat) /\ Len(seqs[row]) = l - 1
             /\ Piece(seqs[row], Prompt(row), 0)
  <2>1. PICK p \in Seq(Nat) : p = Prompt(row) /\ Len(p) = l
    BY <1>1, <1>2, RowFacts
  <2>2. /\ SubSeq(p, 0 + 1, l - 1) \in Seq(Nat)
        /\ Len(SubSeq(p, 0 + 1, l - 1)) = (l - 1) - 0
        /\ Piece(SubSeq(p, 0 + 1, l - 1), p, 0)
    BY <1>2, <2>1, PartOf, 0 \in Nat, l - 1 \in Nat
  <2>3. seqs[row] = SubSeq(p, 1, l - 1)
    BY <1>3, <2>1 DEF Front
  <2> QED
    BY <2>1, <2>2, <2>3
<1>6. seqs \in [Rows -> Seq(Nat)] /\ l - 1 \in Nat
  BY <1>2, <1>3, <1>5
<1>7. PICK new : new.blocks = blocks /\ new.tail = tail /\ Splits(new, seqs, l - 1)
  BY <1>1, <1>4, <1>5, <1>6, SplitOf
<1>8. Types /\ Even
  <2>1. 1 \in Rows /\ <<>> \in Seq(Vocab)
    BY <1>1, RowFacts
  <2> QED
    BY <1>1, <1>7, <2>1 DEF Types, Even, Splits
<1>9. /\ Len(tokens[1]) = 0 /\ Size = l /\ Cached = l - 1
      /\ \A row \in Rows : Hyp(row) = Prompt(row)
  <2>1. 1 \in Rows /\ \A row \in Rows : Prompt(row) \in Seq(Nat)
    BY <1>1, RowFacts
  <2>2. \A row \in Rows : Prompt(row) \o <<>> = Prompt(row)
    BY <2>1, ConcatEmptySeq
  <2>3. Len(tokens[1]) = 0
    BY <1>1, <2>1
  <2>4. Size = l + 0 /\ l + 0 = l
    BY <1>2, <2>3 DEF Size
  <2> QED
    BY <1>1, <2>2, <2>3, <2>4 DEF Hyp, Cached
<1>10. Stored
  <2> SUFFICES ASSUME NEW row \in Rows
               PROVE  /\ Start(Len(blocks)) + Len(tail[row]) = Cached
                      /\ Len(tail[row]) < T
                      /\ \A b \in 1 .. Len(blocks) :
                           /\ Len(blocks[b][row]) = T
                           /\ Piece(blocks[b][row], Hyp(row), Start(b - 1))
                      /\ Piece(tail[row], Hyp(row), Start(Len(blocks)))
    BY DEF Stored
  <2>1. PICK k \in Nat, r \in Nat : k = Len(blocks) /\ r = Len(tail[row])
    BY <1>8 DEF Types
  <2>2. Start(k) + r = l - 1 /\ r < T
    BY <1>7, <2>1 DEF Splits
  <2>3. ASSUME NEW s, NEW o \in Nat, Len(s) \in Nat, o + Len(s) <= l - 1,
               Piece(s, seqs[row], o)
        PROVE  Piece(s, Hyp(row), o)
    <3>1. ASSUME NEW i \in 1 .. Len(s) PROVE s[i] = Hyp(row)[o + i]
      <4>1. o + i \in 1 .. Len(seqs[row]) /\ 0 + (o + i) = o + i
        BY <1>5, <2>3
      <4> QED
        BY <1>5, <1>9, <2>3, <4>1 DEF Piece
    <3> QED
      BY <3>1 DEF Piece
  <2>4. Start(k) \in Nat /\ T \in Nat \ {0}
    BY <1>1, Arguments, Starts
  <2>5. Piece(tail[row], Hyp(row), Start(Len(blocks)))
    BY <1>7, <2>1, <2>2, <2>3, <2>4 DEF Splits
  <2>6. ASSUME NEW b \in 1 .. Len(blocks)
        PROVE  /\ Len(blocks[b][row]) = T
               /\ Piece(blocks[b][row], Hyp(row), Start(b - 1))
    <3>1. PICK x \in Nat : x = Start(b - 1) /\ x + T = Start(b) /\ Start(b) <= Start(k)
      <4>1. b \in Nat \ {0} /\ b <= k
        BY <2>1
      <4>2. Start(b) <= Start(k)
        BY <4>1, Starts
      <4> QED
        BY <4>1, <4>2, StartStep
    <3>2. /\ Len(blocks[b][row]) = T
          /\ Piece(blocks[b][row], seqs[row], x)
      BY <1>7, <3>1 DEF Splits
    <3>3. x + T <= l - 1
      BY <2>2, <2>4, <3>1
    <3> QED
      BY <2>3, <2>4, <3>1, <3>2, <3>3
  <2> QED
    BY <1>7, <1>9, <2>1, <2>2, <2>5, <2>6
<1>11. Fed
  BY <1>1, <1>9 DEF Fed
<1>12. Masked
  <2> SUFFICES ASSUME NEW row \in Rows
               PROVE  \A i \in DOMAIN Prompt(row) : Prompt(row)[i] = Pad <=> i <= pads[row]
    BY DEF Masked
  <2>1. PICK p \in Seq(Nat) : p = Prompt(row)
    BY <1>1, RowFacts
  <2>2. PICK k \in 0 .. Len(p) - 1 : \A i \in DOMAIN p : p[i] = Pad <=> i <= k
    BY <1>1, <2>1, RowFacts DEF LeftPadded
  <2>3. {i \in DOMAIN p : p[i] = Pad} = 1 .. k
    <3>1. DOMAIN p = 1 .. Len(p) /\ Len(p) \in Nat
      OBVIOUS
    <3> QED
      BY <2>2, <3>1
  <2>4. Cardinality(1 .. k) = k
    BY <2>2, FS_Interval
  <2>5. pads[row] = k
    BY <1>1, <2>1, <2>3, <2>4
  <2> QED
    BY <2>1, <2>2, <2>5
<1> QED
  BY <1>8, <1>10, <1>11, <1>12 DEF BeamInv

\* The tail grows by the token that was fed, and a full one becomes a block.
LEMMA ForwardInv == BeamInv /\ Forward => BeamInv'
<1> SUFFICES ASSUME BeamInv, Forward PROVE BeamInv'
  OBVIOUS
<1>1. /\ pc = "forward" /\ pc' = "select"
      /\ run' = run /\ tokens' = tokens /\ input' = input /\ pads' = pads
  BY DEF Forward
<1>2. /\ Rows' = Rows /\ Size' = Size
      /\ \A row \in Rows : Prompt(row)' = Prompt(row) /\ Hyp(row)' = Hyp(row)
  BY <1>1 DEF Rows, Size, Prompt, Hyp, GroupOf
<1>3. Types /\ Even /\ Stored /\ Fed /\ Masked /\ run \in Runs
  BY DEF BeamInv, Types
<1>4. PICK grown : grown = [row \in Rows |-> Append(tail[row], input[row])]
  OBVIOUS
<1>5. PICK k \in Nat, t \in Nat \ {0} : k = Len(blocks) /\ t = T
  BY <1>3, Arguments DEF Types
<1>6. PICK r \in Nat : Start(k) + r = Size - 1 /\ r < t /\ r = Len(tail[1])
  <2>1. 1 \in Rows
    BY <1>3, RowFacts
  <2>2. tail[1] \in Seq(Nat)
    BY <1>3, <2>1 DEF Types
  <2> QED
    BY <1>1, <1>3, <1>5, <2>1, <2>2 DEF Stored, Cached
<1>7. Start(k) \in Nat /\ Size \in Nat
  BY <1>3, <1>5, Starts, HypIs, RowFacts
<1>8. ASSUME NEW row \in Rows
      PROVE  /\ grown[row] \in Seq(Nat) /\ Len(grown[row]) = r + 1
             /\ Piece(grown[row], Hyp(row), Start(k))
  <2>1. /\ Hyp(row) \in Seq(Nat) /\ Len(Hyp(row)) = Size /\ Size > 1
    BY <1>3, HypIs
  <2>2. input[row] = Hyp(row)[Size] /\ input[row] \in Nat
    BY <1>3, <1>7, <2>1 DEF Fed, Last
  <2>3. PICK s \in Seq(Nat), e \in Nat : s = tail[row] /\ e = input[row]
    BY <1>3, <2>2 DEF Types
  <2>4. Len(s) = r /\ Piece(s, Hyp(row), Start(k))
    <3>1. Start(k) + Len(s) = Size - 1 /\ Len(s) \in Nat
      BY <1>1, <1>3, <1>5, <2>3 DEF Stored, Cached
    <3>2. Len(s) = r
      BY ONLY <1>6, <1>7, <3>1
    <3> QED
      BY <1>3, <1>5, <2>3, <3>2 DEF Stored
  <2>5. /\ Append(s, e) \in Seq(Nat) /\ Len(Append(s, e)) = r + 1
        /\ \A i \in 1 .. r : Append(s, e)[i] = s[i]
        /\ Append(s, e)[r + 1] = e
    BY <2>4, AppendProperties
  <2>6. Start(k) + (r + 1) = Size
    <3>1. PICK x \in Nat, n \in Nat : x = Start(k) /\ n = Size
      BY <1>7
    <3>2. x + r = n - 1
      BY <1>6, <3>1
    <3>3. x + (r + 1) = n
      BY ONLY <3>2, x \in Nat, n \in Nat, r \in Nat
    <3> QED
      BY <3>1, <3>3
  <2>7. ASSUME NEW i \in 1 .. r + 1 PROVE Append(s, e)[i] = Hyp(row)[Start(k) + i]
    <3>1. CASE i = r + 1
      BY <2>2, <2>3, <2>5, <2>6, <3>1
    <3>2. CASE i # r + 1
      <4>1. i \in 1 .. r
        BY <3>2
      <4> QED
        BY <2>4, <2>5, <4>1 DEF Piece
    <3> QED
      BY <3>1, <3>2
  <2>8. grown[row] = Append(s, e)
    BY <1>4, <2>3
  <2> QED
    BY <2>5, <2>7, <2>8 DEF Piece
<1>9. grown \in [Rows -> Seq(Nat)] /\ r + 1 \in Nat /\ Len(grown[1]) = r + 1
  BY <1>3, <1>4, <1>8, RowFacts
<1>10. PICK new : /\ Splits(new, grown, r + 1)
                  /\ blocks' = blocks \o new.blocks /\ tail' = new.tail
  <2>1. blocks' = blocks \o Split(grown, r + 1).blocks /\ tail' = Split(grown, r + 1).tail
    BY <1>4, <1>9 DEF Forward
  <2> QED
    BY <1>3, <1>8, <1>9, <2>1, SplitOf
<1>11. PICK j \in Nat : j = Len(new.blocks)
  BY <1>10 DEF Splits
<1>12. /\ blocks' \in Seq([Rows -> Seq(Nat)]) /\ Len(blocks') = k + j
       /\ \A b \in 1 .. k + j :
            blocks'[b] = IF b <= k THEN blocks[b] ELSE new.blocks[b - k]
  <2>1. blocks \in Seq([Rows -> Seq(Nat)]) /\ new.blocks \in Seq([Rows -> Seq(Nat)])
    BY <1>3, <1>10 DEF Types, Splits
  <2> QED
    BY <1>5, <1>10, <1>11, <2>1, ConcatProperties
<1>13. Types' /\ Even'
  BY <1>1, <1>2, <1>3, <1>10, <1>12 DEF Types, Even, Splits
<1>14. Start(j) \in Nat /\ Start(k + j) = Start(k) + Start(j)
  BY <1>5, Starts
<1>15. ASSUME NEW row \in Rows, NEW s, NEW o \in Nat, Len(s) \in Nat,
              o + Len(s) <= r + 1, Piece(s, grown[row], o)
       PROVE  Piece(s, Hyp(row), Start(k) + o)
  <2>1. ASSUME NEW i \in 1 .. Len(s) PROVE s[i] = Hyp(row)[(Start(k) + o) + i]
    <3>1. o + i \in 1 .. Len(grown[row]) /\ Start(k) + (o + i) = (Start(k) + o) + i
      BY <1>7, <1>8, <1>15
    <3>2. s[i] = grown[row][o + i]
      BY <1>15 DEF Piece
    <3>3. grown[row][o + i] = Hyp(row)[Start(k) + (o + i)]
      BY <1>8, <3>1 DEF Piece
    <3> QED
      BY <3>1, <3>2, <3>3
  <2> QED
    BY <2>1 DEF Piece
<1>16. Stored'
  <2> SUFFICES ASSUME NEW row \in Rows
               PROVE  /\ Start(k + j) + Len(tail'[row]) = Size
                      /\ Len(tail'[row]) < t
                      /\ \A b \in 1 .. k + j :
                           /\ Len(blocks'[b][row]) = t
                           /\ Piece(blocks'[b][row], Hyp(row), Start(b - 1))
                      /\ Piece(tail'[row], Hyp(row), Start(k + j))
    <3>1. Cached' = Size
      BY <1>1, <1>2 DEF Cached
    <3>2. T' = t /\ Len(blocks') = k + j /\ Rows' = Rows
      BY <1>2, <1>5, <1>12 DEF T
    <3> QED
      BY <1>2, <3>1, <3>2 DEF Stored
  <2>1. PICK u \in Nat : u = Len(tail'[row])
    BY <1>10 DEF Splits
  <2>2. Start(j) + u = r + 1 /\ u < t /\ Piece(tail'[row], grown[row], Start(j))
    BY <1>5, <1>10, <1>11, <2>1 DEF Splits
  <2>3. Start(k + j) + u = Size
    <3>1. PICK x \in Nat, y \in Nat, n \in Nat :
            x = Start(k) /\ y = Start(j) /\ n = Size
      BY <1>7, <1>14
    <3>2. x + r = n - 1 /\ y + u = r + 1 /\ Start(k + j) = x + y
      BY <1>6, <1>14, <2>2, <3>1
    <3>3. (x + y) + u = n
      BY ONLY <3>2, x \in Nat, y \in Nat, n \in Nat, r \in Nat, u \in Nat
    <3> QED
      BY <3>1, <3>2, <3>3
  <2>4. Piece(tail'[row], Hyp(row), Start(k + j))
    BY <1>14, <1>15, <2>1, <2>2
  <2>5. ASSUME NEW b \in 1 .. k, b <= k
        PROVE  /\ Len(blocks'[b][row]) = t
               /\ Piece(blocks'[b][row], Hyp(row), Start(b - 1))
    <3>1. b \in 1 .. k + j /\ blocks'[b] = blocks[b]
      BY <1>12
    <3> QED
      BY <1>3, <1>5, <3>1 DEF Stored
  <2>6. ASSUME NEW c \in 1 .. j
        PROVE  /\ Len(blocks'[k + c][row]) = t
               /\ Piece(blocks'[k + c][row], Hyp(row), Start((k + c) - 1))
    <3>1. k + c \in 1 .. k + j /\ ~(k + c <= k) /\ (k + c) - k = c
      OBVIOUS
    <3>2. blocks'[k + c] = new.blocks[c]
      BY <1>12, <3>1
    <3>3. /\ Len(new.blocks[c][row]) = t
          /\ Piece(new.blocks[c][row], grown[row], Start(c - 1))
      BY <1>5, <1>10, <1>11 DEF Splits
    <3>4. PICK x \in Nat : /\ x = Start(c - 1) /\ x + t = Start(c) /\ Start(c) <= Start(j)
                           /\ Start((k + c) - 1) = Start(k) + x
      <4>1. /\ c - 1 \in Nat /\ c \in Nat \ {0} /\ c <= j
            /\ (k + c) - 1 = k + (c - 1)
        OBVIOUS
      <4>2. Start(c) <= Start(j)
        BY <4>1, Starts
      <4>3. Start(k + (c - 1)) = Start(k) + Start(c - 1)
        BY <4>1, Starts
      <4>4. Start(c - 1) \in Nat /\ Start(c) = Start(c - 1) + t
        BY <1>5, <4>1, StartStep
      <4> QED
        BY <4>1, <4>2, <4>3, <4>4
    <3>5. x + t <= r + 1
      BY <1>14, <2>2, <3>4
    <3>6. Piece(new.blocks[c][row], Hyp(row), Start(k) + x)
      BY <1>15, <3>3, <3>4, <3>5
    <3> QED
      BY <3>2, <3>3, <3>4, <3>6
  <2>7. ASSUME NEW b \in 1 .. k + j
        PROVE  /\ Len(blocks'[b][row]) = t
               /\ Piece(blocks'[b][row], Hyp(row), Start(b - 1))
    <3>1. CASE b <= k
      BY <2>5, <3>1
    <3>2. CASE ~(b <= k)
      <4>1. b - k \in 1 .. j /\ k + (b - k) = b
        BY <3>2
      <4> QED
        BY <2>6, <4>1
    <3> QED
      BY <3>1, <3>2
  <2> QED
    BY <2>1, <2>2, <2>3, <2>4, <2>7
<1>17. Fed' /\ Masked'
  BY <1>1, <1>2, <1>3 DEF Fed, Masked
<1> QED
  BY <1>13, <1>16, <1>17 DEF BeamInv

\* The new score of a row is that of a pick of its group.
Taken(row) ==
  \E s \in Picks(GroupOf(row)), i \in 1 .. Beams :
    scores'[row] = Candidate(GroupOf(row), s[i])

\* A selection gives every row a parent of its prompt, and moves the blocks,
\* the tail, the mask and the tokens of the rows by the same parents.
Moves(parents, next) ==
  /\ \A row \in Rows :
       /\ Prompt(parents[row]) = Prompt(row)
       /\ GroupOf(parents[row]) = GroupOf(row)
       /\ scores'[row] = Plus(scores[parents[row]],
                              logProbs[parents[row]][next[row]])
       /\ Taken(row)
  /\ finished' = [row \in Rows |-> finished[parents[row]] \/ next[row] = run.eos]
  /\ tokens' = [row \in Rows |-> Append(tokens[parents[row]], next[row])]
  /\ blocks' = [b \in DOMAIN blocks |->
                  [row \in Rows |-> blocks[b][parents[row]]]]
  /\ tail' = [row \in Rows |-> tail[parents[row]]]
  /\ input' = next
  /\ pads' = [row \in Rows |-> pads[parents[row]]]

LEMMA SelectIs ==
  ASSUME run \in Runs, Select
  PROVE  \E parents \in [Rows -> Rows], next \in [Rows -> Vocab] :
           Moves(parents, next)
<1>1. PICK choice \in {f \in [Groups -> UNION {Picks(g) : g \in Groups}] :
                         \A g \in Groups : f[g] \in Picks(g)} :
        LET pick == [row \in Rows |->
                       choice[GroupOf(row)][1 + ((row - 1) % run.num_beams)]]
            parents == [row \in Rows |-> Parent(GroupOf(row), pick[row])]
        IN  /\ tokens' = [row \in Rows |->
                            Append(tokens[parents[row]], pick[row][2])]
            /\ finished' = [row \in Rows |->
                              finished[parents[row]] \/ pick[row][2] = run.eos]
            /\ scores' = [row \in Rows |-> Candidate(GroupOf(row), pick[row])]
            /\ blocks' = [b \in DOMAIN blocks |->
                            [row \in Rows |-> blocks[b][parents[row]]]]
            /\ tail' = [row \in Rows |-> tail[parents[row]]]
            /\ input' = [row \in Rows |-> pick[row][2]]
            /\ pads' = [row \in Rows |-> pads[parents[row]]]
  BY DEF Select, _reorder_batch, reorder_batch_rows
<1>2. PICK pick : pick = [row \in Rows |->
                choice[GroupOf(row)][1 + ((row - 1) % run.num_beams)]]
  OBVIOUS
<1>3. PICK parents : parents = [row \in Rows |-> Parent(GroupOf(row), pick[row])]
  OBVIOUS
<1>4. PICK next : next = [row \in Rows |-> pick[row][2]]
  OBVIOUS
<1>5. ASSUME NEW row \in Rows PROVE pick[row] \in (1 .. Beams) \X Vocab
  <2>1. GroupOf(row) \in Groups /\ row \in Nat \ {0} /\ Beams \in Nat \ {0}
    BY RowFacts, Arguments
  <2>2. choice[GroupOf(row)] \in Picks(GroupOf(row))
    BY <1>1, <2>1
  <2>3. choice[GroupOf(row)] \in [1 .. Beams -> (1 .. Beams) \X Vocab]
    BY <2>2 DEF Picks, Beams
  <2>4. (row - 1) % Beams \in 0 .. Beams - 1
    BY <2>1, DivMod, row - 1 \in Nat
  <2>5. 1 + ((row - 1) % Beams) \in 1 .. Beams
    BY <2>1, <2>4
  <2>6. choice[GroupOf(row)][1 + ((row - 1) % Beams)] \in (1 .. Beams) \X Vocab
    BY <2>3, <2>5
  <2> QED
    BY <1>2, <2>6 DEF Beams
<1>6. ASSUME NEW row \in Rows
      PROVE  /\ parents[row] \in Rows /\ Prompt(parents[row]) = Prompt(row)
             /\ GroupOf(parents[row]) = GroupOf(row)
             /\ next[row] \in Vocab
  <2>1. pick[row][1] \in 1 .. Beams /\ pick[row][2] \in Vocab
    BY <1>5
  <2> QED
    BY <1>3, <1>4, <2>1, ParentOf
<1>7. parents \in [Rows -> Rows] /\ next \in [Rows -> Vocab]
  BY <1>3, <1>4, <1>6
<1>8. /\ tokens' = [row \in Rows |-> Append(tokens[parents[row]], pick[row][2])]
      /\ blocks' = [b \in DOMAIN blocks |->
                      [row \in Rows |-> blocks[b][parents[row]]]]
      /\ tail' = [row \in Rows |-> tail[parents[row]]]
      /\ input' = next
      /\ pads' = [row \in Rows |-> pads[parents[row]]]
  BY <1>1, <1>2, <1>3, <1>4
<1>9. tokens' = [row \in Rows |-> Append(tokens[parents[row]], next[row])]
  BY <1>4, <1>8
<1>10. finished' = [row \in Rows |->
                      finished[parents[row]] \/ next[row] = run.eos]
  BY <1>1, <1>2, <1>3, <1>4
<1>11. ASSUME NEW row \in Rows
       PROVE  scores'[row] = Plus(scores[parents[row]],
                                  logProbs[parents[row]][next[row]])
  <2>1. scores' = [r \in Rows |-> Candidate(GroupOf(r), pick[r])]
    BY <1>1, <1>2, <1>3
  <2>2. scores'[row] = Candidate(GroupOf(row), pick[row])
    BY <2>1
  <2>3. /\ parents[row] = (GroupOf(row) - 1) * run.num_beams + pick[row][1]
        /\ next[row] = pick[row][2]
    BY <1>3, <1>4 DEF Parent
  <2> QED
    BY <2>2, <2>3 DEF Candidate
<1>12. ASSUME NEW row \in Rows
       PROVE  Taken(row)
  <2>1. GroupOf(row) \in Groups /\ row \in Nat \ {0} /\ Beams \in Nat \ {0}
    BY RowFacts, Arguments
  <2>2. choice[GroupOf(row)] \in Picks(GroupOf(row))
    BY <1>1, <2>1
  <2>3. (row - 1) % Beams \in 0 .. Beams - 1
    BY <2>1, DivMod, row - 1 \in Nat
  <2>4. PICK i \in 1 .. Beams : i = 1 + ((row - 1) % Beams)
    BY <2>1, <2>3
  <2>5. pick[row] = choice[GroupOf(row)][i]
    BY <1>2, <2>4 DEF Beams
  <2>6. scores' = [r \in Rows |-> Candidate(GroupOf(r), pick[r])]
    BY <1>1, <1>2, <1>3
  <2> QED
    BY <2>2, <2>5, <2>6 DEF Taken
<1>13. Moves(parents, next)
  BY <1>6, <1>8, <1>9, <1>10, <1>11, <1>12 DEF Moves
<1> QED
  BY <1>7, <1>13

\* The hypothesis grows by the token that is fed next, and the row's blocks,
\* tail and mask are its parent's, like the hypothesis it continues.
LEMMA SelectInv == BeamInv /\ Select => BeamInv'
<1> SUFFICES ASSUME BeamInv, Select PROVE BeamInv'
  OBVIOUS
<1>1. Types /\ Even /\ Stored /\ Masked /\ run \in Runs
  BY DEF BeamInv, Types
<1>2. /\ pc = "select" /\ pc' \in {"rank", "forward"} /\ run' = run
  BY DEF Select
<1>0. PICK parents \in [Rows -> Rows], next \in [Rows -> Vocab] :
        Moves(parents, next)
  BY <1>1, SelectIs
<1>3. /\ \A row \in Rows :
           /\ Prompt(parents[row]) = Prompt(row)
           /\ GroupOf(parents[row]) = GroupOf(row)
           /\ scores'[row] = Plus(scores[parents[row]],
                                  logProbs[parents[row]][next[row]])
      /\ finished' = [row \in Rows |->
                        finished[parents[row]] \/ next[row] = run.eos]
      /\ tokens' = [row \in Rows |->
                      Append(tokens[parents[row]], next[row])]
      /\ blocks' = [b \in DOMAIN blocks |->
                      [row \in Rows |-> blocks[b][parents[row]]]]
      /\ tail' = [row \in Rows |-> tail[parents[row]]]
      /\ input' = next
      /\ pads' = [row \in Rows |-> pads[parents[row]]]
  BY <1>0 DEF Moves
<1>4. /\ Rows' = Rows /\ \A row \in Rows : Prompt(row)' = Prompt(row)
  BY <1>2 DEF Rows, Prompt, GroupOf
<1>5. PICK n \in Nat : n = Len(tokens[1]) /\ \A row \in Rows : Len(tokens[row]) = n
  BY <1>1, HypIs, RowFacts DEF Even
<1>6. ASSUME NEW row \in Rows
      PROVE  tokens'[row] \in Seq(Vocab) /\ Len(tokens'[row]) = n + 1
  <2>1. PICK t \in Seq(Vocab), e \in Vocab :
          t = tokens[parents[row]] /\ e = next[row] /\ Len(t) = n
    <3>1. parents[row] \in Rows /\ next[row] \in Vocab
      BY <1>3
    <3>2. tokens[parents[row]] \in Seq(Vocab) /\ Len(tokens[parents[row]]) = n
      BY <1>1, <1>5, <3>1 DEF Types
    <3> QED
      BY <3>1, <3>2
  <2>2. Append(t, e) \in Seq(Vocab) /\ Len(Append(t, e)) = n + 1
    BY <2>1, AppendProperties
  <2> QED
    BY <1>3, <2>1, <2>2
<1>7. /\ tokens' \in [Rows -> Seq(Vocab)] /\ Even' /\ Len(tokens'[1]) = n + 1
  BY <1>1, <1>3, <1>4, <1>6, RowFacts DEF Even
<1>8. Cached' = Cached /\ Cached = Size
  <2>1. PICK l \in Nat : l = Len(run.prompts[1])
    BY <1>1, Arguments
  <2>2. Size = l + n /\ Size' = l + (n + 1)
    BY <1>2, <1>5, <1>7, <2>1 DEF Size
  <2>3. (l + (n + 1)) - 1 = l + n
    OBVIOUS
  <2> QED
    BY <1>2, <2>2, <2>3 DEF Cached
<1>9. ASSUME NEW row \in Rows
      PROVE  /\ Hyp(row)' = Append(Hyp(parents[row]), next[row])
             /\ Hyp(parents[row]) \in Seq(Nat) /\ Len(Hyp(parents[row])) = Size
             /\ next[row] \in Nat
  <2>1. Prompt(row) \in Seq(Nat) /\ Vocab \subseteq Nat
    BY <1>1, RowFacts, Arguments
  <2>2. tokens[parents[row]] \in Seq(Nat) /\ next[row] \in Nat
    <3>1. tokens[parents[row]] \in Seq(Vocab)
      BY <1>1 DEF Types
    <3> QED
      BY <2>1, <3>1, SeqMonotonic
  <2>3. PICK p \in Seq(Nat), t \in Seq(Nat), e \in Nat :
          p = Prompt(row) /\ t = tokens[parents[row]] /\ e = next[row]
    BY <2>1, <2>2
  <2>4. Append(t, e) = t \o <<e>> /\ Append(p \o t, e) = (p \o t) \o <<e>>
    BY AppendIsConcat, ConcatProperties
  <2>5. (p \o t) \o <<e>> = p \o (t \o <<e>>)
    <3>1. <<e>> \in Seq(Nat)
      OBVIOUS
    <3> QED
      BY <3>1, ConcatAssociative
  <2>6. Hyp(row)' = p \o Append(t, e)
    BY <1>3, <1>4, <2>3 DEF Hyp
  <2>7. Hyp(parents[row]) = p \o t
    BY <1>3, <2>3 DEF Hyp
  <2>8. Hyp(parents[row]) \in Seq(Nat) /\ Len(Hyp(parents[row])) = Size
    BY <1>1, HypIs
  <2> QED
    BY <2>2, <2>3, <2>4, <2>5, <2>6, <2>7, <2>8
<1>10. Size \in Nat
  BY <1>1, HypIs, RowFacts
<1>11. ASSUME NEW row \in Rows, NEW s, NEW o \in Nat, Len(s) \in Nat,
              o + Len(s) <= Size, Piece(s, Hyp(parents[row]), o)
       PROVE  Piece(s, Hyp(row)', o)
  <2>1. PICK h \in Seq(Nat), e \in Nat :
          h = Hyp(parents[row]) /\ e = next[row] /\ Len(h) = Size
    BY <1>9
  <2>2. \A i \in 1 .. Size : Append(h, e)[i] = h[i]
    BY <2>1, AppendProperties
  <2>3. ASSUME NEW i \in 1 .. Len(s) PROVE s[i] = Append(h, e)[o + i]
    <3>1. o + i \in 1 .. Size
      BY ONLY o \in Nat, Len(s) \in Nat, i \in 1 .. Len(s), o + Len(s) <= Size,
              Size \in Nat, <1>10, <1>11
    <3>2. s[i] = h[o + i]
      BY <1>11, <2>1 DEF Piece
    <3> QED
      BY <2>2, <3>1, <3>2
  <2> QED
    BY <1>9, <2>1, <2>3 DEF Piece
<1>12. /\ blocks' \in Seq([Rows -> Seq(Nat)]) /\ Len(blocks') = Len(blocks)
       /\ Len(blocks) \in Nat
       /\ \A b \in 1 .. Len(blocks), row \in Rows :
            blocks'[b][row] = blocks[b][parents[row]]
  <2>1. blocks \in Seq([Rows -> Seq(Nat)])
    BY <1>1 DEF Types
  <2>2. PICK k \in Nat : k = Len(blocks) /\ DOMAIN blocks = 1 .. k
    BY <2>1
  <2>3. ASSUME NEW b \in 1 .. k
        PROVE  /\ blocks'[b] = [row \in Rows |-> blocks[b][parents[row]]]
               /\ blocks'[b] \in [Rows -> Seq(Nat)]
    <3>1. blocks[b] \in [Rows -> Seq(Nat)]
      BY <2>1, <2>2
    <3>2. blocks'[b] = [row \in Rows |-> blocks[b][parents[row]]]
      BY <1>3, <2>2
    <3> QED
      BY <3>1, <3>2
  <2>4. blocks' \in [1 .. k -> [Rows -> Seq(Nat)]]
    BY <1>3, <2>2, <2>3
  <2>5. blocks' \in Seq([Rows -> Seq(Nat)]) /\ Len(blocks') = k
    BY <2>4
  <2>6. ASSUME NEW b \in 1 .. k, NEW row \in Rows
        PROVE  blocks'[b][row] = blocks[b][parents[row]]
    <3>1. PICK g : g = blocks'[b]
      OBVIOUS
    <3>2. g = [r \in Rows |-> blocks[b][parents[r]]]
      BY <2>3, <3>1
    <3>3. g[row] = blocks[b][parents[row]]
      BY ONLY <3>2, row \in Rows
    <3> QED
      BY <3>1, <3>3
  <2> QED
    BY <2>2, <2>5, <2>6
<1>13. Types'
  <2>1. tail' \in [Rows -> Seq(Nat)]
    BY <1>1, <1>3 DEF Types
  <2> QED
    BY <1>1, <1>2, <1>4, <1>7, <1>12, <2>1 DEF Types
<1>14. ASSUME NEW row \in Rows
       PROVE  /\ Start(Len(blocks)) + Len(tail'[row]) = Cached
              /\ Len(tail'[row]) < T
              /\ \A b \in 1 .. Len(blocks) :
                   /\ Len(blocks'[b][row]) = T
                   /\ Piece(blocks'[b][row], Hyp(row)', Start(b - 1))
              /\ Piece(tail'[row], Hyp(row)', Start(Len(blocks)))
  <2>1. /\ Start(Len(blocks)) + Len(tail[parents[row]]) = Cached
        /\ Len(tail[parents[row]]) < T
        /\ \A b \in 1 .. Len(blocks) :
             /\ Len(blocks[b][parents[row]]) = T
             /\ Piece(blocks[b][parents[row]], Hyp(parents[row]), Start(b - 1))
        /\ Piece(tail[parents[row]], Hyp(parents[row]), Start(Len(blocks)))
    BY <1>1 DEF Stored
  <2>2. tail'[row] = tail[parents[row]] /\ Len(tail'[row]) \in Nat
    BY <1>1, <1>3 DEF Types
  <2>3. PICK x \in Nat, r \in Nat :
          x = Start(Len(blocks)) /\ r = Len(tail'[row]) /\ x + r = Size
    BY <1>8, <1>12, <2>1, <2>2, Starts
  <2>4. Piece(tail'[row], Hyp(row)', Start(Len(blocks)))
    BY <1>11, <2>1, <2>2, <2>3
  <2>5. ASSUME NEW b \in 1 .. Len(blocks)
        PROVE  /\ Len(blocks'[b][row]) = T
               /\ Piece(blocks'[b][row], Hyp(row)', Start(b - 1))
    <3>1. PICK y \in Nat, t \in Nat \ {0} :
            y = Start(b - 1) /\ t = T /\ Start(b) = y + t /\ Start(b) <= x
      <4>1. b \in Nat \ {0} /\ b <= Len(blocks)
        BY <1>12
      <4>2. Start(b) <= Start(Len(blocks)) /\ T \in Nat \ {0}
        BY <1>12, <4>1, Starts
      <4> QED
        BY <2>3, <4>1, <4>2, StartStep
    <3>2. y + t <= Size
      <4>1. y + t <= x /\ x + r = Size
        BY <2>3, <3>1
      <4> QED
        BY ONLY <4>1, y \in Nat, t \in Nat \ {0}, x \in Nat, r \in Nat
    <3>3. blocks'[b][row] = blocks[b][parents[row]]
      BY <1>12
    <3>4. Len(blocks'[b][row]) = t
      BY <2>1, <3>1, <3>3
    <3>5. Piece(blocks'[b][row], Hyp(parents[row]), y)
      BY <2>1, <3>1, <3>3
    <3> QED
      BY <1>11, <3>1, <3>2, <3>4, <3>5
  <2> QED
    BY <2>1, <2>2, <2>4, <2>5
<1>15. Stored'
  <2>1. T' = T
    BY DEF T
  <2> QED
    BY <1>4, <1>8, <1>12, <1>14, <2>1 DEF Stored
<1>16. Fed'
  <2>1. ASSUME NEW row \in Rows PROVE input'[row] = Last(Hyp(row)')
    <3>1. PICK h \in Seq(Nat), e \in Nat :
            h = Hyp(parents[row]) /\ e = next[row]
      BY <1>9
    <3>2. Append(h, e)[Len(Append(h, e))] = e
      BY AppendProperties
    <3> QED
      BY <1>3, <1>9, <3>1, <3>2 DEF Last
  <2> QED
    BY <1>4, <2>1 DEF Fed
<1>17. Masked'
  <2>1. ASSUME NEW row \in Rows
        PROVE  \A i \in DOMAIN Prompt(row) :
                 Prompt(row)[i] = Pad <=> i <= pads'[row]
    BY <1>1, <1>3 DEF Masked
  <2> QED
    BY <1>4, <2>1 DEF Masked
<1> QED
  BY <1>7, <1>13, <1>15, <1>16, <1>17 DEF BeamInv

LEMMA FinishInv == BeamInv /\ Finish => BeamInv'
<1> SUFFICES ASSUME BeamInv, Finish PROVE BeamInv'
  OBVIOUS
<1>1. /\ pc = "rank" /\ pc' = "done"
      /\ run' = run /\ tokens' = tokens /\ input' = input /\ pads' = pads
      /\ blocks' = blocks /\ tail' = tail
  BY DEF Finish
<1>2. /\ Rows' = Rows /\ Cached' = Cached /\ T' = T
      /\ \A row \in Rows : Prompt(row)' = Prompt(row) /\ Hyp(row)' = Hyp(row)
  BY <1>1 DEF Rows, Cached, Size, Prompt, Hyp, GroupOf, T
<1>3. Types' /\ Even'
  BY <1>1, <1>2 DEF BeamInv, Types, Even
<1>4. Stored'
  BY <1>1, <1>2 DEF BeamInv, Stored
<1>5. Fed' /\ Masked'
  BY <1>1, <1>2 DEF BeamInv, Fed, Masked
<1> QED
  BY <1>3, <1>4, <1>5 DEF BeamInv

LEMMA StutterInv == BeamInv /\ UNCHANGED vars => BeamInv'
<1> SUFFICES ASSUME BeamInv, UNCHANGED vars PROVE BeamInv'
  OBVIOUS
<1>1. /\ pc' = pc
      /\ run' = run /\ tokens' = tokens /\ input' = input /\ pads' = pads
      /\ blocks' = blocks /\ tail' = tail
  BY DEF vars
<1>2. /\ Rows' = Rows /\ Cached' = Cached /\ T' = T
      /\ \A row \in Rows : Prompt(row)' = Prompt(row) /\ Hyp(row)' = Hyp(row)
  BY <1>1 DEF Rows, Cached, Size, Prompt, Hyp, GroupOf, T
<1>3. Types' /\ Even'
  BY <1>1, <1>2 DEF BeamInv, Types, Even
<1>4. Stored'
  BY <1>1, <1>2 DEF BeamInv, Stored
<1>5. Fed' /\ Masked'
  BY <1>1, <1>2 DEF BeamInv, Fed, Masked
<1> QED
  BY <1>3, <1>4, <1>5 DEF BeamInv

LEMMA BeamAlways == Spec => []BeamInv
<1>1. BeamInv /\ [Next]_vars => BeamInv'
  BY ForwardInv, SelectInv, FinishInv, StutterInv DEF Next
<1> QED
  BY <1>1, InitInv, PTL DEF Spec

-----------------------------------------------------------------------------
(* What the invariant says of the histories *)

LEMMA HistoryIs ==
  ASSUME BeamInv, pc # "select", NEW row \in Rows
  PROVE  History(row) = Front(Hyp(row))
<1>1. Types /\ Even /\ Stored /\ run \in Runs
  BY DEF BeamInv, Types
<1>2. PICK h \in Seq(Nat), n \in Nat \ {0} : h = Hyp(row) /\ n = Size /\ Len(h) = n
  BY <1>1, HypIs
<1>3. PICK k \in Nat, u \in Seq(Nat), x \in Nat :
        k = Len(blocks) /\ u = tail[row] /\ x = Start(k)
  BY <1>1, Starts DEF Types
<1>4. x + Len(u) = n - 1 /\ Piece(u, h, x)
  BY <1>1, <1>2, <1>3 DEF Stored, Cached
<1>5. PICK f : f = [i \in 1 .. x |->
        blocks[1 + ((i - 1) \div T)][row][1 + ((i - 1) % T)]]
  OBVIOUS
<1>6. ASSUME NEW i \in 1 .. x PROVE f[i] = h[i]
  <2>1. PICK a \in Nat : a = i - 1 /\ a < x /\ T \in Nat \ {0}
    BY Starts
  <2>2. PICK q \in Nat, r \in 0 .. T - 1 :
          q = a \div T /\ r = a % T /\ a = Start(q) + r
    BY <2>1, DivMod DEF Start
  <2>3. q + 1 \in 1 .. k
    <3>1. CASE k <= q
      <4>1. x <= Start(q) /\ Start(q) \in Nat
        BY <1>3, <3>1, Starts
      <4>2. r \in Nat
        BY <2>1
      <4> QED
        BY <2>1, <2>2, <4>1, <4>2
    <3>2. CASE q < k
      BY <3>2
    <3> QED
      BY <3>1, <3>2
  <2>4. PICK b \in 1 .. k : b = 1 + q /\ b - 1 = q
    BY <2>3
  <2>5. Len(blocks[b][row]) = T /\ Piece(blocks[b][row], h, Start(q))
    BY <1>1, <1>2, <1>3, <2>4 DEF Stored
  <2>6. 1 + r \in 1 .. T
    BY <2>1
  <2>7. blocks[b][row][1 + r] = h[Start(q) + (1 + r)]
    BY <2>5, <2>6 DEF Piece
  <2>8. Start(q) + (1 + r) = i
    <3>1. PICK y \in Nat : y = Start(q)
      BY Starts
    <3>2. a = y + r /\ a = i - 1 /\ r \in Nat
      BY <2>1, <2>2, <3>1
    <3>3. y + (1 + r) = i
      BY ONLY <3>2, y \in Nat, a \in Nat, i \in 1 .. x
    <3> QED
      BY <3>1, <3>3
  <2>9. f[i] = blocks[1 + q][row][1 + r]
    BY <1>5, <2>1, <2>2
  <2> QED
    BY <2>4, <2>7, <2>8, <2>9
<1>7. f \in Seq(Nat) /\ Len(f) = x
  <2>1. ASSUME NEW i \in 1 .. x PROVE f[i] \in Nat
    <3>1. i \in 1 .. Len(h)
      BY <1>2, <1>4, Len(u) \in Nat
    <3> QED
      BY <1>6, <3>1
  <2>2. f \in [1 .. x -> Nat]
    BY <1>5, <2>1
  <2> QED
    BY <2>2
<1>8. History(row) = f \o u
  BY <1>3, <1>5 DEF History, Start, T
<1>9. /\ f \o u \in Seq(Nat) /\ Len(f \o u) = n - 1
      /\ \A i \in 1 .. n - 1 :
           (f \o u)[i] = IF i <= x THEN f[i] ELSE u[i - x]
  <2>1. /\ f \o u \in Seq(Nat) /\ Len(f \o u) = Len(f) + Len(u)
        /\ \A i \in 1 .. Len(f) + Len(u) :
             (f \o u)[i] = IF i <= Len(f) THEN f[i] ELSE u[i - Len(f)]
    BY <1>7, ConcatProperties
  <2>2. Len(f) = x /\ Len(f) + Len(u) = n - 1
    BY <1>4, <1>7
  <2> QED
    BY ONLY <2>1, <2>2
<1>10. ASSUME NEW i \in 1 .. n - 1 PROVE (f \o u)[i] = h[i]
  <2>1. CASE i <= x
    BY <1>6, <1>9, <2>1
  <2>2. CASE ~(i <= x)
    <3>1. i - x \in 1 .. Len(u) /\ x + (i - x) = i
      BY <1>4, <2>2, Len(u) \in Nat
    <3>2. u[i - x] = h[x + (i - x)]
      BY <1>4, <3>1 DEF Piece
    <3> QED
      BY <1>9, <2>2, <3>1, <3>2
  <2> QED
    BY <2>1, <2>2
<1>11. /\ SubSeq(h, 0 + 1, n - 1) \in Seq(Nat)
       /\ Len(SubSeq(h, 0 + 1, n - 1)) = (n - 1) - 0
       /\ Piece(SubSeq(h, 0 + 1, n - 1), h, 0)
  BY <1>2, PartOf, 0 \in Nat, n - 1 \in Nat
<1>12. PICK g \in Seq(Nat) : g = Front(h) /\ Len(g) = n - 1
                             /\ \A i \in 1 .. n - 1 : g[i] = h[i]
  <2>1. Front(h) = SubSeq(h, 1, n - 1)
    BY <1>2 DEF Front
  <2> QED
    BY <1>11, <2>1 DEF Piece
<1>13. f \o u = g
  BY <1>9, <1>10, <1>12, SeqEqual
<1> QED
  BY <1>2, <1>8, <1>12, <1>13

\* Between two steps of the search each row's KV history, read block by block
\* and then in the tail, its next input and its mask are those of its own
\* prompt and hypothesis, for any prompts, number of beams, block size, choice
\* of candidates and placement of the blocks on the two tiers.
THEOREM RowsKeepTheirBeams == Spec => []RowsFollowBeams
<1>1. BeamInv => RowsFollowBeams
  <2> SUFFICES ASSUME BeamInv, pc \in {"forward", "rank", "done"}
               PROVE  \A row \in Rows :
                        /\ History(row) = Front(Hyp(row))
                        /\ input[row] = Last(Hyp(row))
                        /\ \A i \in DOMAIN Prompt(row) :
                             Prompt(row)[i] = Pad <=> i <= pads[row]
    BY DEF RowsFollowBeams, BetweenSteps, Hyp
  <2> QED
    BY HistoryIs DEF BeamInv, Fed, Masked
<1> QED
  BY <1>1, BeamAlways, PTL

-----------------------------------------------------------------------------
(* Sums *)

\* A set of natural numbers has a least element.
LEMMA NatMin ==
  ASSUME NEW S \in SUBSET Nat, S # {}
  PROVE  \E x \in S : \A y \in S : x <= y
<1> DEFINE R == OpToRel(<, Nat)
<1>1. IsWellFoundedOn(R, Nat)
  BY NatLessThanWellFounded, Zenon
<1>2. ASSUME NEW x \in Nat, NEW y \in Nat, <<y, x>> \notin R
      PROVE  x <= y
  <2>1. <<y, x>> \in Nat \X Nat /\ ~(y < x)
    BY <1>2, Zenon DEF OpToRel
  <2> QED
    BY <2>1
<1> HIDE DEF R
<1>3. PICK x \in S : \A y \in S : <<y, x>> \notin R
  BY <1>1, WFMin
<1> QED
  BY <1>2, <1>3

\* s holds the partial sums of f.
SumsOf(s, f, n) ==
  s = [i \in 0 .. n |-> IF i = 0 THEN 0 ELSE s[i - 1] + f[i]]

LEMMA SumsExist ==
  ASSUME NEW f, NEW n \in Nat
  PROVE  \E s : SumsOf(s, f, n)
<1> DEFINE Bad == {k \in Nat : ~\E s : SumsOf(s, f, k)}
<1> SUFFICES ASSUME n \in Bad PROVE FALSE
  OBVIOUS
<1>1. PICK k \in Bad : \A j \in Bad : k <= j
  <2>1. Bad \in SUBSET Nat /\ Bad # {}
    OBVIOUS
  <2> HIDE DEF Bad
  <2> QED
    BY <2>1, NatMin
<1>2. CASE k = 0
  <2>1. SumsOf([i \in 0 .. 0 |-> 0], f, 0)
    BY DEF SumsOf
  <2> QED
    BY <1>2, <2>1
<1>3. CASE k # 0
  <2>1. PICK j \in Nat : j = k - 1 /\ k = j + 1
    BY <1>3
  <2>2. j \notin Bad
    BY <1>1, <2>1
  <2>3. PICK s : SumsOf(s, f, j)
    BY <2>2
  <2>4. PICK u : u = [i \in 0 .. k |-> IF i = k THEN s[j] + f[k] ELSE s[i]]
    OBVIOUS
  <2>5. ASSUME NEW i \in 0 .. k
        PROVE  u[i] = IF i = 0 THEN 0 ELSE u[i - 1] + f[i]
    <3>1. CASE i = k
      <4>1. u[i] = s[j] + f[k] /\ u[j] = s[j] /\ i # 0 /\ i - 1 = j
        BY <2>1, <2>4, <3>1
      <4> QED
        BY <3>1, <4>1
    <3>2. CASE i # k
      <4>1. i \in 0 .. j /\ u[i] = s[i]
        BY <2>1, <2>4, <3>2
      <4>2. s[i] = IF i = 0 THEN 0 ELSE s[i - 1] + f[i]
        BY <2>3, <4>1 DEF SumsOf
      <4>3. i # 0 => i - 1 \in 0 .. k /\ i - 1 # k
        BY <3>2
      <4> QED
        BY <2>4, <4>1, <4>2, <4>3
    <3> QED
      BY <3>1, <3>2
  <2>6. SumsOf(u, f, k)
    BY <2>4, <2>5 DEF SumsOf
  <2> QED
    BY <2>6
<1> QED
  BY <1>2, <1>3

\* Functions that agree on 1 .. n have the same partial sums up to n.
LEMMA SumsAgree ==
  ASSUME NEW f, NEW g, NEW n \in Nat, NEW m \in Nat, n <= m,
         \A i \in 1 .. n : f[i] = g[i],
         NEW s, SumsOf(s, f, n), NEW u, SumsOf(u, g, m)
  PROVE  \A i \in 0 .. n : s[i] = u[i]
<1> DEFINE Bad == {k \in 0 .. n : s[k] # u[k]}
<1> SUFFICES ASSUME Bad # {} PROVE FALSE
  OBVIOUS
<1>1. PICK k \in Bad : \A j \in Bad : k <= j
  <2>1. Bad \in SUBSET Nat /\ Bad # {}
    OBVIOUS
  <2> HIDE DEF Bad
  <2> QED
    BY <2>1, NatMin
<1>2. /\ s[k] = IF k = 0 THEN 0 ELSE s[k - 1] + f[k]
      /\ u[k] = IF k = 0 THEN 0 ELSE u[k - 1] + g[k]
  <2>1. k \in 0 .. n /\ k \in 0 .. m
    OBVIOUS
  <2> QED
    BY <2>1 DEF SumsOf
<1>3. k # 0
  BY <1>2
<1>4. k - 1 \in 0 .. n /\ k - 1 \notin Bad /\ k \in 1 .. n
  BY <1>1, <1>3
<1> QED
  BY <1>2, <1>3, <1>4

LEMMA TotalIs ==
  ASSUME NEW f, NEW n \in Nat, NEW s, SumsOf(s, f, n)
  PROVE  Total(f, n) = s[n]
<1> DEFINE u == CHOOSE v : SumsOf(v, f, n)
<1>1. SumsOf(u, f, n)
  OBVIOUS
<1>2. Total(f, n) = u[n]
  BY Zenon DEF Total, SumsOf
<1> HIDE DEF u
<1>3. \A i \in 0 .. n : u[i] = s[i]
  <2>1. SumsOf(s, f, n) /\ n <= n /\ \A i \in 1 .. n : f[i] = f[i]
    OBVIOUS
  <2> QED
    BY ONLY n \in Nat, <1>1, <2>1, SumsAgree, SMTT(30)
<1>4. n \in 0 .. n
  OBVIOUS
<1> QED
  BY <1>2, <1>3, <1>4

LEMMA TotalStep ==
  ASSUME NEW f, NEW g, NEW n \in Nat, \A i \in 1 .. n : f[i] = g[i]
  PROVE  Total(g, 0) = 0 /\ Total(g, n + 1) = Total(f, n) + g[n + 1]
<1>1. PICK s : SumsOf(s, f, n)
  BY SumsExist
<1>2. PICK u : SumsOf(u, g, n + 1)
  BY SumsExist
<1>3. s[n] = u[n]
  <2>1. n + 1 \in Nat /\ n <= n + 1 /\ n \in 0 .. n
    OBVIOUS
  <2>2. \A i \in 0 .. n : s[i] = u[i]
    BY <1>1, <1>2, <2>1, SumsAgree
  <2> QED
    BY <2>1, <2>2
<1>4. u[n + 1] = u[n] + g[n + 1]
  <2>1. n + 1 \in 0 .. n + 1 /\ n + 1 # 0 /\ (n + 1) - 1 = n
    OBVIOUS
  <2> QED
    BY <1>2, <2>1 DEF SumsOf
<1>5. Total(f, n) = s[n] /\ Total(g, n + 1) = u[n + 1]
  BY <1>1, <1>2, TotalIs
<1>6. Total(g, 0) = 0
  <2>1. PICK v : SumsOf(v, g, 0)
    BY SumsExist
  <2>2. v[0] = 0
    BY <2>1 DEF SumsOf
  <2> QED
    BY <2>1, <2>2, TotalIs
<1> QED
  BY <1>3, <1>4, <1>5, <1>6

-----------------------------------------------------------------------------
(* Scores *)

Padded == \A row \in Rows : pads[row] \in Nat

\* A row is finished when its hypothesis holds the end marker.
Ended ==
  /\ finished \in [Rows -> BOOLEAN]
  /\ \A row \in Rows : finished[row] <=> run.eos \in Range(tokens[row])

\* The log-probabilities are those of the hypotheses that were fed.
Offered ==
  pc = "select" => \A row \in Rows, token \in Vocab :
    logProbs[row][token] = Charge(GroupOf(row), tokens[row], token)

Summed ==
  \A row \in Rows :
    scores[row] # NegInf => scores[row] = TrueScore(GroupOf(row), tokens[row])

ScoreInv == Padded /\ Ended /\ Offered /\ Summed

LEMMA TrueScoreEmpty ==
  ASSUME NEW g PROVE TrueScore(g, <<>>) = 0
<1>1. Len(<<>>) = 0
  OBVIOUS
<1>2. PICK k : k = [i \in DOMAIN <<>> |->
                      Charge(g, SubSeq(<<>>, 1, i - 1), <<>>[i])]
  OBVIOUS
<1>3. TrueScore(g, <<>>) = Total(k, 0)
  BY <1>1, <1>2 DEF TrueScore
<1>4. \A i \in 1 .. 0 : k[i] = k[i]
  OBVIOUS
<1> QED
  BY <1>3, <1>4, TotalStep, 0 \in Nat

LEMMA TrueScoreStep ==
  ASSUME NEW g, NEW seq \in Seq(Vocab), NEW token \in Vocab
  PROVE  TrueScore(g, Append(seq, token)) =
           TrueScore(g, seq) + Charge(g, seq, token)
<1> DEFINE n == Len(seq)
           next == Append(seq, token)
           f == [i \in DOMAIN seq |-> Charge(g, SubSeq(seq, 1, i - 1), seq[i])]
           h == [i \in DOMAIN next |-> Charge(g, SubSeq(next, 1, i - 1), next[i])]
<1>1. /\ n \in Nat /\ DOMAIN seq = 1 .. n
      /\ next \in Seq(Vocab) /\ Len(next) = n + 1 /\ DOMAIN next = 1 .. n + 1
      /\ next[n + 1] = token /\ \A i \in 1 .. n : next[i] = seq[i]
  BY AppendProperties
<1>2. ASSUME NEW i \in 1 .. n + 1
      PROVE  SubSeq(next, 1, i - 1) = SubSeq(seq, 1, i - 1)
  <2>1. i - 1 \in 0 .. n
    BY <1>1
  <2>2. \A j \in 1 .. i - 1 : j \in 1 .. n
    BY <1>1
  <2>3. \A j \in 1 .. i - 1 : next[j] = seq[j]
    BY <1>1, <2>2
  <2> HIDE DEF next
  <2> QED
    BY <1>1, <2>1, <2>3 DEF SubSeq
<1>3. \A i \in 1 .. n : f[i] = h[i]
  <2>1. ASSUME NEW i \in 1 .. n PROVE f[i] = h[i]
    <3>1. /\ i \in DOMAIN seq /\ i \in DOMAIN next /\ i \in 1 .. n + 1
          /\ next[i] = seq[i]
      BY <1>1
    <3>2. SubSeq(next, 1, i - 1) = SubSeq(seq, 1, i - 1)
      BY <1>2, <3>1
    <3> QED
      BY <3>1, <3>2
  <2> QED
    BY <2>1
<1>4. h[n + 1] = Charge(g, seq, token)
  <2>1. n + 1 \in DOMAIN next /\ (n + 1) - 1 = n /\ n + 1 \in 1 .. n + 1
    BY <1>1
  <2>2. SubSeq(next, 1, (n + 1) - 1) = SubSeq(seq, 1, (n + 1) - 1)
    BY <1>2, <2>1
  <2>3. SubSeq(seq, 1, n) = seq
    BY <1>1 DEF SubSeq
  <2> QED
    BY <1>1, <2>1, <2>2, <2>3
<1>5. TrueScore(g, seq) = Total(f, n) /\ TrueScore(g, next) = Total(h, n + 1)
  BY <1>1 DEF TrueScore
<1> HIDE DEF f, h
<1>6. Total(h, n + 1) = Total(f, n) + h[n + 1]
  BY <1>1, <1>3, TotalStep
<1> QED
  BY <1>4, <1>5, <1>6

\* A row attends to its prompt without the padding and to its hypothesis.
LEMMA ContextIs ==
  ASSUME BeamInv, Padded, pc # "select", NEW row \in Rows
  PROVE  Context(row) = Unpadded(Prompt(row)) \o tokens[row]
<1>1. Types /\ Even /\ Fed /\ Masked /\ run \in Runs
  BY DEF BeamInv, Types
<1>2. PICK p \in Seq(Nat), l \in Nat, k \in Nat :
        /\ p = Prompt(row) /\ p = run.prompts[GroupOf(row)]
        /\ l = Len(p) /\ DOMAIN p = 1 .. l /\ k \in 0 .. l - 1
        /\ \A i \in DOMAIN p : p[i] = Pad <=> i <= k
  <2>1. PICK p \in Seq(Nat) : p = Prompt(row) /\ LeftPadded(p)
    BY <1>1, RowFacts
  <2>2. PICK k \in 0 .. Len(p) - 1 : \A i \in DOMAIN p : p[i] = Pad <=> i <= k
    BY <2>1 DEF LeftPadded
  <2>3. p = run.prompts[GroupOf(row)] /\ k \in Nat /\ DOMAIN p = 1 .. Len(p)
    BY <2>1 DEF Prompt
  <2>4. PICK l \in Nat : l = Len(p) /\ k \in 0 .. l - 1
    BY <2>2
  <2> QED
    BY <2>1, <2>2, <2>3, <2>4
<1>0. l \in Nat /\ k \in Nat /\ k <= l - 1 /\ l >= 1
  BY <1>2
<1>3. ASSUME NEW j \in Nat, \A i \in DOMAIN p : p[i] = Pad <=> i <= j,
             j <= l - 1
      PROVE  j = k
  <2>1. CASE j < k
    <3>1. k \in DOMAIN p /\ k <= k /\ ~(k <= j)
      BY <1>2, <2>1
    <3> QED
      BY <1>2, <1>3, <3>1
  <2>2. CASE k < j
    <3>1. j \in DOMAIN p /\ j <= j /\ ~(j <= k)
      BY <1>2, <1>3, <2>2
    <3> QED
      BY <1>2, <1>3, <3>1
  <2> QED
    BY <2>1, <2>2
<1>4. pads[row] = k
  <2>1. PICK j \in Nat : j = pads[row]
    BY DEF Padded
  <2>2. \A i \in DOMAIN p : p[i] = Pad <=> i <= j
    BY <1>1, <1>2, <2>1 DEF Masked
  <2>3. CASE j <= l - 1
    BY <1>3, <2>1, <2>2, <2>3
  <2>4. CASE ~(j <= l - 1)
    <3>1. l \in DOMAIN p /\ l <= j /\ ~(l <= k)
      BY <1>2, <2>4
    <3> QED
      BY <1>2, <2>2, <3>1
  <2> QED
    BY <2>3, <2>4
<1>5. Unpadded(p) = SubSeq(p, k + 1, l)
  <2> DEFINE F(x) == \A i \in DOMAIN p : p[i] = Pad <=> i <= x
             c == CHOOSE x \in 0 .. l - 1 : F(x)
  <2>1. F(k) /\ k \in 0 .. l - 1
    BY <1>2
  <2>2. F(c) /\ c \in 0 .. l - 1
    <3> HIDE DEF F
    <3> QED
      BY <2>1
  <2>3. c = k
    <3> HIDE DEF c
    <3>1. c \in Nat /\ c <= l - 1
      BY <2>2
    <3> QED
      BY <1>3, <2>2, <3>1
  <2>4. Unpadded(p) = SubSeq(p, c + 1, l)
    BY <1>2 DEF Unpadded
  <2> QED
    BY <2>3, <2>4
<1>6. PICK t \in Seq(Nat), n \in Nat, h \in Seq(Nat) :
        /\ t = tokens[row] /\ n = Len(t) /\ h = Hyp(row) /\ h = p \o t
        /\ Len(h) = l + n
        /\ \A i \in 1 .. l + n : h[i] = IF i <= l THEN p[i] ELSE t[i - l]
  <2>1. tokens[row] \in Seq(Nat)
    <3>1. tokens[row] \in Seq(Vocab) /\ Vocab \subseteq Nat
      BY <1>1, Arguments DEF Types
    <3> QED
      BY <3>1, SeqMonotonic
  <2>2. PICK t \in Seq(Nat) : t = tokens[row]
    BY <2>1
  <2>3. Hyp(row) = p \o t
    BY <1>2, <2>2 DEF Hyp
  <2>4. /\ p \o t \in Seq(Nat) /\ Len(p \o t) = Len(p) + Len(t)
        /\ \A i \in 1 .. Len(p) + Len(t) :
             (p \o t)[i] = IF i <= Len(p) THEN p[i] ELSE t[i - Len(p)]
    BY ConcatProperties
  <2>5. PICK n \in Nat : n = Len(t)
    OBVIOUS
  <2>6. PICK h \in Seq(Nat) : h = Hyp(row) /\ h = p \o t
    BY <2>3, <2>4
  <2>7. Len(h) = l + n /\ \A i \in 1 .. l + n : h[i] = IF i <= l THEN p[i] ELSE t[i - l]
    <3>1. Len(p) = l
      BY <1>2
    <3> QED
      BY ONLY <2>4, <2>5, <2>6, <3>1
  <2> QED
    BY <2>2, <2>5, <2>6, <2>7
<1>7. History(row) = Front(h) /\ input[row] = h[l + n]
  BY <1>1, <1>6, HistoryIs DEF Fed, Last
<1>8. /\ l + n - 1 \in Nat /\ l >= 1
      /\ Front(h) \in Seq(Nat) /\ Len(Front(h)) = l + n - 1
      /\ \A i \in 1 .. l + n - 1 : Front(h)[i] = h[i]
  <2>1. l + n - 1 \in Nat /\ l + n - 1 <= Len(h) /\ l >= 1
    BY ONLY <1>0, <1>6
  <2>2. Front(h) = SubSeq(h, 0 + 1, l + n - 1)
    BY <1>6 DEF Front
  <2>3. /\ SubSeq(h, 0 + 1, l + n - 1) \in Seq(Nat)
        /\ Len(SubSeq(h, 0 + 1, l + n - 1)) = l + n - 1 - 0
        /\ Piece(SubSeq(h, 0 + 1, l + n - 1), h, 0)
    BY <2>1, PartOf, 0 \in Nat
  <2> QED
    BY <2>1, <2>2, <2>3 DEF Piece
<1>9. PICK a \in Seq(Nat) :
        /\ a = SubSeq(Front(h), k + 1, l + n - 1) /\ Len(a) = l + n - 1 - k
        /\ \A i \in 1 .. l + n - 1 - k : a[i] = h[k + i]
  <2>1. k \in Nat /\ k <= l + n - 1 /\ n \in Nat
    BY ONLY <1>0, n \in Nat
  <2>2. /\ SubSeq(Front(h), k + 1, l + n - 1) \in Seq(Nat)
        /\ Len(SubSeq(Front(h), k + 1, l + n - 1)) = l + n - 1 - k
        /\ Piece(SubSeq(Front(h), k + 1, l + n - 1), Front(h), k)
    <3>1. PICK f \in Seq(Nat), m \in Nat : f = Front(h) /\ m = l + n - 1 /\ Len(f) = m
      BY <1>8
    <3>2. /\ SubSeq(f, k + 1, m) \in Seq(Nat)
          /\ Len(SubSeq(f, k + 1, m)) = m - k
          /\ Piece(SubSeq(f, k + 1, m), f, k)
      BY <2>1, <3>1, PartOf
    <3> QED
      BY <3>1, <3>2
  <2>3. \A i \in 1 .. l + n - 1 - k : k + i \in 1 .. l + n - 1
    BY ONLY <1>0, n \in Nat
  <2> QED
    BY <1>8, <2>2, <2>3 DEF Piece
<1>10. Context(row) = a \o <<h[l + n]>>
  BY <1>4, <1>7, <1>8, <1>9 DEF Context
<1>11. PICK b \in Seq(Nat) :
         /\ b = SubSeq(p, k + 1, l) /\ Len(b) = l - k
         /\ \A i \in 1 .. l - k : b[i] = p[k + i]
  <2>1. k \in Nat /\ k <= l /\ l <= Len(p)
    BY <1>2
  <2>2. /\ SubSeq(p, k + 1, l) \in Seq(Nat)
        /\ Len(SubSeq(p, k + 1, l)) = l - k
        /\ Piece(SubSeq(p, k + 1, l), p, k)
    BY <2>1, PartOf
  <2> QED
    BY <2>2 DEF Piece
<1>12. a \o <<h[l + n]>> = b \o t
  <2>1. h[l + n] \in Nat
    <3>1. l + n \in 1 .. Len(h)
      BY ONLY <1>0, <1>6
    <3> QED
      BY <3>1
  <2>2. /\ a \o <<h[l + n]>> \in Seq(Nat)
        /\ Len(a \o <<h[l + n]>>) = (l + n - 1 - k) + 1
        /\ \A i \in 1 .. (l + n - 1 - k) + 1 :
             (a \o <<h[l + n]>>)[i] =
               IF i <= l + n - 1 - k THEN h[k + i] ELSE h[l + n]
    BY <1>8, <1>9, <2>1, ConcatProperties
  <2>3. /\ b \o t \in Seq(Nat) /\ Len(b \o t) = (l - k) + n
        /\ \A i \in 1 .. (l - k) + n :
             (b \o t)[i] = IF i <= l - k THEN p[k + i] ELSE t[i - (l - k)]
    <3>1. /\ b \o t \in Seq(Nat) /\ Len(b \o t) = Len(b) + Len(t)
          /\ \A i \in 1 .. Len(b) + Len(t) :
               (b \o t)[i] = IF i <= Len(b) THEN b[i] ELSE t[i - Len(b)]
      BY ConcatProperties
    <3>2. Len(b) = l - k /\ Len(t) = n
      BY <1>6, <1>11
    <3>3. \A i \in 1 .. (l - k) + n : i <= l - k => i \in 1 .. l - k
      OBVIOUS
    <3> QED
      BY ONLY <1>11, <3>1, <3>2, <3>3
  <2>4. (l + n - 1 - k) + 1 = (l - k) + n
    BY <1>2
  <2>5. ASSUME NEW i \in 1 .. (l - k) + n
        PROVE  (a \o <<h[l + n]>>)[i] = (b \o t)[i]
    <3>1. k + i \in 1 .. l + n
      BY <1>2
    <3>2. (a \o <<h[l + n]>>)[i] = h[k + i]
      <4>1. i <= l + n - 1 - k \/ k + i = l + n
        BY ONLY <1>0, n \in Nat, i \in 1 .. (l - k) + n
      <4> QED
        BY <2>2, <2>4, <4>1
    <3>3. h[k + i] = IF k + i <= l THEN p[k + i] ELSE t[(k + i) - l]
      BY <1>6, <3>1
    <3>4. (k + i <= l <=> i <= l - k) /\ (k + i) - l = i - (l - k)
      BY <1>2
    <3> QED
      BY <2>3, <3>2, <3>3, <3>4
  <2> QED
    BY <2>2, <2>3, <2>4, <2>5, SeqEqual
<1> QED
  BY <1>2, <1>5, <1>6, <1>10, <1>11, <1>12

LEMMA SameCharges ==
  ASSUME run' = run
  PROVE  /\ \A g, seq, token : Charge(g, seq, token)' = Charge(g, seq, token)
         /\ \A g, seq : TrueScore(g, seq)' = TrueScore(g, seq)
<1>1. ASSUME NEW g, NEW seq, NEW token
      PROVE  Charge(g, seq, token)' = Charge(g, seq, token)
  <2>1. ASSUME NEW context
        PROVE  LogProb(context, token)' = LogProb(context, token)
    BY DEF LogProb
  <2> QED
    BY <2>1 DEF Charge
<1>2. ASSUME NEW g, NEW seq
      PROVE  TrueScore(g, seq)' = TrueScore(g, seq)
  BY <1>1 DEF TrueScore
<1> QED
  BY <1>1, <1>2

LEMMA ScoresStart == Init => ScoreInv
<1> SUFFICES ASSUME Init PROVE ScoreInv
  OBVIOUS
<1>1. /\ run \in Runs /\ pc = "forward"
      /\ tokens = [row \in Rows |-> <<>>]
      /\ finished = [row \in Rows |-> FALSE]
      /\ pads = [row \in Rows |->
                   Cardinality({i \in DOMAIN Prompt(row) : Prompt(row)[i] = Pad})]
      /\ scores = InitScores
  BY DEF Init
<1>2. Padded
  <2> SUFFICES ASSUME NEW row \in Rows PROVE pads[row] \in Nat
    BY DEF Padded
  <2>1. PICK p \in Seq(Nat), n \in Nat : p = Prompt(row) /\ DOMAIN p = 1 .. n
    BY <1>1, RowFacts
  <2>2. IsFiniteSet(1 .. n)
    BY FS_Interval
  <2>3. {i \in DOMAIN p : p[i] = Pad} \subseteq 1 .. n
    BY <2>1
  <2>4. IsFiniteSet({i \in DOMAIN p : p[i] = Pad})
    BY <2>2, <2>3, FS_Subset
  <2> QED
    BY <1>1, <2>1, <2>4, FS_CardinalityType
<1>3. Ended
  BY <1>1 DEF Ended, Range
<1>4. Summed
  <2> SUFFICES ASSUME NEW row \in Rows, scores[row] # NegInf
               PROVE  scores[row] = TrueScore(GroupOf(row), tokens[row])
    BY DEF Summed
  <2>1. scores[row] = 0
    BY <1>1 DEF InitScores
  <2>2. TrueScore(GroupOf(row), <<>>) = 0
    BY TrueScoreEmpty
  <2> QED
    BY <1>1, <2>1, <2>2
<1> QED
  BY <1>1, <1>2, <1>3, <1>4 DEF ScoreInv, Offered

LEMMA ForwardScores == BeamInv /\ ScoreInv /\ Forward => ScoreInv'
<1> SUFFICES ASSUME BeamInv, ScoreInv, Forward PROVE ScoreInv'
  OBVIOUS
<1>1. /\ pc = "forward" /\ run' = run /\ tokens' = tokens /\ pads' = pads
      /\ finished' = finished /\ scores' = scores
      /\ logProbs' = [row \in Rows |-> [token \in Vocab |-> Frozen(row, token)]]
  BY DEF Forward
<1>2. Rows' = Rows /\ \A row : GroupOf(row)' = GroupOf(row)
  BY <1>1 DEF Rows, GroupOf
<1>3. \A g, seq, token : Charge(g, seq, token)' = Charge(g, seq, token)
  BY <1>1, SameCharges
<1>4. \A g, seq : TrueScore(g, seq)' = TrueScore(g, seq)
  BY <1>1, SameCharges
<1>5. Padded' /\ Ended' /\ Summed'
  BY <1>1, <1>2, <1>4 DEF ScoreInv, Padded, Ended, Summed
<1>6. Offered'
  <2> SUFFICES ASSUME NEW row \in Rows, NEW token \in Vocab
               PROVE  logProbs'[row][token] =
                        Charge(GroupOf(row), tokens[row], token)
    BY <1>1, <1>2, <1>3 DEF Offered
  <2>1. logProbs'[row][token] = Frozen(row, token)
    <3>1. logProbs'[row] = [e \in Vocab |-> Frozen(row, e)]
      BY <1>1
    <3> QED
      BY <3>1
  <2>2. Context(row) = Unpadded(run.prompts[GroupOf(row)]) \o tokens[row]
    BY <1>1, ContextIs DEF ScoreInv, Prompt
  <2>3. finished[row] <=> run.eos \in Range(tokens[row])
    BY DEF ScoreInv, Ended
  <2> QED
    BY <2>1, <2>2, <2>3 DEF Frozen, Charge
<1> QED
  BY <1>5, <1>6 DEF ScoreInv

LEMMA SelectScores == BeamInv /\ ScoreInv /\ Select => ScoreInv'
<1> SUFFICES ASSUME BeamInv, ScoreInv, Select PROVE ScoreInv'
  OBVIOUS
<1>1. pc = "select" /\ run' = run /\ pc' # "select" /\ run \in Runs /\ Types
  BY DEF Select, BeamInv, Types
<1>0. PICK parents \in [Rows -> Rows], next \in [Rows -> Vocab] :
        Moves(parents, next)
  BY <1>1, SelectIs
<1>2. /\ \A row \in Rows :
           /\ Prompt(parents[row]) = Prompt(row)
           /\ GroupOf(parents[row]) = GroupOf(row)
           /\ scores'[row] = Plus(scores[parents[row]],
                                  logProbs[parents[row]][next[row]])
      /\ finished' = [row \in Rows |->
                        finished[parents[row]] \/ next[row] = run.eos]
      /\ tokens' = [row \in Rows |->
                      Append(tokens[parents[row]], next[row])]
      /\ pads' = [row \in Rows |-> pads[parents[row]]]
  BY <1>0 DEF Moves
<1>3. Rows' = Rows /\ \A row : GroupOf(row)' = GroupOf(row)
  BY <1>1 DEF Rows, GroupOf
<1>4. \A g, seq : TrueScore(g, seq)' = TrueScore(g, seq)
  BY <1>1, SameCharges
<1>5. Padded'
  BY <1>2, <1>3 DEF ScoreInv, Padded
<1>6. Ended'
  <2>1. ASSUME NEW row \in Rows
        PROVE  finished'[row] <=> run.eos \in Range(tokens'[row])
    <3>1. PICK t \in Seq(Vocab), e \in Vocab :
            t = tokens[parents[row]] /\ e = next[row]
      BY <1>1, <1>2 DEF Types
    <3>2. tokens'[row] = Append(t, e)
      BY <1>2, <3>1
    <3>3. Range(Append(t, e)) = Range(t) \cup {e}
      <4>1. PICK n \in Nat : n = Len(t) /\ DOMAIN t = 1 .. n
        OBVIOUS
      <4>2. /\ DOMAIN Append(t, e) = 1 .. n + 1
            /\ \A i \in 1 .. n : Append(t, e)[i] = t[i]
            /\ Append(t, e)[n + 1] = e
        BY <4>1, AppendProperties
      <4>3. 1 .. n + 1 = (1 .. n) \cup {n + 1}
        BY <4>1
      <4>4. PICK u : u = Append(t, e)
        OBVIOUS
      <4>5. Range(u) = {u[i] : i \in (1 .. n) \cup {n + 1}}
        BY <4>2, <4>3, <4>4 DEF Range
      <4>6. Range(t) = {t[i] : i \in 1 .. n}
        BY <4>1 DEF Range
      <4> QED
        BY <4>2, <4>4, <4>5, <4>6
    <3>4. finished[parents[row]] <=> run.eos \in Range(t)
      BY <1>2, <3>1 DEF ScoreInv, Ended
    <3> QED
      BY <1>2, <3>1, <3>2, <3>3, <3>4
  <2>2. finished' \in [Rows -> BOOLEAN]
    BY <1>2 DEF ScoreInv, Ended
  <2> QED
    BY <1>1, <1>3, <2>1, <2>2 DEF Ended
<1>7. Summed'
  <2> SUFFICES ASSUME NEW row \in Rows, scores'[row] # NegInf
               PROVE  scores'[row] = TrueScore(GroupOf(row), tokens'[row])
    BY <1>3, <1>4 DEF Summed
  <2>1. PICK parent \in Rows, e \in Vocab, t \in Seq(Vocab) :
          parent = parents[row] /\ e = next[row] /\ t = tokens[parent]
    BY <1>1, <1>2 DEF Types
  <2>2. /\ scores'[row] = Plus(scores[parent], logProbs[parent][e])
        /\ GroupOf(parent) = GroupOf(row) /\ tokens'[row] = Append(t, e)
    BY <1>2, <2>1
  <2>3. /\ scores[parent] # NegInf
        /\ scores'[row] = scores[parent] + logProbs[parent][e]
    BY <2>2 DEF Plus
  <2>4. scores[parent] = TrueScore(GroupOf(row), t)
    BY <2>1, <2>2, <2>3 DEF ScoreInv, Summed
  <2>5. logProbs[parent][e] = Charge(GroupOf(row), t, e)
    BY <1>1, <2>1, <2>2 DEF ScoreInv, Offered
  <2>6. TrueScore(GroupOf(row), Append(t, e)) =
          TrueScore(GroupOf(row), t) + Charge(GroupOf(row), t, e)
    BY TrueScoreStep
  <2> QED
    BY <2>2, <2>3, <2>4, <2>5, <2>6
<1> QED
  BY <1>1, <1>5, <1>6, <1>7 DEF ScoreInv, Offered

LEMMA QuietScores ==
  ScoreInv /\ (Finish \/ UNCHANGED vars) => ScoreInv'
<1> SUFFICES ASSUME ScoreInv, Finish \/ UNCHANGED vars PROVE ScoreInv'
  OBVIOUS
<1>1. /\ run' = run /\ tokens' = tokens /\ pads' = pads /\ finished' = finished
      /\ scores' = scores /\ logProbs' = logProbs
      /\ pc' = pc \/ pc' = "done"
  BY DEF Finish, vars
<1>2. Rows' = Rows /\ \A row : GroupOf(row)' = GroupOf(row)
  BY <1>1 DEF Rows, GroupOf
<1>3. /\ \A g, seq, token : Charge(g, seq, token)' = Charge(g, seq, token)
      /\ \A g, seq : TrueScore(g, seq)' = TrueScore(g, seq)
  BY <1>1, SameCharges
<1> QED
  BY <1>1, <1>2, <1>3 DEF ScoreInv, Padded, Ended, Offered, Summed

LEMMA ScoresAlways == Spec => [](BeamInv /\ ScoreInv)
<1>1. BeamInv /\ ScoreInv /\ [Next]_vars => ScoreInv'
  BY ForwardScores, SelectScores, QuietScores DEF Next
<1> QED
  BY <1>1, ScoresStart, BeamAlways, PTL DEF Spec

\* The scores that beam search keeps incrementally over rows that are copied
\* and overwritten are those of the whole hypotheses computed from scratch on
\* the unpadded prompt, and a finished one keeps its score, for any prompts,
\* number of beams, block size, end marker and costs.
THEOREM ScoresStayTrue == Spec => []ScoresAreSums
<1>1. ScoreInv => ScoresAreSums
  BY DEF ScoreInv, Summed, ScoresAreSums
<1> QED
  BY <1>1, ScoresAlways, PTL

-----------------------------------------------------------------------------
(* Recursion, and powers *)

\* What holds first and is kept by every step holds last.
LEMMA Kept ==
  ASSUME NEW n \in Nat, NEW s, NEW S, s[0] \in S,
         \A i \in 1 .. n : s[i - 1] \in S => s[i] \in S
  PROVE  s[n] \in S
<1> DEFINE Bad == {k \in 0 .. n : s[k] \notin S}
<1> SUFFICES ASSUME Bad # {} PROVE FALSE
  OBVIOUS
<1>1. PICK k \in Bad : \A j \in Bad : k <= j
  <2>1. Bad \in SUBSET Nat /\ Bad # {}
    OBVIOUS
  <2> HIDE DEF Bad
  <2> QED
    BY <2>1, NatMin
<1>2. k # 0
  OBVIOUS
<1>3. k - 1 \in 0 .. n /\ k - 1 \notin Bad /\ k \in 1 .. n
  BY <1>1, <1>2
<1> QED
  BY <1>3

\* p holds the powers of b, s the numbers that Slot makes of a context.
PowersOf(p, b, n) == p = [i \in 0 .. n |-> IF i = 0 THEN 1 ELSE b * p[i - 1]]
SlotsOf(s, context, token, n) ==
  s = [i \in 0 .. n |-> IF i = 0 THEN token ELSE 2 * s[i - 1] + context[i]]

LEMMA PowersExist ==
  ASSUME NEW b, NEW n \in Nat
  PROVE  \E p : PowersOf(p, b, n)
<1> DEFINE Bad == {k \in Nat : ~\E p : PowersOf(p, b, k)}
<1> SUFFICES ASSUME n \in Bad PROVE FALSE
  OBVIOUS
<1>1. PICK k \in Bad : \A j \in Bad : k <= j
  <2>1. Bad \in SUBSET Nat /\ Bad # {}
    OBVIOUS
  <2> HIDE DEF Bad
  <2> QED
    BY <2>1, NatMin
<1>2. CASE k = 0
  <2>1. PowersOf([i \in 0 .. 0 |-> 1], b, 0)
    BY DEF PowersOf
  <2> QED
    BY <1>2, <2>1
<1>3. CASE k # 0
  <2>1. PICK j \in Nat : j = k - 1 /\ k = j + 1
    BY <1>3
  <2>2. j \notin Bad
    BY <1>1, <2>1
  <2>3. PICK p : PowersOf(p, b, j)
    BY <2>2
  <2>4. PICK u : u = [i \in 0 .. k |-> IF i = k THEN b * p[j] ELSE p[i]]
    OBVIOUS
  <2>5. ASSUME NEW i \in 0 .. k
        PROVE  u[i] = IF i = 0 THEN 1 ELSE b * u[i - 1]
    <3>1. CASE i = k
      <4>1. u[i] = b * p[j] /\ u[j] = p[j] /\ i # 0 /\ i - 1 = j
        BY <2>1, <2>4, <3>1
      <4> QED
        BY <3>1, <4>1
    <3>2. CASE i # k
      <4>1. i \in 0 .. j /\ u[i] = p[i]
        BY <2>1, <2>4, <3>2
      <4>2. p[i] = IF i = 0 THEN 1 ELSE b * p[i - 1]
        BY <2>3, <4>1 DEF PowersOf
      <4>3. i # 0 => i - 1 \in 0 .. k /\ i - 1 # k
        BY <3>2
      <4> QED
        BY <2>4, <4>1, <4>2, <4>3
    <3> QED
      BY <3>1, <3>2
  <2>6. PowersOf(u, b, k)
    BY <2>4, <2>5 DEF PowersOf
  <2> QED
    BY <2>6
<1> QED
  BY <1>2, <1>3

LEMMA SlotsExist ==
  ASSUME NEW context, NEW token, NEW n \in Nat
  PROVE  \E s : SlotsOf(s, context, token, n)
<1> DEFINE Bad == {k \in Nat : ~\E s : SlotsOf(s, context, token, k)}
<1> SUFFICES ASSUME n \in Bad PROVE FALSE
  OBVIOUS
<1>1. PICK k \in Bad : \A j \in Bad : k <= j
  <2>1. Bad \in SUBSET Nat /\ Bad # {}
    OBVIOUS
  <2> HIDE DEF Bad
  <2> QED
    BY <2>1, NatMin
<1>2. CASE k = 0
  <2>1. SlotsOf([i \in 0 .. 0 |-> token], context, token, 0)
    BY DEF SlotsOf
  <2> QED
    BY <1>2, <2>1
<1>3. CASE k # 0
  <2>1. PICK j \in Nat : j = k - 1 /\ k = j + 1
    BY <1>3
  <2>2. j \notin Bad
    BY <1>1, <2>1
  <2>3. PICK s : SlotsOf(s, context, token, j)
    BY <2>2
  <2>4. PICK u : u = [i \in 0 .. k |-> IF i = k THEN 2 * s[j] + context[k] ELSE s[i]]
    OBVIOUS
  <2>5. ASSUME NEW i \in 0 .. k
        PROVE  u[i] = IF i = 0 THEN token ELSE 2 * u[i - 1] + context[i]
    <3>1. CASE i = k
      <4>1. u[i] = 2 * s[j] + context[k] /\ u[j] = s[j] /\ i # 0 /\ i - 1 = j
        BY <2>1, <2>4, <3>1
      <4> QED
        BY <3>1, <4>1
    <3>2. CASE i # k
      <4>1. i \in 0 .. j /\ u[i] = s[i]
        BY <2>1, <2>4, <3>2
      <4>2. s[i] = IF i = 0 THEN token ELSE 2 * s[i - 1] + context[i]
        BY <2>3, <4>1 DEF SlotsOf
      <4>3. i # 0 => i - 1 \in 0 .. k /\ i - 1 # k
        BY <3>2
      <4> QED
        BY <2>4, <4>1, <4>2, <4>3
    <3> QED
      BY <3>1, <3>2
  <2>6. SlotsOf(u, context, token, k)
    BY <2>4, <2>5 DEF SlotsOf
  <2> QED
    BY <2>6
<1> QED
  BY <1>2, <1>3

LEMMA PowerPositive ==
  ASSUME NEW b \in Nat \ {0}, NEW n \in Nat
  PROVE  Power(b, n) \in Nat \ {0}
<1> DEFINE p == CHOOSE v : PowersOf(v, b, n)
<1>1. PowersOf(p, b, n)
  BY PowersExist
<1>2. Power(b, n) = p[n]
  BY Zenon DEF Power, PowersOf
<1> HIDE DEF p
<1>3. p[0] \in Nat \ {0}
  BY <1>1 DEF PowersOf
<1>4. ASSUME NEW i \in 1 .. n, p[i - 1] \in Nat \ {0} PROVE p[i] \in Nat \ {0}
  <2>1. p[i] = b * p[i - 1]
    BY <1>1 DEF PowersOf
  <2>2. PICK x \in Nat \ {0} : x = p[i - 1]
    BY <1>4
  <2>3. 1 * x <= b * x /\ b * x \in Nat
    BY Products, b \in Nat, 1 \in Nat, 1 <= b
  <2> QED
    BY <2>1, <2>2, <2>3
<1>5. p[n] \in Nat \ {0}
  <2>1. \A i \in 1 .. n : p[i - 1] \in Nat \ {0} => p[i] \in Nat \ {0}
    BY <1>4
  <2> QED
    BY <1>3, <2>1, Kept
<1> QED
  BY <1>2, <1>5

LEMMA SlotType ==
  ASSUME NEW context \in Seq(Nat), NEW token \in Nat
  PROVE  Slot(context, token) \in Nat
<1> DEFINE n == Len(context)
           s == CHOOSE v : SlotsOf(v, context, token, n)
<1>0. n \in Nat
  OBVIOUS
<1>1. SlotsOf(s, context, token, n)
  <2> HIDE DEF n
  <2> QED
    BY <1>0, SlotsExist
<1>2. Slot(context, token) = s[n]
  BY Zenon DEF Slot, SlotsOf
<1> HIDE DEF s
<1>3. s[0] \in Nat
  BY <1>1 DEF SlotsOf
<1>4. ASSUME NEW i \in 1 .. n, s[i - 1] \in Nat PROVE s[i] \in Nat
  <2>1. s[i] = 2 * s[i - 1] + context[i] /\ context[i] \in Nat
    BY <1>1 DEF SlotsOf
  <2> QED
    BY <1>4, <2>1
<1>5. s[n] \in Nat
  <2>1. \A i \in 1 .. n : s[i - 1] \in Nat => s[i] \in Nat
    BY <1>4
  <2> HIDE DEF n
  <2> QED
    BY <1>0, <1>3, <2>1, Kept
<1> QED
  BY <1>2, <1>5

-----------------------------------------------------------------------------
(* No score is infinite for long *)

M == MaxCost(run)
Length == Len(tokens[1])

\* The costs of n tokens are never infinite.
LEMMA CostsFit ==
  ASSUME run \in Runs, NEW n \in Nat, n <= run.max_new_tokens
  PROVE  /\ M \in Nat /\ n * M \in Nat /\ n * M < -NegInf
         /\ (n + 1) * M = n * M + M
         /\ run.max_new_tokens \in Nat \ {0}
<1>1. PICK k \in Nat \ {0} : k = run.max_new_tokens
  BY BeamAssumption
<1>2. PICK m \in Nat : m = 999 \div k /\ m * k <= 999
  <2>1. PICK a \in Nat : a = 999
    OBVIOUS
  <2>2. a \div k \in Nat /\ a % k \in 0 .. k - 1
        /\ a = (a \div k) * k + (a % k)
    BY DivMod
  <2>3. PICK q \in Nat, r \in Nat : q = a \div k /\ r = a % k
    BY <2>2
  <2>4. q * k \in Nat /\ a = q * k + r
    BY <2>2, <2>3, Products
  <2>5. q * k <= a
    BY <2>4
  <2> QED
    BY <2>1, <2>3, <2>5
<1>3. M = m
  BY <1>1, <1>2 DEF M, MaxCost, NegInf
<1>4. CASE m = 0
  BY <1>1, <1>3, <1>4 DEF NegInf
<1>5. CASE m # 0
  <2>1. n * m \in Nat /\ (n + 1) * m = n * m + m /\ n * m <= k * m
    BY <1>1, <1>5, Products
  <2>2. k * m = m * k
    BY <1>1
  <2> QED
    BY <1>1, <1>2, <1>3, <2>1, <2>2 DEF NegInf
<1> QED
  BY <1>4, <1>5

\* The charge of a token after a hypothesis.
LEMMA ChargeIs ==
  ASSUME run \in Runs, NEW g \in Groups, NEW seq \in Seq(Vocab),
         NEW token \in Vocab
  PROVE  /\ run.eos \notin Range(seq) => Charge(g, seq, token) # NegInf
         /\ run.eos \in Range(seq) =>
              (Charge(g, seq, token) # NegInf <=> token = run.eos)
         /\ Charge(g, seq, token) # NegInf =>
              /\ Charge(g, seq, token) \in Int
              /\ -M <= Charge(g, seq, token) /\ Charge(g, seq, token) <= 0
<1>1. /\ M \in Nat /\ M < -NegInf /\ NegInf # 0
  <2>1. 1 \in Nat /\ 1 <= run.max_new_tokens
    BY BeamAssumption
  <2>2. M \in Nat /\ 1 * M < -NegInf
    BY <2>1, CostsFit
  <2> QED
    BY <2>2 DEF NegInf
<1>2. ASSUME run.eos \notin Range(seq)
      PROVE  /\ Charge(g, seq, token) \in Int
             /\ -M <= Charge(g, seq, token) /\ Charge(g, seq, token) <= 0
  <2>1. PICK context : context = Unpadded(run.prompts[g]) \o seq
    OBVIOUS
  <2>2. context \in Seq(Nat) /\ token \in Nat
    <3>1. PICK p \in Seq(Nat) : p = run.prompts[g] /\ LeftPadded(p)
      BY Arguments
    <3>2. PICK k \in 0 .. Len(p) - 1 : Unpadded(p) = SubSeq(p, k + 1, Len(p))
      <4> DEFINE F(x) == \A i \in DOMAIN p : p[i] = Pad <=> i <= x
                 c == CHOOSE x \in 0 .. Len(p) - 1 : F(x)
      <4>1. \E x \in 0 .. Len(p) - 1 : F(x)
        BY <3>1 DEF LeftPadded
      <4>2. c \in 0 .. Len(p) - 1
        <5> HIDE DEF F
        <5> QED
          BY <4>1
      <4>3. Unpadded(p) = SubSeq(p, c + 1, Len(p))
        BY DEF Unpadded
      <4> QED
        BY <4>2, <4>3
    <3>3. Unpadded(p) \in Seq(Nat)
      BY <3>2, PartOf, k \in Nat, k <= Len(p), Len(p) \in Nat
    <3>4. seq \in Seq(Nat) /\ token \in Nat
      BY Arguments, SeqMonotonic
    <3> QED
      BY <2>1, <3>1, <3>3, <3>4, ConcatProperties
  <2>3. PICK costs \in Seq(0 .. M), n \in Nat \ {0} :
          costs = run.costs /\ n = Len(costs) /\ DOMAIN costs = 1 .. n
    <3>1. run.costs \in Seq(0 .. M) /\ run.costs # <<>>
      BY BeamAssumption DEF M
    <3> QED
      BY <3>1, EmptySeq
  <2>4. PICK slot \in Nat : slot = Slot(context, token)
    BY <2>2, SlotType
  <2>5. slot % n \in 0 .. n - 1
    BY DivMod
  <2>6. 1 + (slot % n) \in 1 .. n
    BY <2>5
  <2>7. costs[1 + (slot % n)] \in 0 .. M
    <3>1. PICK i \in 1 .. n : i = 1 + (slot % n)
      BY <2>6
    <3>2. costs[i] \in 0 .. M
      <4>1. i \in 1 .. Len(costs)
        BY <2>3
      <4> QED
        BY ONLY <4>1, costs \in Seq(0 .. M), ElementOfSeq
    <3> QED
      BY <3>1, <3>2
  <2>8. Charge(g, seq, token) = -costs[1 + (slot % n)]
    BY <1>2, <2>1, <2>3, <2>4 DEF Charge, LogProb
  <2> QED
    BY <1>1, <2>7, <2>8
<1>3. ASSUME run.eos \in Range(seq)
      PROVE  Charge(g, seq, token) = IF token = run.eos THEN 0 ELSE NegInf
  BY <1>3 DEF Charge
<1> QED
  BY <1>1, <1>2, <1>3 DEF NegInf

Counted ==
  /\ Length <= run.max_new_tokens
  /\ pc \in {"forward", "select"} => Length < run.max_new_tokens
  /\ pc \in {"rank", "done"} => Length > 0

Bounded ==
  \A row \in Rows : scores[row] # NegInf =>
    scores[row] \in Int /\ -(Length * M) <= scores[row] /\ scores[row] <= 0

\* At first one row of a group is possible, then all are.
Alive ==
  IF Length = 0 THEN scores = InitScores
  ELSE \A row \in Rows : scores[row] # NegInf

\* After an end marker come only end markers.
Closed ==
  \A row \in Rows : scores[row] # NegInf =>
    \A i, j \in 1 .. Length :
      i < j /\ tokens[row][i] = run.eos => tokens[row][j] = run.eos

\* The answer of a group is its rows in the order of their ranks.
Answer ==
  pc = "done" => \A g \in Groups : \A i \in 1 .. run.returns :
    \E row \in RowsOf(g) :
      Rank(row) = i /\ result[g][i] = Cut(tokens[row])

RankInv == Counted /\ Bounded /\ Alive /\ Closed /\ Answer

\* The score of a hypothesis that goes on by one token.
LEMMA GoesOn ==
  ASSUME BeamInv, ScoreInv, RankInv, pc = "select",
         NEW row \in Rows, NEW token \in Vocab,
         NEW score, score = Plus(scores[row], logProbs[row][token]),
         NEW charge, charge = Charge(GroupOf(row), tokens[row], token)
  PROVE  /\ tokens[row] \in Seq(Vocab) /\ Len(tokens[row]) = Length
         /\ score # NegInf <=> scores[row] # NegInf /\ charge # NegInf
         /\ score \in Int /\ score >= NegInf
         /\ score # NegInf => /\ -((Length + 1) * M) <= score /\ score <= 0
<1>1. run \in Runs /\ tokens \in [Rows -> Seq(Vocab)] /\ Even
  BY DEF BeamInv, Types
<1>2. GroupOf(row) \in Groups
  BY <1>1, RowFacts
<1>3. tokens[row] \in Seq(Vocab) /\ Len(tokens[row]) = Length /\ Length \in Nat
  BY <1>1, <1>2 DEF Even, Length
<1>4. score = Plus(scores[row], charge)
  BY DEF ScoreInv, Offered
<1>5. PICK n \in Nat, m \in Nat, p \in Nat, x \in Nat :
        /\ n = Length /\ m = M /\ p = n * m /\ x = (n + 1) * m
        /\ x = p + m /\ x < -NegInf
  <2>1. Length < run.max_new_tokens /\ run.max_new_tokens \in Nat
    BY <1>1, BeamAssumption DEF RankInv, Counted
  <2>2. Length <= run.max_new_tokens /\ Length + 1 \in Nat
        /\ Length + 1 <= run.max_new_tokens
    BY <1>3, <2>1
  <2>3. /\ M \in Nat /\ Length * M \in Nat /\ (Length + 1) * M = Length * M + M
    BY <1>1, <1>3, <2>2, CostsFit
  <2>4. (Length + 1) * M \in Nat /\ (Length + 1) * M < -NegInf
    BY <1>1, <2>2, CostsFit
  <2> QED
    BY <1>3, <2>3, <2>4
<1>6. charge # NegInf => charge \in Int /\ -m <= charge /\ charge <= 0
  BY <1>1, <1>2, <1>3, <1>5, ChargeIs
<1>7. scores[row] # NegInf =>
        scores[row] \in Int /\ -p <= scores[row] /\ scores[row] <= 0
  BY <1>2, <1>5 DEF RankInv, Bounded
<1>8. CASE scores[row] # NegInf /\ charge # NegInf
  <2>1. score = scores[row] + charge
    BY <1>4, <1>8 DEF Plus
  <2>2. score \in Int /\ -x <= score /\ score <= 0 /\ score > NegInf
    BY <1>5, <1>6, <1>7, <1>8, <2>1 DEF NegInf
  <2> QED
    BY <1>3, <1>5, <1>8, <2>2 DEF NegInf
<1>9. CASE scores[row] = NegInf \/ charge = NegInf
  <2>1. score = NegInf
    BY <1>4, <1>9 DEF Plus
  <2> QED
    BY <1>3, <1>9, <2>1 DEF NegInf
<1> QED
  BY <1>8, <1>9

\* Of the n first of many, all are above a bound that n of them are above.
LEMMA TopIsPossible ==
  ASSUME NEW n \in Nat \ {0}, NEW all, NEW score,
         \A c \in all : score[c] \in Int,
         NEW s \in [1 .. n -> all],
         \A i, j \in 1 .. n : i < j => score[s[i]] >= score[s[j]],
         \A c \in all \ Range(s) : score[c] <= score[s[n]],
         NEW F \in SUBSET all, IsFiniteSet(F), Cardinality(F) >= n,
         NEW low \in Int, \A c \in F : score[c] > low,
         NEW i \in 1 .. n
  PROVE  score[s[i]] > low
<1> SUFFICES ASSUME ~(score[s[i]] > low) PROVE FALSE
  OBVIOUS
<1>1. score[s[n]] <= low
  <2>1. n \in 1 .. n /\ score[s[n]] \in Int /\ score[s[i]] \in Int
    OBVIOUS
  <2>2. i = n \/ score[s[i]] >= score[s[n]]
    BY <2>1
  <2> QED
    BY <2>1, <2>2
<1>2. PICK R : R = Range(s)
  OBVIOUS
<1>3. F \subseteq R \ {s[i]}
  <2>1. ASSUME NEW c \in F PROVE c \in R
    <3>1. score[c] > low /\ score[c] \in Int /\ score[s[n]] \in Int
      <4>1. n \in 1 .. n
        OBVIOUS
      <4> QED
        BY <4>1
    <3> QED
      BY <1>1, <1>2, <3>1
  <2>2. s[i] \notin F
    OBVIOUS
  <2> QED
    BY <2>1, <2>2
<1>4. IsFiniteSet(R) /\ Cardinality(R) <= n /\ Cardinality(R) \in Nat /\ s[i] \in R
  <2>1. R = {s[j] : j \in 1 .. n}
    BY <1>2 DEF Range
  <2>2. s \in Surjection(1 .. n, R)
    BY <2>1 DEF Surjection
  <2>3. IsFiniteSet(1 .. n) /\ Cardinality(1 .. n) = n
    BY FS_Interval
  <2>4. IsFiniteSet(R) /\ Cardinality(R) <= n
    BY <2>2, <2>3, FS_Surjection
  <2> QED
    BY <2>1, <2>4, FS_CardinalityType
<1>5. /\ IsFiniteSet(R \ {s[i]}) /\ Cardinality(R \ {s[i]}) = Cardinality(R) - 1
  BY <1>4, FS_RemoveElement
<1>6. Cardinality(F) <= Cardinality(R \ {s[i]}) /\ Cardinality(F) \in Nat
  BY <1>3, <1>5, FS_Subset, FS_CardinalityType
<1> QED
  BY <1>4, <1>5, <1>6

\* As many images as elements.
LEMMA Images ==
  ASSUME NEW S, IsFiniteSet(S), NEW f, NEW F, F = {f[x] : x \in S},
         \A x, y \in S : f[x] = f[y] => x = y
  PROVE  IsFiniteSet(F) /\ Cardinality(F) = Cardinality(S)
<1> DEFINE h == [x \in S |-> f[x]]
<1>1. h \in [S -> F] /\ \A y \in F : \E x \in S : h[x] = y
  OBVIOUS
<1>2. \A x, y \in S : h[x] = h[y] => x = y
  OBVIOUS
<1> HIDE DEF h
<1>3. h \in Surjection(S, F)
  BY <1>1 DEF Surjection
<1>4. h \in Injection(S, F)
  BY <1>1, <1>2 DEF Injection, IsInjective
<1> QED
  BY <1>3, <1>4, FS_Surjection

\* The rows of a group, and the first of them.
LEMMA RowAt ==
  ASSUME run \in Runs, NEW g \in Groups, NEW b \in 1 .. Beams,
         NEW row, row = (g - 1) * Beams + b
  PROVE  /\ row \in Rows /\ GroupOf(row) = g
         /\ b = 1 => row % Beams = 1 % Beams
<1>1. PICK n \in Nat \ {0}, m \in Nat \ {0} : n = Beams /\ m = Len(run.prompts)
  BY Arguments
<1>2. g \in 1 .. m /\ b \in 1 .. n /\ row = (g - 1) * n + b
  BY <1>1, Arguments
<1>3. PICK q \in Nat, k \in 0 .. n - 1 :
        q = g - 1 /\ q + 1 = g /\ k = b - 1 /\ b = k + 1
  BY <1>2
<1>4. PICK x \in Nat, y \in Nat : x = q * n /\ y = m * n
  BY <1>1, Products
<1>5. row = x + b /\ row - 1 = q * n + k
  BY <1>2, <1>3, <1>4
<1>6. (q * n + k) \div n = q
  BY DivModOf
<1>7. GroupOf(row) = g
  BY <1>1, <1>3, <1>5, <1>6 DEF GroupOf, Beams
<1>8. x + n <= y
  <2>1. (q + 1) * n = q * n + n
    BY Products
  <2>2. g * n <= m * n
    BY <1>2, Products, g \in Nat, g <= m
  <2> QED
    BY <1>3, <1>4, <2>1, <2>2
<1>9. row \in 1 .. y
  BY ONLY <1>2, <1>5, <1>8, x \in Nat, y \in Nat, n \in Nat
<1>10. b = 1 => row % n = 1 % n
  <2>1. CASE n = 1
    <3>1. row % n \in 0 .. n - 1 /\ 1 % n \in 0 .. n - 1
      BY <1>9, DivMod, row \in Nat, 1 \in Nat
    <3> QED
      BY <2>1, <3>1
  <2>2. CASE n # 1
    <3>1. PICK o \in 0 .. n - 1 : o = 1
      BY <2>2
    <3>2. (q * n + o) % n = o /\ (0 * n + o) % n = o
      BY DivModOf, 0 \in Nat
    <3>3. 0 * n + o = 1
      BY <3>1
    <3> QED
      BY <1>4, <1>5, <3>1, <3>2, <3>3
  <2> QED
    BY <2>1, <2>2
<1> QED
  BY <1>1, <1>4, <1>7, <1>9, <1>10 DEF Rows, Beams

\* The candidates of a group.
LEMMA CandidateIs ==
  ASSUME BeamInv, ScoreInv, RankInv, pc = "select", NEW g \in Groups,
         NEW b \in 1 .. Beams, NEW token \in Vocab,
         NEW row, row = (g - 1) * Beams + b,
         NEW score, score = Candidate(g, <<b, token>>)
  PROVE  /\ row \in Rows /\ GroupOf(row) = g
         /\ tokens[row] \in Seq(Vocab) /\ Len(tokens[row]) = Length
         /\ score \in Int /\ score >= NegInf
         /\ /\ scores[row] # NegInf
            /\ run.eos \in Range(tokens[row]) => token = run.eos
            => score # NegInf
<1>1. run \in Runs
  BY DEF BeamInv, Types
<1>2. row \in Rows /\ GroupOf(row) = g
  BY <1>1, RowAt
<1>3. score = Plus(scores[row], logProbs[row][token])
  BY DEF Candidate, Beams
<1>4. PICK charge : charge = Charge(GroupOf(row), tokens[row], token)
  OBVIOUS
<1>5. /\ tokens[row] \in Seq(Vocab) /\ Len(tokens[row]) = Length
      /\ score # NegInf <=> scores[row] # NegInf /\ charge # NegInf
      /\ score \in Int /\ score >= NegInf
  BY <1>2, <1>3, <1>4, GoesOn
<1>6. (run.eos \in Range(tokens[row]) => token = run.eos) => charge # NegInf
  BY <1>1, <1>2, <1>4, <1>5, ChargeIs
<1> QED
  BY <1>2, <1>5, <1>6

\* However the beams are picked, each pick is possible: there are num_beams
\* possible candidates, of the first row at first and one of each row then.
LEMMA PossiblePicks ==
  ASSUME BeamInv, ScoreInv, RankInv, pc = "select", NEW g \in Groups,
         NEW s \in Picks(g), NEW i \in 1 .. Beams
  PROVE  Candidate(g, s[i]) # NegInf
<1> DEFINE all == (1 .. Beams) \X Vocab
           score == [pick \in all |-> Candidate(g, pick)]
           row(b) == (g - 1) * Beams + b
<1>1. run \in Runs /\ tokens \in [Rows -> Seq(Vocab)]
  BY DEF BeamInv, Types
<1>2. PICK n \in Nat \ {0} : n = Beams
  BY <1>1, Arguments
<1>3. /\ s \in [1 .. n -> all]
      /\ IF run.sample THEN \A j \in 1 .. n : score[s[j]] # NegInf
         ELSE /\ \A j, k \in 1 .. n : j < k => score[s[j]] >= score[s[k]]
              /\ \A c \in all \ Range(s) : score[c] <= score[s[n]]
  BY <1>2 DEF Picks, Beams
<1>4. score[s[i]] = Candidate(g, s[i])
  BY <1>2, <1>3
<1>5. CASE run.sample
  BY <1>2, <1>3, <1>4, <1>5
<1>6. CASE ~run.sample
  <2>1. ASSUME NEW b \in 1 .. n, NEW token \in Vocab
        PROVE  /\ row(b) \in Rows /\ GroupOf(row(b)) = g
               /\ tokens[row(b)] \in Seq(Vocab) /\ Len(tokens[row(b)]) = Length
               /\ <<b, token>> \in all
               /\ score[<<b, token>>] \in Int /\ score[<<b, token>>] >= NegInf
               /\ /\ scores[row(b)] # NegInf
                  /\ run.eos \in Range(tokens[row(b)]) => token = run.eos
                  => score[<<b, token>>] # NegInf
    <3>1. PICK c : c = Candidate(g, <<b, token>>)
      OBVIOUS
    <3>2. score[<<b, token>>] = c /\ <<b, token>> \in all
      BY <1>2, <3>1
    <3>3. PICK r : r = row(b)
      OBVIOUS
    <3> HIDE DEF score
    <3>4. /\ r \in Rows /\ GroupOf(r) = g
          /\ tokens[r] \in Seq(Vocab) /\ Len(tokens[r]) = Length
          /\ c \in Int /\ c >= NegInf
          /\ /\ scores[r] # NegInf
             /\ run.eos \in Range(tokens[r]) => token = run.eos
             => c # NegInf
      BY <1>2, <3>1, <3>3, CandidateIs
    <3> QED
      BY <3>2, <3>3, <3>4
  <2>2. ASSUME NEW c \in all
        PROVE  score[c] \in Int /\ score[c] >= NegInf
    <3>1. PICK b \in 1 .. n, token \in Vocab : c = <<b, token>>
      BY <1>2
    <3> HIDE DEF score, all
    <3> QED
      BY <2>1, <3>1
  <2>3. IsFiniteSet(Vocab) /\ n <= Cardinality(Vocab) /\ Cardinality(Vocab) \in Nat
    <3>1. IsFiniteSet(Vocab) /\ Beams \in 1 .. Cardinality(Vocab)
      BY <1>1, BeamAssumption DEF Beams
    <3> QED
      BY <1>2, <3>1, FS_CardinalityType
  <2>4. \E F \in SUBSET all :
          /\ IsFiniteSet(F) /\ Cardinality(F) \in Nat /\ Cardinality(F) >= n
          /\ \A c \in F : score[c] # NegInf
    <3>1. CASE Length = 0
      <4>1. PICK f : f = [v \in Vocab |-> <<1, v>>]
        OBVIOUS
      <4>2. PICK F : F = {f[v] : v \in Vocab}
        OBVIOUS
      <4>3. IsFiniteSet(F) /\ Cardinality(F) = Cardinality(Vocab)
        <5>1. \A x, y \in Vocab : f[x] = f[y] => x = y
          BY <4>1
        <5> QED
          BY <2>3, <4>2, <5>1, Images
      <4>4. ASSUME NEW v \in Vocab
            PROVE  <<1, v>> \in all /\ score[<<1, v>>] # NegInf
        <5>1. 1 \in 1 .. n
          OBVIOUS
        <5>2. /\ row(1) \in Rows /\ tokens[row(1)] \in Seq(Vocab)
              /\ Len(tokens[row(1)]) = 0
              /\ <<1, v>> \in all
              /\ /\ scores[row(1)] # NegInf
                 /\ run.eos \in Range(tokens[row(1)]) => v = run.eos
                 => score[<<1, v>>] # NegInf
          BY <2>1, <3>1, <5>1
        <5>3. scores[row(1)] # NegInf
          <6>1. row(1) % Beams = 1 % Beams
            BY <1>1, <1>2, <5>1, RowAt
          <6>2. scores = InitScores
            BY <3>1 DEF RankInv, Alive
          <6>3. PICK r \in Rows : r = row(1)
            BY <5>2
          <6> QED
            BY <6>1, <6>2, <6>3 DEF InitScores, Beams, NegInf
        <5>4. run.eos \notin Range(tokens[row(1)])
          <6>1. DOMAIN tokens[row(1)] = {}
            BY <5>2
          <6> QED
            BY <6>1 DEF Range
        <5> QED
          BY <5>2, <5>3, <5>4
      <4>5. \A c \in F : \E v \in Vocab : c = <<1, v>>
        BY <4>1, <4>2
      <4> HIDE DEF score, all
      <4> QED
        BY <2>3, <4>3, <4>4, <4>5
    <3>2. CASE Length # 0
      <4>0. PICK v0 : v0 \in Vocab
        <5>1. Vocab # {}
          BY <2>3, FS_EmptySet
        <5> QED
          BY <5>1
      <4>1. PICK f : f = [b \in 1 .. n |->
              <<b, IF run.eos \in Range(tokens[row(b)]) THEN run.eos ELSE v0>>]
        OBVIOUS
      <4>2. PICK F : F = {f[b] : b \in 1 .. n}
        OBVIOUS
      <4>3. IsFiniteSet(F) /\ Cardinality(F) = n
        <5>1. \A x, y \in 1 .. n : f[x] = f[y] => x = y
          BY <4>1
        <5>2. IsFiniteSet(1 .. n) /\ Cardinality(1 .. n) = n
          BY FS_Interval
        <5> QED
          BY <4>2, <5>1, <5>2, Images
      <4>4. ASSUME NEW b \in 1 .. n
            PROVE  f[b] \in all /\ score[f[b]] # NegInf
        <5>1. PICK e : e = IF run.eos \in Range(tokens[row(b)])
                           THEN run.eos ELSE v0
          OBVIOUS
        <5>2. f[b] = <<b, e>>
          BY <4>1, <5>1
        <5>3. tokens[row(b)] \in Seq(Vocab) /\ row(b) \in Rows
          BY <2>1, <4>0
        <5>4. e \in Vocab
          <6>1. PICK t \in Seq(Vocab) : t = tokens[row(b)]
            BY <5>3
          <6>2. Range(t) \subseteq Vocab
            BY DEF Range
          <6> QED
            BY <4>0, <5>1, <6>1, <6>2
        <5>5. scores[row(b)] # NegInf
          BY <3>2, <5>3 DEF RankInv, Alive
        <5>6. run.eos \in Range(tokens[row(b)]) => e = run.eos
          BY <5>1
        <5> HIDE DEF score, all
        <5> QED
          BY <2>1, <5>2, <5>4, <5>5, <5>6
      <4>5. \A c \in F : \E b \in 1 .. n : c = f[b]
        BY <4>2
      <4> HIDE DEF score, all
      <4> QED
        BY <4>3, <4>4, <4>5
    <3> QED
      BY <3>1, <3>2
  <2>5. PICK F \in SUBSET all :
          /\ IsFiniteSet(F) /\ Cardinality(F) >= n
          /\ \A c \in F : score[c] # NegInf
    BY <2>4
  <2>6. PICK low \in Int : low = NegInf
    BY DEF NegInf
  <2>7. \A c \in F : score[c] > low
    <3> HIDE DEF score, all
    <3> QED
      BY <2>2, <2>5, <2>6
  <2>8. \A c \in all : score[c] \in Int
    <3> HIDE DEF score, all
    <3> QED
      BY <2>2
  <2>9. /\ \A j, k \in 1 .. n : j < k => score[s[j]] >= score[s[k]]
        /\ \A c \in all \ Range(s) : score[c] <= score[s[n]]
        /\ s \in [1 .. n -> all] /\ i \in 1 .. n
    BY <1>2, <1>3, <1>6
  <2>10. score[s[i]] > low
    <3> HIDE DEF score, all
    <3> QED
      BY ONLY n \in Nat \ {0}, low \in Int, F \in SUBSET all,
              <2>5, <2>7, <2>8, <2>9, TopIsPossible
  <2> QED
    BY <1>4, <2>6, <2>10 DEF NegInf
<1> QED
  BY <1>5, <1>6

-----------------------------------------------------------------------------
(* The order of the rows of a group *)

\* What is left of a sequence: all of it, or its first part up to an end marker.
LEMMA CutIs ==
  ASSUME run \in Runs, NEW seq \in Seq(Vocab), NEW n \in Nat \ {0}, Len(seq) = n
  PROVE  \E k \in 1 .. n :
           /\ Len(Cut(seq)) = k /\ \A i \in 1 .. k : Cut(seq)[i] = seq[i]
           /\ k = n \/ seq[k] = run.eos
<1>1. CASE run.eos \notin Range(seq)
  <2>1. Cut(seq) = seq
    BY <1>1 DEF Cut
  <2> QED
    BY <2>1, n \in 1 .. n
<1>2. CASE run.eos \in Range(seq)
  <2> DEFINE S == {i \in DOMAIN seq : seq[i] = run.eos}
             k == Min(S)
  <2>1. S \in SUBSET Nat /\ S # {}
    BY <1>2 DEF Range
  <2>2. k \in S
    <3>1. \E x \in S : \A y \in S : x <= y
      <4> HIDE DEF S
      <4> QED
        BY <2>1, NatMin
    <3> HIDE DEF S
    <3> QED
      BY <3>1 DEF Min
  <2>3. Cut(seq) = SubSeq(seq, 1, k)
    BY <1>2 DEF Cut
  <2>4. k \in 1 .. n /\ seq[k] = run.eos
    BY <2>2
  <2> HIDE DEF k, S
  <2>5. Len(SubSeq(seq, 1, k)) = k
    BY <2>4
  <2>6. \A i \in 1 .. k : SubSeq(seq, 1, k)[i] = seq[i]
    BY <2>4
  <2> QED
    BY <2>3, <2>4, <2>5, <2>6
<1> QED
  BY <1>1, <1>2

\* What the order of the rows rests on: all hypotheses have a score.
Scored == BeamInv /\ Bounded /\ Alive /\ Length # 0

LEMMA ScoredIs ==
  ASSUME Scored
  PROVE  /\ run \in Runs /\ Length \in Nat \ {0}
         /\ \A row \in Rows :
              /\ row \in Nat /\ scores[row] \in Int /\ scores[row] # NegInf
              /\ tokens[row] \in Seq(Vocab) /\ Len(tokens[row]) = Length
              /\ Weight(row) \in Nat \ {0}
<1>1. /\ run \in Runs /\ tokens \in [Rows -> Seq(Vocab)]
      /\ \A row \in Rows : Len(tokens[row]) = Length
  BY DEF Scored, BeamInv, Types, Even, Length
<1>2. Length \in Nat \ {0}
  <2>1. PICK t \in Seq(Vocab) : t = tokens[1]
    BY <1>1, RowFacts
  <2> QED
    BY <2>1 DEF Scored, Length
<1>3. ASSUME NEW row \in Rows
      PROVE  /\ row \in Nat /\ scores[row] \in Int /\ scores[row] # NegInf
             /\ tokens[row] \in Seq(Vocab) /\ Len(tokens[row]) = Length
             /\ Weight(row) \in Nat \ {0}
  <2>1. row \in Nat
    BY <1>1, RowFacts
  <2>2. scores[row] # NegInf /\ scores[row] \in Int
    BY DEF Scored, Alive, Bounded
  <2>3. tokens[row] \in Seq(Vocab) /\ Len(tokens[row]) = Length
    BY <1>1
  <2>4. Len(Cut(tokens[row])) \in Nat \ {0}
    <3>1. PICK n \in Nat \ {0}, t \in Seq(Vocab) :
            n = Length /\ t = tokens[row] /\ Len(t) = n
      BY <1>2, <2>3
    <3>2. \E k \in 1 .. n : Len(Cut(t)) = k
      BY <1>1, <3>1, CutIs
    <3> QED
      BY <3>1, <3>2
  <2>5. run.length_penalty \in Nat
    BY <1>1, BeamAssumption
  <2>6. Weight(row) \in Nat \ {0}
    BY <2>4, <2>5, PowerPositive DEF Weight
  <2> QED
    BY <2>1, <2>2, <2>3, <2>6
<1> QED
  BY <1>1, <1>2, <1>3

LEMMA Times ==
  ASSUME NEW x \in Int, NEW y \in Int, NEW n \in Nat \ {0}
  PROVE  /\ x * n \in Int
         /\ x > y <=> x * n > y * n
         /\ x >= y <=> x * n >= y * n
<1>1. x > y => x * n > y * n
  OBVIOUS
<1>2. x < y => x * n < y * n
  OBVIOUS
<1>3. x = y => x * n = y * n
  OBVIOUS
<1>4. x * n \in Int /\ y * n \in Int
  OBVIOUS
<1> QED
  BY <1>1, <1>2, <1>3, <1>4

\* Fractions are compared by the products across.
LEMMA Across ==
  ASSUME NEW a \in Int, NEW b \in Int, NEW c \in Int, NEW u \in Nat \ {0},
         NEW v \in Nat \ {0}, NEW w \in Nat \ {0},
         a * v >= b * u, b * w >= c * v
  PROVE  /\ a * w >= c * u
         /\ a * v > b * u \/ b * w > c * v => a * w > c * u
<1>1. PICK p \in Int, q \in Int, r \in Int, s \in Int, x \in Int, y \in Int :
        /\ p = a * v /\ q = b * u /\ r = b * w /\ s = c * v
        /\ x = a * w /\ y = c * u
  OBVIOUS
<1>2. p * w = x * v
  <2>1. (a * v) * w = (a * w) * v
    OBVIOUS
  <2> QED
    BY <1>1, <2>1
<1>3. q * w = r * u
  <2>1. (b * u) * w = (b * w) * u
    OBVIOUS
  <2> QED
    BY <1>1, <2>1
<1>4. s * u = y * v
  <2>1. (c * v) * u = (c * u) * v
    OBVIOUS
  <2> QED
    BY <1>1, <2>1
<1>5. p * w >= q * w /\ (p > q => p * w > q * w)
  BY <1>1, Times
<1>6. r * u >= s * u /\ (r > s => r * u > s * u)
  BY <1>1, Times
<1>7. x * v >= y * v /\ (p > q \/ r > s => x * v > y * v)
  <2>1. PICK i \in Int, j \in Int, k \in Int :
          i = p * w /\ j = q * w /\ k = s * u
    OBVIOUS
  <2>2. i >= j /\ j >= k /\ (p > q => i > j) /\ (r > s => j > k)
    BY <1>3, <1>5, <1>6, <2>1
  <2>3. i >= k /\ (p > q \/ r > s => i > k)
    BY ONLY <2>2, i \in Int, j \in Int, k \in Int
  <2> QED
    BY <1>2, <1>4, <2>1, <2>3
<1>8. x >= y /\ (p > q \/ r > s => x > y)
  BY <1>7, Times
<1> QED
  BY <1>1, <1>8

\* Row a comes before row b: sorting is stable.
Ahead(a, b) == Above(a, b) \/ (a < b /\ ~Above(b, a))

LEMMA AheadOrders ==
  ASSUME Scored
  PROVE  /\ \A a \in Rows : ~Ahead(a, a)
         /\ \A a, b \in Rows : a # b => Ahead(a, b) \/ Ahead(b, a)
         /\ \A a, b, c \in Rows : Ahead(a, b) /\ Ahead(b, c) => Ahead(a, c)
<1>1. ASSUME NEW a \in Rows, NEW b \in Rows
      PROVE  Above(a, b) <=> scores[a] * Weight(b) > scores[b] * Weight(a)
  BY ScoredIs DEF Above
<1>2. ASSUME NEW a \in Rows PROVE ~Ahead(a, a)
  <2>1. PICK x \in Int, u \in Nat \ {0} : x = scores[a] /\ u = Weight(a)
    BY ScoredIs
  <2>2. ~(x * u > x * u)
    <3>1. x * u \in Int
      OBVIOUS
    <3> QED
      BY <3>1
  <2>3. ~Above(a, a)
    BY <1>1, <2>1, <2>2
  <2>4. ~(a < a)
    BY ScoredIs
  <2> QED
    BY <2>3, <2>4 DEF Ahead
<1>3. ASSUME NEW a \in Rows, NEW b \in Rows, a # b
      PROVE  Ahead(a, b) \/ Ahead(b, a)
  <2>1. a < b \/ b < a
    BY <1>3, ScoredIs
  <2> QED
    BY <2>1 DEF Ahead
<1>4. ASSUME NEW a \in Rows, NEW b \in Rows, NEW c \in Rows,
             Ahead(a, b), Ahead(b, c)
      PROVE  Ahead(a, c)
  <2>1. PICK x \in Int, y \in Int, z \in Int, u \in Nat \ {0},
             v \in Nat \ {0}, w \in Nat \ {0} :
          /\ x = scores[a] /\ y = scores[b] /\ z = scores[c]
          /\ u = Weight(a) /\ v = Weight(b) /\ w = Weight(c)
    BY ScoredIs
  <2>2. /\ Above(a, b) <=> x * v > y * u
        /\ Above(b, a) <=> y * u > x * v
        /\ Above(b, c) <=> y * w > z * v
        /\ Above(c, b) <=> z * v > y * w
        /\ Above(a, c) <=> x * w > z * u
        /\ Above(c, a) <=> z * u > x * w
    BY <1>1, <2>1
  <2>3. PICK ab \in Int, ba \in Int, bc \in Int, cb \in Int, ac \in Int, ca \in Int :
          /\ ab = x * v /\ ba = y * u /\ bc = y * w /\ cb = z * v
          /\ ac = x * w /\ ca = z * u
    OBVIOUS
  <2>4. ab >= ba /\ bc >= cb /\ (ab > ba \/ bc > cb \/ (a < b /\ b < c))
    BY <1>4, <2>2, <2>3 DEF Ahead
  <2>5. ac >= ca /\ (ab > ba \/ bc > cb => ac > ca)
    <3>1. x * v >= y * u /\ y * w >= z * v
      BY <2>3, <2>4
    <3>2. /\ x * w >= z * u
          /\ x * v > y * u \/ y * w > z * v => x * w > z * u
      BY ONLY <3>1, Across, x \in Int, y \in Int, z \in Int,
              u \in Nat \ {0}, v \in Nat \ {0}, w \in Nat \ {0}
    <3> QED
      BY <2>3, <3>2
  <2>6. a \in Nat /\ b \in Nat /\ c \in Nat
    BY ScoredIs
  <2>7. ac > ca \/ (a < c /\ ~(ca > ac))
    BY ONLY <2>4, <2>5, <2>6, ac \in Int, ca \in Int
  <2> QED
    BY <2>2, <2>3, <2>7 DEF Ahead
<1> QED
  BY <1>2, <1>3, <1>4

LEMMA RowsOfGroup ==
  ASSUME run \in Runs, NEW g \in Groups
  PROVE  IsFiniteSet(RowsOf(g)) /\ Cardinality(RowsOf(g)) = Beams
<1>1. PICK n \in Nat \ {0} : n = Beams
  BY Arguments
<1>2. PICK f : f = [b \in 1 .. n |-> (g - 1) * n + b]
  OBVIOUS
<1>3. g \in Nat \ {0}
  BY Arguments
<1>4. PICK q \in Nat, x \in Nat : q = g - 1 /\ x = q * n
  BY <1>3, Products
<1>5. \A b \in 1 .. n : f[b] = x + b
  BY <1>2, <1>4
<1>6. ASSUME NEW b \in 1 .. n PROVE f[b] \in RowsOf(g)
  BY <1>1, <1>2, RowAt DEF RowsOf
<1>7. ASSUME NEW row \in RowsOf(g) PROVE \E b \in 1 .. n : row = f[b]
  <2>1. row \in Rows /\ GroupOf(row) = g /\ row \in Nat \ {0}
    BY RowFacts DEF RowsOf
  <2>2. PICK a \in Nat : a = row - 1 /\ row = a + 1
    BY <2>1
  <2>3. a \div n \in Nat /\ a % n \in 0 .. n - 1 /\ a = (a \div n) * n + (a % n)
    BY DivMod
  <2>4. a \div n = q
    BY <1>1, <1>4, <2>1, <2>2, <2>3 DEF GroupOf, Beams
  <2>5. PICK k \in 0 .. n - 1 : k = a % n /\ a = x + k
    BY <1>4, <2>3, <2>4
  <2>6. k + 1 \in 1 .. n /\ row = x + (k + 1)
    BY <2>2, <2>5
  <2> QED
    BY <1>5, <2>6
<1>8. RowsOf(g) = {f[b] : b \in 1 .. n}
  BY <1>6, <1>7
<1>9. \A a, b \in 1 .. n : f[a] = f[b] => a = b
  BY <1>5
<1>10. IsFiniteSet(1 .. n) /\ Cardinality(1 .. n) = n
  BY FS_Interval
<1> QED
  BY <1>1, <1>8, <1>9, <1>10, Images

\* The ranks number the rows of a group, the higher scores first.
LEMMA Ranks ==
  ASSUME Scored, NEW g \in Groups
  PROVE  /\ \A row \in RowsOf(g) : Rank(row) \in 1 .. Beams
         /\ \A a, b \in RowsOf(g) : Above(a, b) => Rank(a) < Rank(b)
         /\ \A a, b \in RowsOf(g) : Rank(a) = Rank(b) => a = b
         /\ \A k \in 1 .. Beams : \E row \in RowsOf(g) : Rank(row) = k
<1>0. PICK S : S = RowsOf(g)
  OBVIOUS
<1>1. PICK n \in Nat \ {0} :
        /\ n = Beams /\ S = RowsOf(g)
        /\ IsFiniteSet(S) /\ Cardinality(S) = n
  BY <1>0, ScoredIs, Arguments, RowsOfGroup
<1>2. S \subseteq Rows
  BY <1>1 DEF RowsOf
<1> DEFINE First(b) == {a \in S : Ahead(a, b)}
<1>3. ASSUME NEW b \in S
      PROVE  /\ Rank(b) = 1 + Cardinality(First(b))
             /\ First(b) \subseteq S /\ b \notin First(b)
             /\ IsFiniteSet(First(b)) /\ Cardinality(First(b)) \in 0 .. n - 1
  <2>1. GroupOf(b) = g
    BY <1>1 DEF RowsOf
  <2>2. Rank(b) = 1 + Cardinality(First(b))
    BY <1>1, <2>1 DEF Rank, Ahead
  <2>3. First(b) \subseteq S /\ b \notin First(b)
    BY <1>2, AheadOrders
  <2>4. PICK F : F = First(b)
    OBVIOUS
  <2>5. /\ IsFiniteSet(F) /\ Cardinality(F) \in Nat
        /\ Cardinality(F) <= n /\ Cardinality(F) # n
    BY <1>1, <2>3, <2>4, FS_Subset, FS_CardinalityType
  <2> QED
    BY <2>2, <2>3, <2>4, <2>5
<1>4. ASSUME NEW a \in S, NEW b \in S, Ahead(a, b)
      PROVE  Rank(a) < Rank(b)
  <2>1. First(a) \subseteq First(b) /\ a \in First(b) /\ a \notin First(a)
    BY <1>2, <1>4, AheadOrders
  <2>2. PICK A, B : A = First(a) /\ B = First(b)
    OBVIOUS
  <2>3. IsFiniteSet(B) /\ Cardinality(A) \in Nat /\ Cardinality(B) \in Nat
    BY <1>3, <2>2
  <2>4. Cardinality(A) <= Cardinality(B) /\ Cardinality(A) # Cardinality(B)
    BY <2>1, <2>2, <2>3, FS_Subset
  <2> QED
    BY <1>3, <2>2, <2>3, <2>4
<1> HIDE DEF First
<1>5. ASSUME NEW row \in S PROVE Rank(row) \in 1 .. n
  <2>1. PICK c \in 0 .. n - 1 : c = Cardinality(First(row))
    BY <1>3
  <2> QED
    BY <1>3, <2>1
<1>6. \A a, b \in S : Above(a, b) => Rank(a) < Rank(b)
  BY <1>4 DEF Ahead
<1>7. ASSUME NEW a \in S, NEW b \in S, Rank(a) = Rank(b) PROVE a = b
  <2>1. a # b => Ahead(a, b) \/ Ahead(b, a)
    BY <1>2, AheadOrders
  <2>2. a # b => Rank(a) < Rank(b) \/ Rank(b) < Rank(a)
    BY <1>4, <2>1
  <2> QED
    BY <1>5, <1>7, <2>2
<1>8. ASSUME NEW k \in 1 .. n PROVE \E row \in S : Rank(row) = k
  <2> DEFINE F == [row \in S |-> Rank(row)]
  <2>1. F \in [S -> 1 .. n] /\ \A a, b \in S : F[a] = F[b] => a = b
    BY <1>5, <1>7
  <2>2. \A row \in S : F[row] = Rank(row)
    OBVIOUS
  <2> HIDE DEF F
  <2>3. F \in Injection(S, 1 .. n)
    BY <2>1 DEF Injection, IsInjective
  <2>4. IsFiniteSet(1 .. n) /\ Cardinality(1 .. n) = n
    BY FS_Interval
  <2>5. F \in Surjection(S, 1 .. n)
    BY <1>1, <2>3, <2>4, FS_Injection
  <2> QED
    BY <2>2, <2>5 DEF Surjection
<1> QED
  BY <1>1, <1>5, <1>6, <1>7, <1>8

\* Two hypotheses of a group that are the same once they are cut are the same,
\* and so are their scores.
LEMMA SameCut ==
  ASSUME Scored, ScoreInv, Closed, NEW g \in Groups, NEW a \in RowsOf(g),
         NEW b \in RowsOf(g), Cut(tokens[a]) = Cut(tokens[b])
  PROVE  \A row : Above(row, a) <=> Above(row, b)
<1>1. /\ run \in Runs /\ a \in Rows /\ b \in Rows
      /\ GroupOf(a) = g /\ GroupOf(b) = g
  BY ScoredIs DEF RowsOf
<1>2. PICK n \in Nat \ {0}, t \in Seq(Vocab), u \in Seq(Vocab) :
        /\ n = Length /\ t = tokens[a] /\ u = tokens[b]
        /\ Len(t) = n /\ Len(u) = n
  BY <1>1, ScoredIs
<1>3. PICK k \in 1 .. n :
        /\ Len(Cut(t)) = k /\ \A i \in 1 .. k : Cut(t)[i] = t[i]
        /\ k = n \/ t[k] = run.eos
  BY <1>1, <1>2, CutIs
<1>4. PICK l \in 1 .. n :
        /\ Len(Cut(u)) = l /\ \A i \in 1 .. l : Cut(u)[i] = u[i]
        /\ l = n \/ u[l] = run.eos
  BY <1>1, <1>2, CutIs
<1>5. Cut(t) = Cut(u) /\ k = l
  BY <1>2, <1>3, <1>4
<1>6. ASSUME NEW i \in 1 .. n PROVE t[i] = u[i]
  <2>1. CASE i <= k
    <3>1. i \in 1 .. k
      BY <2>1
    <3> QED
      BY <1>3, <1>4, <1>5, <3>1
  <2>2. CASE ~(i <= k)
    <3>1. k < i /\ k \in 1 .. n /\ t[k] = run.eos /\ u[k] = run.eos
      BY <1>3, <1>4, <1>5, <2>2
    <3>2. scores[a] # NegInf /\ scores[b] # NegInf
      BY <1>1, ScoredIs
    <3>3. t[i] = run.eos /\ u[i] = run.eos
      BY <1>1, <1>2, <3>1, <3>2 DEF Closed
    <3> QED
      BY <3>3
  <2> QED
    BY <2>1, <2>2
<1>7. t = u
  BY <1>2, <1>6, SeqEqual
<1>8. scores[a] = scores[b]
  BY <1>1, <1>2, <1>7, ScoredIs DEF ScoreInv, Summed
<1>9. Weight(a) = Weight(b)
  BY <1>2, <1>7 DEF Weight
<1> QED
  BY <1>8, <1>9 DEF Above

LEMMA RankStart == Init /\ BeamInv => RankInv
<1> SUFFICES ASSUME Init, BeamInv PROVE RankInv
  OBVIOUS
<1>1. /\ run \in Runs /\ pc = "forward" /\ scores = InitScores
      /\ tokens = [row \in Rows |-> <<>>]
  BY DEF Init
<1>2. Length = 0
  BY <1>1, RowFacts DEF Length
<1>3. 0 \in Nat /\ 0 <= run.max_new_tokens /\ 0 < run.max_new_tokens
  BY <1>1, BeamAssumption
<1>4. Counted
  BY <1>1, <1>2, <1>3 DEF Counted
<1>5. Bounded
  <2>1. 0 * M = 0
    <3>1. M \in Nat
      BY <1>1, <1>3, CostsFit
    <3> QED
      BY <3>1
  <2>2. \A row \in Rows : scores[row] # NegInf => scores[row] = 0
    BY <1>1 DEF InitScores
  <2> QED
    BY <1>2, <2>1, <2>2 DEF Bounded
<1>6. Alive
  BY <1>1, <1>2 DEF Alive
<1>7. Closed
  BY <1>2 DEF Closed
<1> QED
  BY <1>1, <1>4, <1>5, <1>6, <1>7 DEF RankInv, Answer

LEMMA ForwardRank == RankInv /\ Forward => RankInv'
<1> SUFFICES ASSUME RankInv, Forward PROVE RankInv'
  OBVIOUS
<1>1. /\ pc = "forward" /\ pc' = "select" /\ run' = run /\ tokens' = tokens
      /\ scores' = scores
  BY DEF Forward
<1>2. /\ Rows' = Rows /\ Length' = Length /\ M' = M
      /\ InitScores' = InitScores
  BY <1>1 DEF Rows, Length, M, InitScores, MaxCost
<1>3. Counted /\ Bounded /\ Alive /\ Closed
  BY DEF RankInv
<1>4. Counted'
  BY <1>1, <1>2, <1>3 DEF Counted
<1>5. Bounded'
  BY <1>1, <1>2, <1>3 DEF Bounded
<1>6. Alive'
  BY <1>1, <1>2, <1>3 DEF Alive
<1>7. Closed'
  BY <1>1, <1>2, <1>3 DEF Closed
<1> QED
  BY <1>1, <1>4, <1>5, <1>6, <1>7 DEF RankInv, Answer

LEMMA SelectRank == BeamInv /\ ScoreInv /\ RankInv /\ Select => RankInv'
<1> SUFFICES ASSUME BeamInv, ScoreInv, RankInv, Select PROVE RankInv'
  OBVIOUS
<1>1. /\ run \in Runs /\ tokens \in [Rows -> Seq(Vocab)] /\ Even
      /\ Counted /\ Closed
  BY DEF BeamInv, Types, RankInv
<1>2. /\ pc = "select" /\ run' = run
      /\ pc' = IF \/ \A row \in Rows : finished'[row]
                  \/ Len(tokens'[1]) = run.max_new_tokens
               THEN "rank" ELSE "forward"
  BY DEF Select
<1>3. PICK parents \in [Rows -> Rows], next \in [Rows -> Vocab] :
        Moves(parents, next)
  BY <1>1, SelectIs
<1>4. PICK n \in Nat : n = Length /\ \A row \in Rows : Len(tokens[row]) = n
  BY <1>1, HypIs, RowFacts DEF Length, Even, BeamInv
<1>5. Rows' = Rows /\ M' = M
  BY <1>2 DEF Rows, M, MaxCost
<1>6. ASSUME NEW row \in Rows
      PROVE  \E t \in Seq(Vocab), e \in Vocab, parent \in Rows :
               /\ t = tokens[parent] /\ e = next[row] /\ parent = parents[row]
               /\ Len(t) = n /\ tokens'[row] = Append(t, e)
               /\ Len(tokens'[row]) = n + 1
  <2>1. PICK t \in Seq(Vocab), e \in Vocab, parent \in Rows :
          t = tokens[parent] /\ e = next[row] /\ parent = parents[row]
    BY <1>1
  <2>2. tokens'[row] = Append(t, e)
    BY <1>3, <2>1 DEF Moves
  <2>3. Len(t) = n
    BY <1>4, <2>1
  <2> QED
    BY <2>1, <2>2, <2>3, AppendProperties
<1>7. Length' = n + 1
  BY <1>1, <1>6, RowFacts DEF Length
<1>8. ASSUME NEW row \in Rows
      PROVE  /\ scores'[row] # NegInf /\ scores'[row] \in Int
             /\ -((n + 1) * M) <= scores'[row] /\ scores'[row] <= 0
             /\ scores[parents[row]] # NegInf
             /\ run.eos \in Range(tokens[parents[row]]) => next[row] = run.eos
  <2>1. PICK t \in Seq(Vocab), e \in Vocab, parent \in Rows :
          t = tokens[parent] /\ e = next[row] /\ parent = parents[row]
    BY <1>6
  <2>2. PICK score : score = scores'[row]
    OBVIOUS
  <2>3. PICK charge : charge = Charge(GroupOf(parent), tokens[parent], e)
    OBVIOUS
  <2>4. score = Plus(scores[parent], logProbs[parent][e])
    BY <1>3, <2>1, <2>2 DEF Moves
  <2>5. score # NegInf
    <3>1. PICK s \in Picks(GroupOf(row)), i \in 1 .. Beams :
            scores'[row] = Candidate(GroupOf(row), s[i])
      BY <1>3 DEF Moves, Taken
    <3>2. GroupOf(row) \in Groups
      BY <1>1, RowFacts
    <3>3. Candidate(GroupOf(row), s[i]) # NegInf
      BY <1>2, <3>2, PossiblePicks
    <3> QED
      BY <2>2, <3>1, <3>3
  <2>6. /\ score # NegInf <=> scores[parent] # NegInf /\ charge # NegInf
        /\ score \in Int /\ score >= NegInf
        /\ score # NegInf => -((Length + 1) * M) <= score /\ score <= 0
    BY <1>2, <2>3, <2>4, GoesOn
  <2>7. run.eos \in Range(t) => e = run.eos
    <3>1. GroupOf(parent) \in Groups
      BY <1>1, RowFacts
    <3>2. run.eos \in Range(t) =>
            (Charge(GroupOf(parent), t, e) # NegInf <=> e = run.eos)
      BY <1>1, <3>1, ChargeIs
    <3> QED
      BY <2>1, <2>3, <2>5, <2>6, <3>2
  <2> QED
    BY <1>4, <2>1, <2>2, <2>5, <2>6, <2>7
<1>9. Counted'
  <2>1. PICK max \in Nat : max = run.max_new_tokens
    BY <1>1, BeamAssumption
  <2>2. n < max
    BY <1>1, <1>2, <1>4, <2>1 DEF Counted
  <2>3. n + 1 <= max /\ n + 1 > 0 /\ (n + 1 # max => n + 1 < max)
    BY <2>2
  <2>4. pc' \in {"forward", "rank"} /\ (pc' = "forward" => n + 1 # max)
    BY <1>2, <1>7, <2>1 DEF Length
  <2> QED
    BY <1>2, <1>7, <2>1, <2>3, <2>4 DEF Counted
<1>10. Bounded' /\ Alive'
  <2>1. n + 1 # 0
    OBVIOUS
  <2>2. Alive'
    BY <1>5, <1>7, <1>8, <2>1 DEF Alive, NegInf
  <2>3. Bounded'
    BY <1>5, <1>7, <1>8 DEF Bounded
  <2> QED
    BY <2>2, <2>3
<1>11. Closed'
  <2> SUFFICES ASSUME NEW row \in Rows, NEW i \in 1 .. n + 1,
                      NEW j \in 1 .. n + 1, i < j, tokens'[row][i] = run.eos
               PROVE  tokens'[row][j] = run.eos
    BY <1>2, <1>5, <1>7 DEF Closed
  <2>1. PICK t \in Seq(Vocab), e \in Vocab, parent \in Rows :
          /\ t = tokens[parent] /\ e = next[row] /\ parent = parents[row]
          /\ Len(t) = n /\ tokens'[row] = Append(t, e)
    BY <1>6
  <2>2. /\ \A k \in 1 .. n : Append(t, e)[k] = t[k]
        /\ Append(t, e)[n + 1] = e
    <3>1. /\ \A k \in 1 .. Len(t) : Append(t, e)[k] = t[k]
          /\ Append(t, e)[Len(t) + 1] = e
      BY ONLY AppendProperties, t \in Seq(Vocab), e \in Vocab
    <3>2. Len(t) = n
      BY <2>1
    <3> QED
      BY ONLY <3>1, <3>2
  <2>3. i \in 1 .. n /\ t[i] = run.eos
    BY <2>1, <2>2
  <2>4. /\ scores[parent] # NegInf
        /\ run.eos \in Range(t) => e = run.eos
    BY <1>8, <2>1
  <2>5. CASE j = n + 1
    <3>1. run.eos \in Range(t)
      BY <2>1, <2>3 DEF Range
    <3> QED
      BY <2>1, <2>2, <2>4, <2>5, <3>1
  <2>6. CASE j # n + 1
    <3>1. j \in 1 .. n
      BY <2>6
    <3>2. t[j] = run.eos
      BY <1>1, <1>4, <2>1, <2>3, <2>4, <3>1 DEF Closed
    <3> QED
      BY <2>1, <2>2, <3>1, <3>2
  <2> QED
    BY <2>5, <2>6
<1>12. Answer'
  BY <1>2 DEF Answer
<1> QED
  BY <1>9, <1>10, <1>11, <1>12 DEF RankInv

LEMMA QuietRank ==
  BeamInv /\ RankInv /\ (Finish \/ UNCHANGED vars) => RankInv'
<1> SUFFICES ASSUME BeamInv, RankInv, Finish \/ UNCHANGED vars PROVE RankInv'
  OBVIOUS
<1>1. /\ run' = run /\ tokens' = tokens /\ scores' = scores
      /\ pc' = pc \/ (pc = "rank" /\ pc' = "done")
  BY DEF Finish, vars
<1>2. /\ Rows' = Rows /\ Length' = Length /\ M' = M /\ Groups' = Groups
      /\ InitScores' = InitScores
  BY <1>1 DEF Rows, Length, M, InitScores, MaxCost, Groups
<1>3. Counted /\ Bounded /\ Alive /\ Closed /\ Answer
  BY DEF RankInv
<1>4. Counted'
  BY <1>1, <1>2, <1>3 DEF Counted
<1>5. Bounded'
  BY <1>1, <1>2, <1>3 DEF Bounded
<1>6. Alive'
  BY <1>1, <1>2, <1>3 DEF Alive
<1>7. Closed'
  BY <1>1, <1>2, <1>3 DEF Closed
<1>8. /\ \A s : Cut(s)' = Cut(s)
      /\ \A g : RowsOf(g)' = RowsOf(g)
      /\ \A row : Rank(row)' = Rank(row)
  <2>1. \A s : Cut(s)' = Cut(s)
    BY <1>1 DEF Cut
  <2>2. \A g : RowsOf(g)' = RowsOf(g)
    BY <1>1, <1>2 DEF RowsOf, GroupOf
  <2>3. \A row : Weight(row)' = Weight(row)
    BY <1>1, <2>1 DEF Weight
  <2>4. \A a, b : Above(a, b)' = Above(a, b)
    BY <1>1, <2>3 DEF Above
  <2>5. \A row : GroupOf(row)' = GroupOf(row)
    BY <1>1 DEF GroupOf
  <2>6. \A row : Rank(row)' = Rank(row)
    BY <2>2, <2>4, <2>5 DEF Rank
  <2> QED
    BY <2>1, <2>2, <2>6
<1>9. Answer'
  <2>1. CASE Finish
    <3> SUFFICES ASSUME NEW g \in Groups, NEW i \in 1 .. run.returns
                 PROVE  \E row \in RowsOf(g) :
                          Rank(row) = i /\ result'[g][i] = Cut(tokens[row])
      BY <1>1, <1>2, <1>8 DEF Answer
    <3>1. pc = "rank" /\ Length # 0 /\ run \in Runs
      BY <1>3, <2>1 DEF Finish, Counted, BeamInv, Types
    <3>2. Scored
      BY <1>3, <3>1 DEF Scored
    <3>3. i \in 1 .. Beams
      <4>1. run.returns \in 1 .. Beams
        BY <3>1, BeamAssumption DEF Beams
      <4> QED
        BY <3>1, <4>1, Arguments
    <3>4. \E row \in RowsOf(g) : Rank(row) = i
      BY <3>2, <3>3, Ranks
    <3>5. PICK row : row = CHOOSE x \in RowsOf(g) : Rank(x) = i
      OBVIOUS
    <3>6. row \in RowsOf(g) /\ Rank(row) = i
      BY <3>4, <3>5
    <3>7. result'[g][i] = Cut(tokens[row])
      BY <2>1, <3>5 DEF Finish
    <3> QED
      BY <3>6, <3>7
  <2>2. CASE UNCHANGED vars
    BY <1>1, <1>2, <1>3, <1>8, <2>2 DEF Answer, vars
  <2> QED
    BY <2>1, <2>2
<1> QED
  BY <1>4, <1>5, <1>6, <1>7, <1>9 DEF RankInv

LEMMA RankAlways == Spec => [](BeamInv /\ ScoreInv /\ RankInv)
<1>1. BeamInv /\ ScoreInv /\ RankInv /\ [Next]_vars => RankInv'
  BY ForwardRank, SelectRank, QuietRank DEF Next
<1> QED
  BY <1>1, RankStart, BeamAlways, ScoresAlways, PTL DEF Spec

\* The answer to a prompt is its best hypotheses by the penalised score, each
\* cut at its end marker: a row that is left out ranks above none of them, for
\* any prompts, number of beams, penalty, end marker and costs, whether the
\* beams were taken in order or sampled.
THEOREM BestAreReturned == Spec => []BestReturned
<1>1. BeamInv /\ ScoreInv /\ RankInv => BestReturned
  <2> SUFFICES ASSUME BeamInv, ScoreInv, RankInv, pc = "done",
                      NEW g \in Groups, NEW i \in 1 .. run.returns
               PROVE  /\ \/ Len(result[g][i]) = Len(tokens[1])
                         \/ Last(result[g][i]) = run.eos
                      /\ \A row \in RowsOf(g) :
                           \/ \E j \in 1 .. run.returns :
                                result[g][j] = Cut(tokens[row])
                           \/ ~\E r \in RowsOf(g) :
                                  /\ Cut(tokens[r]) = result[g][i]
                                  /\ Above(row, r)
    BY DEF BestReturned
  <2>1. /\ Counted /\ Bounded /\ Alive /\ Closed
        /\ \A j \in 1 .. run.returns : \E row \in RowsOf(g) :
             Rank(row) = j /\ result[g][j] = Cut(tokens[row])
    BY DEF RankInv, Answer
  <2>2. Scored /\ run \in Runs
    BY <2>1 DEF Scored, Counted, BeamInv, Types
  <2>3. PICK best \in RowsOf(g) :
          Rank(best) = i /\ result[g][i] = Cut(tokens[best])
    BY <2>1
  <2>4. \/ Len(result[g][i]) = Len(tokens[1])
        \/ Last(result[g][i]) = run.eos
    <3>1. PICK n \in Nat \ {0}, t \in Seq(Vocab) :
            /\ n = Length /\ t = tokens[best] /\ Len(t) = n
      BY <2>2, ScoredIs DEF RowsOf
    <3>2. PICK k \in 1 .. n :
            /\ Len(Cut(t)) = k /\ \A x \in 1 .. k : Cut(t)[x] = t[x]
            /\ k = n \/ t[k] = run.eos
      BY <2>2, <3>1, CutIs
    <3>3. Cut(t)[k] = t[k]
      BY <3>2
    <3> QED
      BY <2>3, <3>1, <3>2, <3>3 DEF Last, Length
  <2>5. ASSUME NEW row \in RowsOf(g), NEW r \in RowsOf(g),
               Cut(tokens[r]) = result[g][i], Above(row, r)
        PROVE  \E j \in 1 .. run.returns : result[g][j] = Cut(tokens[row])
    <3>1. \A x : Above(x, r) <=> Above(x, best)
      BY <2>1, <2>2, <2>3, <2>5, SameCut
    <3>2. Rank(row) < Rank(best) /\ Rank(row) \in 1 .. Beams
      BY <2>2, <2>5, <3>1, Ranks
    <3>3. Rank(row) \in 1 .. run.returns
      <4>1. run.returns \in Nat /\ Beams \in Nat
        <5>1. run.returns \in 1 .. Beams
          BY <2>2, BeamAssumption DEF Beams
        <5> QED
          BY <2>2, <5>1, Arguments
      <4>2. PICK k \in Nat, n \in Nat : k = Rank(row) /\ n = run.returns /\ k >= 1
        BY <3>2, <4>1
      <4>3. k < i /\ i \in 1 .. n
        BY <2>3, <3>2, <4>2
      <4> QED
        BY <4>2, <4>3
    <3>4. PICK other \in RowsOf(g) :
            Rank(other) = Rank(row) /\ result[g][Rank(row)] = Cut(tokens[other])
      BY <2>1, <3>3
    <3>5. other = row
      BY <2>2, <3>4, Ranks
    <3> QED
      BY <3>3, <3>4, <3>5
  <2> QED
    BY <2>4, <2>5
<1> QED
  BY <1>1, RankAlways, PTL

=============================================================================
