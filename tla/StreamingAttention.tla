------------------------- MODULE StreamingAttention -------------------------
(***************************************************************************)
(* pager_hf/streaming_attention.py and its callers: one decode step of one *)
(* layer, as a sequence of kernel launches that fold chunks of columns     *)
(* into the online-softmax state (m, l, acc) of every query head.          *)
(*                                                                         *)
(* The program of a launch works on a tile of rows.  It loads its state,   *)
(* folds, and stores; programs of a launch run in any order, launches one  *)
(* after the other.  Rows of a tile past n_rep have the addresses of the   *)
(* next program's rows.                                                    *)
(*                                                                         *)
(* Numbers: scores are small naturals, exp(s - m) is 2^(s - m), and every  *)
(* weight is kept times 2^TopScore, which makes the arithmetic exact.  The *)
(* value vector of column c is the c-th unit vector, so acc is a function  *)
(* from columns to weights.  NaN is absorbing: a very negative number.     *)
(*                                                                         *)
(* The callers ("mode"): PagedModel's layer forward (the rows of a batch,  *)
(* left-padded), batched_decode_step (one row per session), and for one    *)
(* row the experiments in bench/: kernels with one program per head, in    *)
(* one launch, by groups or by groups and tail, and the prototype that     *)
(* folds chunks in any order.                                              *)
(***************************************************************************)
EXTENDS Integers, Sequences, FiniteSets, FiniteSetsExt, SequencesExt

CONSTANTS
  Modes,           \* the callers that are checked
  Rows,            \* rows of the batch, or sessions
  KVHeads, NRep,   \* key/value heads, and query heads per key/value head
  MTile,           \* _M_TILE
  BlockKV,         \* _BLOCK_KV
  TokensPerBlock,
  MaxBlocks, MaxTail, MaxPad,  \* bounds on the inputs
  GroupSizes,      \* values of streaming_group_size_blocks
  Windows,         \* values of sliding_window, 0 for none
  Tables           \* the score tables

TopScore == Max(UNION {ToSet(t) : t \in Tables})

\* _validate_n_rep; a table is a nonempty sequence of naturals.
ASSUME StreamingAssumption ==
  /\ Modes \subseteq {"layer", "sessions", "one_shot", "grouped", "mass",
                     "full_loop", "chunks", "one_layer"}
  /\ NRep \in 1 .. MTile /\ MTile \in Nat
  /\ \A n \in {Rows, KVHeads, BlockKV, TokensPerBlock} : n \in Nat \ {0}
  /\ \A n \in {MaxBlocks, MaxTail, MaxPad} : n \in Nat
  /\ GroupSizes \subseteq Nat \ {0} /\ Windows \subseteq Nat
  /\ TopScore \in Nat /\ Tables \subseteq Seq(0 .. TopScore) \ {<<>>}

VARIABLES
  in,      \* the call's input
  todo,    \* the launches not started
  launch,  \* the launch that runs, or Idle
  pc,      \* per program of a launch: waiting, folded, stored
  tile,    \* per program: its rows after the fold
  mem,     \* m, l and acc of every (row, query head)
  mass     \* block_mass of every (row, query head)

vars == <<in, todo, launch, pc, tile, mem, mass>>

H == KVHeads * NRep
RowIds == 0 .. Rows - 1
Addresses == 0 .. Rows * H - 1
Tiled == in.mode \in {"layer", "sessions"}
PerHead == in.mode \in {"one_shot", "grouped", "mass", "full_loop"}
MaxCols == MaxBlocks * TokensPerBlock + MaxTail + 1
Columns == 0 .. MaxCols - 1
NegInf == -1
NaN == -(2 ^ 24)
Idle == [kernel |-> "idle"]

-----------------------------------------------------------------------------
(* The input: columns, padding, validity.                                  *)

NumBlocks == Max({in.nb[b] : b \in RowIds})
Full == NumBlocks * TokensPerBlock
Total == Full + in.tail + 1

\* The front columns of a row that hold no token of its own.
pad_blocks(b) == NumBlocks - in.nb[b]
Padding(b) ==
  IF in.mode = "sessions" THEN pad_blocks(b) * TokensPerBlock ELSE in.pad[b]

\* q.k.  A session's padding block is a block of zeros.
ZeroBlock(b, c) == in.mode = "sessions" /\ c < Padding(b)
Score(a, c) ==
  IF ZeroBlock(a \div H, c) THEN 0 ELSE in.table[1 + ((a + c) % Len(in.table))]

\* The mask of a sliding-window layer, from the largest position of the rows.
WindowValid(c) ==
  \/ in.window = 0
  \/ c > Total - 1 - Min({in.pad[b] : b \in RowIds}) - in.window

RowValidMutant(b, c) == WindowValid(c)
\* The padding mask of PagedModel's layer forward.
RowValid(b, c) == c >= in.pad[b] /\ WindowValid(c)

\* The valid mask gather_group builds; the tail is all ones.
GatherValid(b, c) ==
  \/ c >= Full
  \/ c \div TokensPerBlock - pad_blocks(b) \in 0 .. in.nb[b] - 1

Valid(b, c) ==
  CASE in.mode = "layer" -> RowValid(b, c)
    [] in.mode = "sessions" -> GatherValid(b, c)
    [] OTHER -> TRUE

-----------------------------------------------------------------------------
(* Folding the columns of one chunk into the state of one row.             *)

\* 2^n; the sum of f[c] over the columns c of S.
Pow2(n) == LET p[i \in 0 .. n] == IF i = 0 THEN 1 ELSE 2 * p[i - 1] IN p[n]

SumUpTo(f, n) ==
  LET s[i \in 0 .. n] == IF i = 0 THEN 0 ELSE s[i - 1] + f[i - 1] IN s[n]
SumOver(f, S) ==
  SumUpTo([c \in Columns |-> IF c \in S THEN f[c] ELSE 0], MaxCols)

\* streaming_attention_state_init.
Fresh == [m |-> NegInf, l |-> 0, acc |-> [c \in Columns |-> 0]]

Exp(s, m) ==
  IF s = NegInf THEN (IF m = NegInf THEN NaN ELSE 0)
  ELSE IF m = NegInf THEN NaN ELSE Pow2(TopScore + s - m)

\* x * exp(m - mNew), for an x that is a sum of exp(s - m).
Rescale(x, m, mNew) ==
  CASE mNew = NegInf -> NaN
    [] mNew # NegInf /\ m = NegInf -> 0
    [] OTHER -> (x * Pow2(m)) \div Pow2(mNew)

\* One tile of columns: the new maximum, the rescaled sums, the new terms.
\* is_empty_so_far is there only in the guarded kernels.
Online(st, sc, V, guarded) ==
  LET mNew == Max({st.m} \cup {sc[c] : c \in DOMAIN sc})
      empty == guarded /\ mNew = NegInf
      p == [c \in DOMAIN sc |-> IF empty THEN 0 ELSE Exp(sc[c], mNew)]
      kept(x) == IF empty THEN 0 ELSE Rescale(x, st.m, mNew)
  IN [m |-> mNew, l |-> kept(st.l) + SumOver(p, DOMAIN sc),
      acc |-> [c \in Columns |-> kept(st.acc[c]) +
                 (IF c \in V \cap DOMAIN sc THEN p[c] ELSE 0)]]

\* Pass 2, with m final.
FoldFixed(st, sc, V) ==
  [st EXCEPT !.acc = [c \in Columns |->
     st.acc[c] + (IF c \in V \cap DOMAIN sc THEN Exp(sc[c], st.m) ELSE 0)]]

\* The tiles of a chunk, of size n, from its first column.
TileOf(cols, n, i) == {c \in cols : (c - Min(cols)) \div n = i - 1}
NumTiles(cols, n) == (Cardinality(cols) + n - 1) \div n

\* The loop of a kernel: the state st of a row, the scores sc of a chunk, in
\* tiles of n columns, and the columns V whose value is not masked.
OnlineLoop(st, sc, n, V, guarded) ==
  LET s[i \in 0 .. NumTiles(DOMAIN sc, n)] ==
        IF i = 0 THEN st
        ELSE Online(s[i - 1], Restrict(sc, TileOf(DOMAIN sc, n, i)), V, guarded)
  IN  s[NumTiles(DOMAIN sc, n)]

FixedLoop(st, sc, n, V) ==
  LET s[i \in 0 .. NumTiles(DOMAIN sc, n)] ==
        IF i = 0 THEN st
        ELSE FoldFixed(s[i - 1], Restrict(sc, TileOf(DOMAIN sc, n, i)), V)
  IN  s[NumTiles(DOMAIN sc, n)]

_decode_attention_step_kernel(st, sc, V) ==
  OnlineLoop(st, sc, BlockKV, V, TRUE)

\* Of the fold, m and l are kept.
Stats(st, folded) == [st EXCEPT !.m = folded.m, !.l = folded.l]
_decode_attention_stats_kernel(st, sc) ==
  Stats(st, OnlineLoop(st, sc, BlockKV, {}, TRUE))

\* The mass of a tile is the numerator; the kernel divides it by l.
_decode_attention_accumulate_kernel(st, sc, V) ==
  [st |-> FixedLoop(st, sc, TokensPerBlock, V),
   mass |-> [i \in 1 .. NumTiles(DOMAIN sc, TokensPerBlock) |->
      SumOver([c \in DOMAIN sc |-> Exp(sc[c], st.m)],
              TileOf(DOMAIN sc, TokensPerBlock, i))]]

_decode_attention_fold_fixed_kernel(st, sc, V) ==
  FixedLoop(st, sc, BlockKV, V)

\* bench/: the kernels of one program per head have no mask and no guard.
decode_attention_kernel(sc) ==
  OnlineLoop(Fresh, sc, BlockKV, Columns, FALSE)
decode_attention_step_kernel(st, sc) ==
  OnlineLoop(st, sc, BlockKV, Columns, FALSE)
decode_attention_stats_kernel(st, sc) ==
  Stats(st, OnlineLoop(st, sc, BlockKV, {}, FALSE))
decode_attention_accumulate_kernel(st, sc) ==
  _decode_attention_accumulate_kernel(st, sc, Columns)
\* One chunk of the prototype, which has no inner tiles.
prototype_chunk(st, sc) == Online(st, sc, Columns, FALSE)

-----------------------------------------------------------------------------
(* The launches of a call.                                                 *)

streaming_attention_step(cols, active) ==
  [kernel |-> "step", cols |-> cols, active |-> active, block |-> 0]
streaming_attention_stats_step(cols, active) ==
  [kernel |-> "stats", cols |-> cols, active |-> active, block |-> 0]
streaming_attention_accumulate_step(cols, active, block) ==
  [kernel |-> "accumulate", cols |-> cols, active |-> active, block |-> block]
streaming_attention_fold_fixed_step(cols) ==
  [kernel |-> "fold", cols |-> cols, active |-> RowIds, block |-> 0]

TailColumns == Full .. Total - 1
Groups == (NumBlocks + in.group - 1) \div in.group
Group(i) ==
  (i - 1) * in.group * TokensPerBlock
    .. Min({i * in.group, NumBlocks}) * TokensPerBlock - 1

\* The sessions whose padding ends before group i does.
group_row_active(i) ==
  {b \in RowIds : pad_blocks(b) < Min({i * in.group, NumBlocks})}

\* The groups, then the tail; with scores, first the statistics of all.
Passes(active) ==
  IF in.twoPass
  THEN [i \in 1 .. Groups |->
          streaming_attention_stats_step(Group(i), active[i])]
       \o <<streaming_attention_stats_step(TailColumns, RowIds)>>
       \o [i \in 1 .. Groups |-> streaming_attention_accumulate_step(
             Group(i), active[i], (i - 1) * in.group)]
       \o <<streaming_attention_fold_fixed_step(TailColumns)>>
  ELSE [i \in 1 .. Groups |-> streaming_attention_step(Group(i), active[i])]
       \o <<streaming_attention_step(TailColumns, RowIds)>>

LayerForward == Passes([i \in 1 .. Groups |-> RowIds])
SessionsForward == Passes([i \in 1 .. Groups |-> group_row_active(i)])

\* The experiments: one launch, chunks of a group's length over all columns,
\* groups and tail, or chunks of one block.
Chunk(i, n) == {c \in 0 .. Total - 1 : c \div n = i - 1}
Chunks(n) == 1 .. (Total + n - 1) \div n
GroupLen == in.group * TokensPerBlock

build_triton_streaming_forward ==
  <<[kernel |-> "one_shot", cols |-> 0 .. Total - 1, active |-> {0},
     block |-> 0]>>
run_grouped_case ==
  [i \in Chunks(GroupLen) |->
     streaming_attention_step(Chunk(i, GroupLen), {0})]
run_mass_case ==
  [i \in Chunks(GroupLen) |->
     streaming_attention_stats_step(Chunk(i, GroupLen), {0})]
  \o [i \in Chunks(GroupLen) |-> streaming_attention_accumulate_step(
         Chunk(i, GroupLen), {0}, ((i - 1) * GroupLen) \div TokensPerBlock)]
build_layer_forward ==
  [i \in 1 .. Groups |-> streaming_attention_step(Group(i), {0})]
  \o <<streaming_attention_step(TailColumns, {0})>>
make_random_chunks ==
  [i \in Chunks(TokensPerBlock) |->
     streaming_attention_step(Chunk(i, TokensPerBlock), {0})]
\* The blocks and the new token, without the tail.
build_streaming_forward ==
  [i \in 1 .. NumBlocks |->
     streaming_attention_step(Chunk(i, TokensPerBlock), {0})]
  \o <<streaming_attention_step({Total - 1}, {0})>>

Plan ==
  CASE in.mode = "layer" -> LayerForward
    [] in.mode = "sessions" -> SessionsForward
    [] in.mode = "one_shot" -> build_triton_streaming_forward
    [] in.mode = "grouped" -> run_grouped_case
    [] in.mode = "mass" -> run_mass_case
    [] in.mode = "full_loop" -> build_layer_forward
    [] in.mode = "chunks" -> make_random_chunks
    [] in.mode = "one_layer" -> build_streaming_forward

-----------------------------------------------------------------------------
(* The state machine.                                                      *)

Inputs ==
  [mode : Modes,
   nb : [RowIds -> 0 .. MaxBlocks], tail : 0 .. MaxTail,
   pad : [RowIds -> 0 .. MaxPad], group : GroupSizes, window : Windows,
   twoPass : BOOLEAN, table : Tables]

\* _validate_left_padded: every row of a batch has a token, and any of them may
\* be padded; sessions have blocks of their own, and no window; the experiments
\* have neither.
Possible(i) ==
  LET same == \A b \in RowIds : i.nb[b] = i.nb[0]
      plain == i.window = 0 /\ \A b \in RowIds : i.pad[b] = 0
  IN CASE i.mode = "layer" ->
            /\ same
            /\ \A b \in RowIds : i.pad[b] <= i.nb[0] * TokensPerBlock + i.tail
       [] i.mode = "sessions" -> plain
       [] OTHER -> same /\ plain /\ (i.twoPass <=> i.mode = "mass")

\* The grid, and the address full_pid of row r of the tile of program p.
Programs ==
  CASE Tiled -> 0 .. Rows * KVHeads - 1
    [] PerHead -> 0 .. H - 1
    [] OTHER -> {0}
RowOf(p) == IF Tiled THEN p \div KVHeads ELSE 0
Address(p, r) ==
  CASE Tiled -> RowOf(p) * H + (p % KVHeads) * NRep + r
    [] PerHead -> p
    [] OTHER -> r
TileRows ==
  CASE Tiled -> 0 .. MTile - 1 [] PerHead -> {0} [] OTHER -> 0 .. H - 1
row_maskMutant(r) == TRUE
row_mask(r) == Tiled => r < NRep

Init ==
  /\ in \in {i \in Inputs : Possible(i)}
  /\ todo = Plan
  /\ launch = Idle
  /\ pc = [p \in Programs |-> "stored"]
  /\ tile = [p \in Programs |-> <<>>]
  /\ mem = [a \in Addresses |-> Fresh]
  /\ mass = [a \in Addresses |-> [k \in 0 .. MaxBlocks + MaxTail |-> 0]]

\* The launch of the head of todo: the programs are those of its grid.  The
\* chunks of the prototype may come in any order.
Launch ==
  /\ \A p \in Programs : pc[p] = "stored"
  /\ \E i \in DOMAIN todo :
       /\ Tiled \/ PerHead => i = 1
       /\ launch' = todo[i]
       /\ todo' = RemoveAt(todo, i)
  /\ pc' = [p \in Programs |-> "waiting"]
  /\ UNCHANGED <<in, tile, mem, mass>>

InTile(p, r) == row_mask(r) /\ Address(p, r) \in Addresses

\* The masked rows of a tile: q is 0, so are their scores.
Scores(p, r) ==
  [c \in {c \in launch.cols : RowOf(p) \in launch.active} |->
     IF ~Valid(RowOf(p), c) THEN NegInf
     ELSE IF InTile(p, r) THEN Score(Address(p, r), c) ELSE 0]
Values(p) == {c \in launch.cols : ~ZeroBlock(RowOf(p), c)}

Loaded(p, r) ==
  IF InTile(p, r) THEN mem[Address(p, r)] ELSE Fresh

Folded(p, r) ==
  LET st == Loaded(p, r)
      sc == Scores(p, r)
      V == Values(p)
      k == launch.kernel
      alone(s) == [st |-> s, mass |-> <<>>]
  IN CASE k = "one_shot" -> alone(decode_attention_kernel(sc))
       [] k = "step" /\ Tiled ->
            alone(_decode_attention_step_kernel(st, sc, V))
       [] k = "step" /\ PerHead -> alone(decode_attention_step_kernel(st, sc))
       [] k = "step" /\ ~Tiled /\ ~PerHead -> alone(prototype_chunk(st, sc))
       [] k = "stats" /\ Tiled -> alone(_decode_attention_stats_kernel(st, sc))
       [] k = "stats" /\ PerHead ->
            alone(decode_attention_stats_kernel(st, sc))
       [] k = "accumulate" /\ Tiled ->
            _decode_attention_accumulate_kernel(st, sc, V)
       [] k = "accumulate" /\ PerHead ->
            decode_attention_accumulate_kernel(st, sc)
       [] k = "fold" -> alone(_decode_attention_fold_fixed_kernel(st, sc, V))

\* A program loads its tile and folds the chunk into it.
Fold(p) ==
  /\ pc[p] = "waiting"
  /\ pc' = [pc EXCEPT ![p] = "folded"]
  /\ tile' = [tile EXCEPT ![p] = [r \in TileRows |-> Folded(p, r)]]
  /\ UNCHANGED <<in, todo, launch, mem, mass>>

\* It stores the rows of the mask.  The last one ends the launch.
Store(p) ==
  LET rows == {r \in TileRows : InTile(p, r)}
      at(a) == CHOOSE r \in rows : Address(p, r) = a
      stored == {Address(p, r) : r \in rows}
      massOf(a) == DOMAIN tile[p][at(a)].mass
      last == \A q \in Programs \ {p} : pc[q] = "stored"
  IN /\ pc[p] = "folded"
     /\ pc' = [pc EXCEPT ![p] = "stored"]
     /\ mem' = [a \in Addresses |->
                  IF a \in stored THEN tile[p][at(a)].st ELSE mem[a]]
     /\ mass' = [a \in Addresses |-> [k \in DOMAIN mass[a] |->
                  IF a \in stored /\ k + 1 - launch.block \in massOf(a)
                  THEN tile[p][at(a)].mass[k + 1 - launch.block]
                  ELSE mass[a][k]]]
     /\ tile' = [tile EXCEPT ![p] = <<>>]
     /\ launch' = IF last THEN Idle ELSE launch
     /\ UNCHANGED <<in, todo>>

Next == Launch \/ \E p \in Programs : Fold(p) \/ Store(p)

Spec == Init /\ [][Next]_vars

\* What the model keeps of _mass_accum of a row, per head: its slice of
\* block_mass, by its own block ids.
SessionMassMutant(a) == [k \in 0 .. in.nb[a \div H] - 1 |-> mass[a][k]]
SessionMass(a) ==
  [k \in 0 .. in.nb[a \div H] - 1 |->
     mass[a][k + IF in.mode = "sessions" THEN pad_blocks(a \div H) ELSE 0]]

-----------------------------------------------------------------------------
(* Properties.                                                             *)

InPlay == {a \in Addresses : ~Tiled => a < H}
Quiet == launch = Idle

\* The reference: row b attends to its own tokens, those of the window.
Attends(b, c) ==
  /\ c \in Padding(b) .. Total - 1
  /\ in.window > 0 => Total - 1 - c < in.window
Seen(a, cols) == {c \in cols : Attends(a \div H, c)}
RefMax(a, cols) == Max({NegInf} \cup {Score(a, c) : c \in Seen(a, cols)})
RefWeight(a, c, m) == Pow2(TopScore + Score(a, c) - m)

\* Every register and every cell of memory has its type, which excludes NaN.
TypeOK ==
  /\ in \in Inputs
  /\ launch.kernel \in
       {"idle", "one_shot", "step", "stats", "accumulate", "fold"}
  /\ pc \in [Programs -> {"waiting", "folded", "stored"}]
  /\ \A p \in Programs : (pc[p] = "folded") = (tile[p] # <<>>)
  /\ \A a \in Addresses :
       /\ mem[a].m \in NegInf .. TopScore /\ mem[a].l \in Nat
       /\ mem[a].acc \in [Columns -> Nat]

\* The largest position is that of the newest column, so that positions and
\* columns are counted from one origin.
WindowExact == in.window = 0 \/ \E b \in RowIds : in.pad[b] = 0

\* When the call ends, acc / l is the softmax over the tokens the row attends
\* to: the groups and the tail cover them all, and nothing else.  A layer with
\* a window is excepted when every row of its batch is padded (WindowKept), and
\* so is the forward of one layer in bench/, which leaves the tail out.
OutputIsAttention ==
  Quiet /\ todo = <<>> /\ in.mode # "one_layer" /\ WindowExact =>
   \A a \in InPlay :
    LET all == Seen(a, Columns)
        W == [c \in all |-> RefWeight(a, c, RefMax(a, Columns))]
    IN /\ mem[a].l > 0
       /\ \A c \in Columns :
            mem[a].acc[c] * SumOver(W, all)
              = (IF c \in all THEN W[c] ELSE 0) * mem[a].l

\* The scores handed to the pager are by its own block ids: block k of a row
\* has the weight of the tokens the row attends to in its k-th own block, with
\* the same exception for windows.
MassPerBlock ==
  Quiet /\ todo = <<>> /\ in.twoPass /\ WindowExact => \A a \in InPlay :
    LET b == a \div H
        first == IF in.mode = "sessions" THEN Padding(b) ELSE 0
        block(k) == {c \in Columns : (c - first) \div TokensPerBlock = k}
        W == [c \in Seen(a, Columns) |-> RefWeight(a, c, mem[a].m)]
    IN \A k \in DOMAIN SessionMass(a) :
         SessionMass(a)[k] = SumOver(W, Seen(a, block(k)))

\* A step changes the state of one program's own rows only, though its tile
\* spans the next program's addresses.
Own(p) == {Address(p, r) : r \in {r \in TileRows : Tiled => r < NRep}}
OnlyOwnRows ==
  [][\E p \in Programs : \A a \in Addresses \ Own(p) :
       mem'[a] = mem[a] /\ mass'[a] = mass[a]]_vars
-----------------------------------------------------------------------------
(* What comments say                                                       *)

\* The comment on the window in PagedModel's layer forward: it excludes any
\* position further back than the window from every chunk.  The position is
\* compared with column indices, so it does not if all rows are padded.
WindowKept ==
  Quiet /\ todo = <<>> /\ in.window > 0 => \A a \in InPlay :
    \A c \in 0 .. Total - 1 :
      Total - 1 - c >= in.window => mem[a].acc[c] = 0
=============================================================================
