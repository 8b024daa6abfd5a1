----------------------------- MODULE BeamSearch -----------------------------
(***************************************************************************)
(* PagedModel.generate_beam_search (pager_hf/paged_model.py): for every    *)
(* prompt a group of rows, one hypothesis per row, whose KV history lives  *)
(* in the blocks of the store, on either tier, and in the tail.            *)
(*                                                                         *)
(* A KV entry is the token it was computed from.  A log-probability is the *)
(* negative of a small cost, a function of the tokens a row really attends *)
(* to (its cache without the padding, and the input) that the run fixes.   *)
(* torch.topk may order equal scores either way; sampling may pick any     *)
(* candidates that are possible (the rescaling of temperature, top_k and   *)
(* top_p is left out).                                                     *)
(*                                                                         *)
(* Definitions named ...Mutant are slips the properties must catch; none is *)
(* part of the specification.                                              *)
(***************************************************************************)
EXTENDS Integers, FiniteSets, SequencesExt

CONSTANTS
  Vocab,           \* the tokens
  NoEos,           \* eos_token_id is None
  TokensPerBlock,  \* tokens_per_block
  Runs             \* [prompts, num_beams, max_new_tokens, eos, sample,
                   \*  length_penalty, returns, costs]

\* 0 pads the prompts on the left; 1000 stands for an infinite cost.
Pad == 0
NegInf == -1000

\* The largest cost of a token: no sum of finite costs is infinite.
MaxCost(r) == (-NegInf - 1) \div r.max_new_tokens

\* _validate_left_padded; a prompt of one token has no prefix to prime.
LeftPadded(prompt) ==
  /\ Len(prompt) > 1
  /\ \E k \in 0 .. Len(prompt) - 1 :
       \A i \in DOMAIN prompt : prompt[i] = Pad <=> i <= k

ASSUME BeamAssumption ==
  /\ Vocab \subseteq Nat \ {Pad} /\ IsFiniteSet(Vocab) /\ NoEos \notin Vocab
  /\ TokensPerBlock \in Nat \ {0}
  /\ \A r \in Runs :
       /\ r.num_beams \in 1 .. Cardinality(Vocab)
       /\ r.returns \in 1 .. r.num_beams
       /\ r.max_new_tokens \in Nat \ {0} /\ r.length_penalty \in Nat
       /\ r.costs \in Seq(0 .. MaxCost(r)) \ {<<>>}
       /\ r.eos \in Vocab \cup {NoEos}
       /\ r.prompts \in Seq(Seq(Vocab \cup {Pad})) /\ r.prompts # <<>>
       /\ \A p, q \in DOMAIN r.prompts : Len(r.prompts[p]) = Len(r.prompts[q])
       /\ \A p \in DOMAIN r.prompts : LeftPadded(r.prompts[p])

VARIABLES
  run,       \* the call's arguments, and the costs the model answers with
  blocks,    \* per block of the store, the entries of each row
  onCpu,     \* the blocks on the CPU
  tail,      \* _tail_past: the entries of each row
  pads,      \* the leading zeros of each row of current_attention_mask
  input,     \* next_input_id
  logProbs,  \* log_probs: one cost per row and token, of the last forward
  tokens,    \* beam_tokens
  finished,  \* beam_finished
  scores,    \* beam_scores
  pc,        \* "forward", "select", "rank" or "done"
  result     \* per_prompt_results

vars == <<run, blocks, onCpu, tail, pads, input, logProbs, tokens, finished,
          scores, pc, result>>

Groups == DOMAIN run.prompts
Rows == 1 .. Len(run.prompts) * run.num_beams
GroupOf(row) == 1 + ((row - 1) \div run.num_beams)
RowsOf(g) == {row \in Rows : GroupOf(row) = g}
Prompt(row) == run.prompts[GroupOf(row)]

Plus(a, b) == IF NegInf \in {a, b} THEN NegInf ELSE a + b

\* What the model answers: the log-probability of token after context.
Slot(context, token) ==
  LET s[i \in 0 .. Len(context)] ==
        IF i = 0 THEN token ELSE 2 * s[i - 1] + context[i]
  IN  s[Len(context)]
LogProb(context, token) ==
  -run.costs[1 + (Slot(context, token) % Len(run.costs))]

InitScores ==
  [row \in Rows |->
     IF row % run.num_beams = 1 % run.num_beams THEN 0 ELSE NegInf]

\* Blocks and tail of a cache of n entries per row.
BlockOf(seqs, b) ==
  [row \in DOMAIN seqs |->
     SubSeq(seqs[row], (b - 1) * TokensPerBlock + 1, b * TokensPerBlock)]

Split(seqs, n) ==
  LET full == n \div TokensPerBlock IN
  [blocks |-> [b \in 1 .. full |-> BlockOf(seqs, b)],
   tail |-> [row \in DOMAIN seqs |->
               SubSeq(seqs[row], full * TokensPerBlock + 1, n)]]

\* _start_session on the repeated prompts: the prefix, all but the last token.
Init ==
  /\ run \in Runs
  /\ LET n == Len(run.prompts[1]) - 1
         primed == Split([row \in Rows |-> Front(Prompt(row))], n)
     IN  blocks = primed.blocks /\ tail = primed.tail
  /\ onCpu = {}
  /\ pads = [row \in Rows |->
               Cardinality({i \in DOMAIN Prompt(row) : Prompt(row)[i] = Pad})]
  /\ input = [row \in Rows |-> Last(Prompt(row))]
  /\ logProbs = <<>>
  /\ tokens = [row \in Rows |-> <<>>]
  /\ finished = [row \in Rows |-> FALSE]
  /\ scores = InitScores
  /\ pc = "forward"
  /\ result = <<>>

\* The entries of a row, block after block and then the tail.
History(row) ==
  [i \in 1 .. Len(blocks) * TokensPerBlock |->
     blocks[1 + ((i - 1) \div TokensPerBlock)][row]
           [1 + ((i - 1) % TokensPerBlock)]] \o tail[row]

\* What a row attends to: its mask hides the padding.
Context(row) ==
  SubSeq(History(row), pads[row] + 1, Len(History(row))) \o <<input[row]>>

\* A finished beam's end marker is charged like any token.
FrozenMutant(row, token) ==
  IF finished[row] /\ token # run.eos THEN NegInf
  ELSE LogProb(Context(row), token)

\* log_probs of a row; a finished beam may only repeat the end, at no cost.
Frozen(row, token) ==
  IF ~finished[row] THEN LogProb(Context(row), token)
  ELSE IF token = run.eos THEN 0 ELSE NegInf

\* _forward_step: the tail grows, a full one becomes a block, and the pager
\* places the blocks anew.
Forward ==
  /\ pc = "forward"
  /\ logProbs' = [row \in Rows |-> [token \in Vocab |-> Frozen(row, token)]]
  /\ LET grown == [row \in Rows |-> Append(tail[row], input[row])]
         new == Split(grown, Len(grown[1]))
     IN  blocks' = blocks \o new.blocks /\ tail' = new.tail
  /\ onCpu' \in SUBSET DOMAIN blocks'
  /\ pc' = "select"
  /\ UNCHANGED <<run, pads, input, tokens, finished, scores, result>>

\* global_parent_beams
Parent(g, pick) == (g - 1) * run.num_beams + pick[1]

\* Scored by the last token alone.
CandidateMutant(g, pick) ==
  logProbs[(g - 1) * run.num_beams + pick[1]][pick[2]]

\* candidate_scores: a pick is a local parent beam and a token.
Candidate(g, pick) ==
  Plus(scores[(g - 1) * run.num_beams + pick[1]],
       logProbs[(g - 1) * run.num_beams + pick[1]][pick[2]])

\* torch.topk, in order; or torch.multinomial without replacement, which picks
\* only possible candidates (num_beams <= len(vocab) leaves enough of them).
Picks(g) ==
  LET all == (1 .. run.num_beams) \X Vocab
      score == [pick \in all |-> Candidate(g, pick)]
  IN  {s \in [1 .. run.num_beams -> all] :
         /\ IsInjective(s)
         /\ IF run.sample THEN \A i \in DOMAIN s : score[s[i]] # NegInf
            ELSE /\ \A i, j \in DOMAIN s : i < j => score[s[i]] >= score[s[j]]
                 /\ \A c \in all \ Range(s) :
                      score[c] <= score[s[run.num_beams]]}

\* The blocks on the CPU keep their rows.
reorder_batch_rowsMutant(parents) ==
  [b \in DOMAIN blocks |->
     IF b \in onCpu THEN blocks[b]
     ELSE [row \in Rows |-> blocks[b][parents[row]]]]

\* Every block's rows, on whichever tier it is.
reorder_batch_rows(parents) ==
  [b \in DOMAIN blocks |-> [row \in Rows |-> blocks[b][parents[row]]]]

\* _reorder_batch: the blocks, then the tail.
_reorder_batch(parents) ==
  /\ blocks' = reorder_batch_rows(parents)
  /\ tail' = [row \in Rows |-> tail[parents[row]]]

\* The selection of every group, and the rows' histories after it.
Select ==
  /\ pc = "select"
  /\ \E choice \in {f \in [Groups -> UNION {Picks(g) : g \in Groups}] :
                      \A g \in Groups : f[g] \in Picks(g)} :
       LET pick == [row \in Rows |->
                      choice[GroupOf(row)][1 + ((row - 1) % run.num_beams)]]
           parents == [row \in Rows |-> Parent(GroupOf(row), pick[row])]
       IN  /\ tokens' = [row \in Rows |->
                           Append(tokens[parents[row]], pick[row][2])]
           /\ finished' = [row \in Rows |->
                             finished[parents[row]] \/ pick[row][2] = run.eos]
           /\ scores' = [row \in Rows |-> Candidate(GroupOf(row), pick[row])]
           /\ _reorder_batch(parents)
           /\ input' = [row \in Rows |-> pick[row][2]]
           /\ pads' = [row \in Rows |-> pads[parents[row]]]
  /\ pc' = IF \/ \A row \in Rows : finished'[row]
              \/ Len(tokens'[1]) = run.max_new_tokens
           THEN "rank" ELSE "forward"
  /\ logProbs' = <<>>
  /\ UNCHANGED <<run, onCpu, result>>

\* The end marker is cut off.
CutMutant(seq) ==
  IF run.eos \in Range(seq)
  THEN SubSeq(seq, 1, Min({i \in DOMAIN seq : seq[i] = run.eos}) - 1) ELSE seq

\* tokens[: tokens.index(eos_token_id) + 1]
Cut(seq) ==
  IF run.eos \in Range(seq)
  THEN SubSeq(seq, 1, Min({i \in DOMAIN seq : seq[i] = run.eos})) ELSE seq

\* len(tokens) ** length_penalty; normalized_score of row a is above row b's.
Power(b, n) == LET p[i \in 0 .. n] == IF i = 0 THEN 1 ELSE b * p[i - 1] IN p[n]
Weight(row) == Power(Len(Cut(tokens[row])), run.length_penalty)
Above(a, b) ==
  IF NegInf \in {scores[a], scores[b]} THEN scores[a] > scores[b]
  ELSE scores[a] * Weight(b) > scores[b] * Weight(a)

\* scored.sort(reverse=True) is stable.
Rank(row) ==
  1 + Cardinality({r \in RowsOf(GroupOf(row)) :
                     Above(r, row) \/ (r < row /\ ~Above(row, r))})

Finish ==
  /\ pc = "rank"
  /\ result' = [g \in Groups |-> [i \in 1 .. run.returns |->
       Cut(tokens[CHOOSE row \in RowsOf(g) : Rank(row) = i])]]
  /\ pc' = "done"
  /\ UNCHANGED <<run, blocks, onCpu, tail, pads, input, logProbs, tokens,
                 finished, scores>>

Next == Forward \/ Select \/ Finish

Spec == Init /\ [][Next]_vars
-----------------------------------------------------------------------------
BetweenSteps == pc \in {"forward", "rank", "done"}

TypeOK ==
  /\ run \in Runs
  /\ pc \in {"forward", "select", "rank", "done"}
  /\ onCpu \subseteq DOMAIN blocks
  /\ \A b \in DOMAIN blocks, row \in Rows :
       Len(blocks[b][row]) = TokensPerBlock
  /\ \A row \in Rows :
       /\ Len(tail[row]) = Len(tail[1]) /\ Len(tail[row]) < TokensPerBlock
       /\ pads[row] \in Nat /\ input[row] \in Vocab
       /\ tokens[row] \in Seq(Vocab) /\ Len(tokens[row]) <= run.max_new_tokens
       /\ finished[row] \in BOOLEAN
       /\ scores[row] \in NegInf .. 0

\* Each row's KV history, block by block on either tier and in the tail, and
\* its padding are those of its own prompt and of its own hypothesis, however
\* often its ancestors were copied to other rows and overwritten: beam search
\* reorders the store, the tail and the mask by the same parents.
RowsFollowBeams ==
  BetweenSteps => \A row \in Rows :
    LET seq == Prompt(row) \o tokens[row] IN
    /\ History(row) = Front(seq)
    /\ input[row] = Last(seq)
    /\ \A i \in DOMAIN Prompt(row) : Prompt(row)[i] = Pad <=> i <= pads[row]

\* The score of a sequence computed from scratch: the log-probability of each
\* token up to and including the first end marker, after its prompt.
Unpadded(prompt) ==
  LET k == CHOOSE k \in 0 .. Len(prompt) - 1 :
             \A i \in DOMAIN prompt : prompt[i] = Pad <=> i <= k
  IN  SubSeq(prompt, k + 1, Len(prompt))

Charge(g, seq, token) ==
  IF run.eos \notin Range(seq)
  THEN LogProb(Unpadded(run.prompts[g]) \o seq, token)
  ELSE IF token = run.eos THEN 0 ELSE NegInf

\* f[1] + ... + f[n]
Total(f, n) ==
  LET sum[i \in 0 .. n] == IF i = 0 THEN 0 ELSE sum[i - 1] + f[i] IN sum[n]

TrueScore(g, seq) ==
  Total([i \in DOMAIN seq |-> Charge(g, SubSeq(seq, 1, i - 1), seq[i])],
        Len(seq))

\* The scores kept incrementally over reordered rows are those of the whole
\* hypotheses, and a finished one keeps its score.
ScoresAreSums ==
  BetweenSteps => \A row \in Rows :
    scores[row] # NegInf => scores[row] = TrueScore(GroupOf(row), tokens[row])

\* As long as a group has had a row for each of its hypotheses the search is
\* exhaustive: the group holds every sequence that is among the num_beams best.
SmallSearchIsExact ==
  BetweenSteps /\ ~run.sample => \A g \in Groups :
    LET t == Len(tokens[1])
        all == [1 .. t -> Vocab]
        score == [seq \in all |-> TrueScore(g, seq)]
    IN  t > 0 /\ Cardinality(Vocab) ^ (t - 1) <= run.num_beams =>
          \A seq \in all :
            Cardinality({s \in all : score[s] >= score[seq]}) <= run.num_beams
              => \E row \in RowsOf(g) : tokens[row] = seq

\* A returned sequence stops at its end marker or has full length, and no beam
\* of the prompt that is left out ranks above it by its penalised score.
BestReturned ==
  pc = "done" => \A g \in Groups : \A i \in 1 .. run.returns :
    /\ \/ Len(result[g][i]) = Len(tokens[1])
       \/ Last(result[g][i]) = run.eos
    /\ \A row \in RowsOf(g) :
         \/ \E j \in 1 .. run.returns : result[g][j] = Cut(tokens[row])
         \/ ~\E r \in RowsOf(g) :
                Cut(tokens[r]) = result[g][i] /\ Above(row, r)
=============================================================================
