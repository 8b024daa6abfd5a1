--------------------------- MODULE PagedGeneration ---------------------------
(***************************************************************************)
(* Generation over a paged KV cache: PagedModel's decode step              *)
(* (pager_hf/paged_model.py, pager_hf/kv_utils.py) and the bench scripts   *)
(* that try the same loop in other orders, on top of the block store of    *)
(* KVBlockStore.                                                           *)
(*                                                                         *)
(* A script is the sequence of the statements it executes: prime once,     *)
(* then body per generated token.  The statements are the actions below.   *)
(* Token k of the correct text is the number k, and so is its KV entry if  *)
(* the token was computed while attending to 1 .. k - 1 and to nothing     *)
(* else; any other forward yields 0, which no later step repairs.  What    *)
(* the pager places is any choice that fills its VRAM (Pager shows that it *)
(* does).  The stores of the bench scripts have no ram_budget: their       *)
(* BenchSlots leave fewer blocks out than RamBudget holds.                 *)
(*                                                                         *)
(* Definitions named ...Mutant are slips the properties must catch; none is *)
(* part of the specification.                                              *)
(***************************************************************************)
EXTENDS KVBlockStore, Sequences, FiniteSetsExt

CONSTANTS
  TokensPerBlock,  \* tokens_per_block
  Prompts,         \* the lengths of input_ids
  Chunks,          \* the values of prefill_chunk_tokens
  Steps,           \* max_new_tokens
  Slots,           \* the blocks vram_budget holds, for PagedModel
  BenchSlots,      \* and for the bench scripts
  KeepRecent       \* GPU_RESIDENT_BLOCK_BUDGET of streaming_generate

ASSUME GenerationAssumption ==
  /\ {TokensPerBlock, Steps, BenchSlots, KeepRecent} \subseteq Nat \ {0}
  /\ Prompts \cup Chunks \subseteq Nat \ {0}
  /\ Slots \subseteq Nat
  /\ MaxBlocks > 1  \* NUM_BLOCKS, for the blocks of kv_offload
  /\ \A P \in Prompts : (P + Steps) \div TokensPerBlock <= MaxBlocks
  /\ RamBudget >= (MaxBlocks - BenchSlots) * BlockBytes
  /\ RamBudget >= (MaxBlocks - KeepRecent) * BlockBytes

VARIABLES
  run,        \* what is run: [script, prompt, chunk, slots]
  rest,       \* the statements of the round not yet executed
  pending,    \* the blocks a statement still has to put_gpu
  content,    \* the KV entries of each registered block
  tailPast,   \* tail_past
  past,       \* outputs.past_key_values of the last forward
  cache,      \* the past_key_values the next forward gets
  streamed,   \* the KV entries its patched layers read from the store
  mass,       \* len(_mass_accum), 0 without streaming
  input,      \* next_input_id
  generated,  \* the tokens generated so far
  added,      \* whether the last append registered a block
  pg          \* the pager: [fresh, count (its blocks), vram]

gvars == <<run, rest, pending, content, tailPast, past, cache, streamed, mass,
           input, generated, added, pg>>
allvars == <<vars, gvars>>

Upto(k) == [i \in 1 .. k |-> i]

\* One token through the model: its KV entry, and the next token.
Encode(context, token) ==
  IF token > 0 /\ context = Upto(token - 1) THEN token ELSE 0
Predict(context, token) ==
  IF Encode(context, token) = 0 THEN 0 ELSE token + 1
-----------------------------------------------------------------------------
(* pager_hf/kv_utils.py                                                    *)

split_full_blocks_and_tail(kv) ==
  LET full_tokens == (Len(kv) \div TokensPerBlock) * TokensPerBlock IN
  [full |-> SubSeq(kv, 1, full_tokens),
   tail |-> SubSeq(kv, full_tokens + 1, Len(kv))]

extract_single_block_from_past(kv, block_id) ==
  SubSeq(kv, block_id * TokensPerBlock + 1, (block_id + 1) * TokensPerBlock)

real_past_to_blocks(kv) ==
  [i \in 1 .. Len(kv) \div TokensPerBlock |->
     extract_single_block_from_past(kv, i - 1)]

\* The blocks 0 .. next - 1, one after the other.
StoredBlocks ==
  [i \in 1 .. next * TokensPerBlock |->
     content[(i - 1) \div TokensPerBlock][1 + ((i - 1) % TokensPerBlock)]]

\* reconstruct_past_from_store, when get_gpu raises for no block.
reconstruct_past_from_store == StoredBlocks \o tailPast
-----------------------------------------------------------------------------
(* The scripts.                                                            *)

Script(bench, scored, prime, body) ==
  [bench |-> bench, scored |-> scored, prime |-> prime, body |-> body]

_start_session == <<"chunked_prefill", "build">>
_forward_step ==
  <<"reload", "reconstruct", "forward", "append", "on_step", "force", "apply">>
_forward_step_streaming ==
  <<"stream", "forward", "append_grown", "on_step", "force", "apply">>

PagedModelScripts ==
  {Script(FALSE, scored, _start_session, body) :
     scored \in BOOLEAN, body \in {_forward_step, _forward_step_streaming}}

greedy_baseline_generate ==
  Script(TRUE, FALSE, <<"prefill", "keep_past">>, <<"forward", "keep_past">>)
baseline_generate ==
  Script(TRUE, FALSE, <<"chunked_prefill", "keep_past">>,
         <<"forward", "keep_past">>)

run_policy == Script(TRUE, TRUE, <<"prefill", "build">>, _forward_step)
persistent_cpu_paging_loop == run_policy
persistent_cpu_paging_stress == run_policy
vram_savings_proof ==
  Script(TRUE, FALSE, <<"chunked_prefill", "build">>, _forward_step)

\* A fresh store per token, placed and read back before the forward.
paged_generate ==
  Script(TRUE, TRUE, <<"prefill">>,
         <<"rebuild", "on_step", "apply", "reload", "reconstruct", "forward">>)
paged_generation_loop == paged_generate

streaming_generate ==
  Script(TRUE, FALSE, <<"chunked_prefill", "build", "keep_recent">>,
         <<"reload", "stream", "forward", "append_grown", "keep_recent">>)

\* The whole prompt is cached, its tail dropped, and the first token of that
\* tail fed again.
RoundTrip == <<"on_step", "apply", "reload", "reconstruct_blocks">>
kv_roundtrip ==
  Script(TRUE, TRUE, <<"prefill_all", "build">> \o RoundTrip, <<>>)
logits_roundtrip ==
  Script(TRUE, TRUE, <<"prefill_all", "build">> \o RoundTrip \o <<"refeed">>,
         <<"forward", "keep_past">>)
generation_roundtrip ==
  Script(TRUE, TRUE, <<"prefill_all", "build", "refeed">> \o RoundTrip,
         <<"forward", "keep_past">>)
cache_block ==
  Script(TRUE, TRUE, <<"prefill_all", "build", "on_step", "apply">>, <<>>)

\* Blocks of random numbers, no model.
kv_offload ==
  Script(TRUE, FALSE, <<"dummy_blocks", "offload", "prefetch">>, <<>>)
pager_integration ==
  Script(TRUE, TRUE, <<"dummy_blocks">>, <<"trace_step", "apply">>)

Scripts ==
  PagedModelScripts \cup
  {greedy_baseline_generate, baseline_generate, run_policy,
   persistent_cpu_paging_loop, persistent_cpu_paging_stress,
   vram_savings_proof, paged_generate, paged_generation_loop,
   streaming_generate, kv_roundtrip, logits_roundtrip, generation_roundtrip,
   cache_block, kv_offload, pager_integration}

ReFeeds(script) == script \in {logits_roundtrip, generation_roundtrip}

\* Every bench prompt fills a block before its last token.
Runs ==
  {r \in [script : Scripts, prompt : Prompts, chunk : Chunks,
          slots : Slots \cup {BenchSlots}] :
     /\ IF r.script.bench
        THEN r.prompt > TokensPerBlock /\ r.slots = BenchSlots
        ELSE r.slots \in Slots
     /\ r.script.prime[1] # "chunked_prefill" => r.chunk = Min(Chunks)}

GenInit ==
  /\ Init
  /\ run \in Runs
  /\ rest = run.script.prime
  /\ pending = <<>>
  /\ content = [b \in Ids |-> <<>>]
  /\ tailPast = <<>> /\ past = <<>> /\ cache = <<>> /\ streamed = <<>>
  /\ mass = 0
  /\ input = run.prompt
  /\ generated = <<>>
  /\ added = FALSE
  /\ pg = [fresh |-> TRUE, count |-> 0, vram |-> {}]
-----------------------------------------------------------------------------
(* One action per statement.                                               *)

Raised == last \in {"refused", "missing", "fault"}

\* The statement is next; the calls and put_gpus before it are done.
At(statement) ==
  /\ rest # <<>> /\ Head(rest) = statement
  /\ call = "none" /\ pending = <<>>
  /\ ~Raised

Done == rest' = Tail(rest) /\ UNCHANGED run

\* prefix[:end] for the next chunk of input_ids[:, :-1].
Chunk == Upto(Min({Len(past) + run.chunk, run.prompt - 1}))

\* _chunked_prefill, a chunk at a time.  A prompt of one token has no chunk:
\* outputs stays None, and get_legacy_past_key_values raises.
ChunkedPrefill ==
  /\ At("chunked_prefill")
  /\ run.prompt > 1
  /\ past' = [i \in DOMAIN Chunk |->
                IF i \in DOMAIN past THEN past[i]
                ELSE Encode(past \o SubSeq(Chunk, Len(past) + 1, i - 1), i)]
  /\ IF Len(past') = run.prompt - 1 THEN rest' = Tail(rest) ELSE UNCHANGED rest
  /\ UNCHANGED <<vars, run, pending, content, tailPast, cache, streamed, mass,
                 input, generated, added, pg>>

\* One forward over the prefix, or over the whole prompt.
Prefill ==
  /\ \/ At("prefill") /\ past' = Upto(run.prompt - 1)
     \/ At("prefill_all") /\ past' = Upto(run.prompt)
  /\ Done
  /\ UNCHANGED <<vars, pending, content, tailPast, cache, streamed, mass,
                 input, generated, added, pg>>

\* _build_initial_store: the full blocks are registered, the rest is the tail.
Build ==
  /\ At("build")
  /\ pending' = real_past_to_blocks(split_full_blocks_and_tail(past).full)
  /\ tailPast' = split_full_blocks_and_tail(past).tail
  /\ Done
  /\ UNCHANGED <<vars, content, past, cache, streamed, mass, input, generated,
                 added, pg>>

\* rebuild_store_from_past: the same into a new KVBlockStore.
Rebuild ==
  /\ At("rebuild")
  /\ next' = 0 /\ gpu' = {} /\ cpu' = {}
  /\ residentGpu' = 0 /\ residentCpu' = 0
  /\ call' = "none" /\ onGpu' = {} /\ todo' = {} /\ last' = "new"
  /\ pending' = real_past_to_blocks(split_full_blocks_and_tail(past).full)
  /\ tailPast' = split_full_blocks_and_tail(past).tail
  /\ Done
  /\ UNCHANGED <<faults, content, past, cache, streamed, mass, input,
                 generated, added, pg>>

DummyBlocks ==
  /\ At("dummy_blocks")
  /\ pending' = [i \in 1 .. MaxBlocks - 1 |-> <<>>]
  /\ Done
  /\ UNCHANGED <<vars, content, tailPast, past, cache, streamed, mass, input,
                 generated, added, pg>>

\* store.put_gpu(block_id, ...), block after block.
Put ==
  /\ pending # <<>>
  /\ PutGpu
  /\ content' = [content EXCEPT ![next] = Head(pending)]
  /\ pending' = Tail(pending)
  /\ UNCHANGED <<run, rest, tailPast, past, cache, streamed, mass, input,
                 generated, added, pg>>

\* _reload_all_blocks; gather_layer_kv_group of streaming_generate likewise
\* moves every block to the GPU.
Reload ==
  /\ At("reload")
  /\ BeginReload
  /\ Done
  /\ UNCHANGED <<pending, content, tailPast, past, cache, streamed, mass,
                 input, generated, added, pg>>

\* The tail is left out.
ReconstructMutant ==
  /\ At("reconstruct")
  /\ Registered \subseteq gpu
  /\ cache' = StoredBlocks
  /\ streamed' = <<>> /\ mass' = 0
  /\ Done
  /\ UNCHANGED <<vars, pending, content, tailPast, past, input, generated,
                 added, pg>>

\* get_gpu raises for a block that is not on the GPU: the step is not enabled.
Reconstruct ==
  /\ Registered \subseteq gpu
  /\ \/ At("reconstruct") /\ cache' = reconstruct_past_from_store
     \/ At("reconstruct_blocks") /\ next > 0 /\ cache' = StoredBlocks
  /\ streamed' = <<>> /\ mass' = 0
  /\ Done
  /\ UNCHANGED <<vars, pending, content, tailPast, past, input, generated,
                 added, pg>>

\* _forward_step_streaming: the model gets the tail as its cache, the patched
\* layers read the blocks where they are (_gather_layer_kv_group, get_any).
Stream ==
  /\ At("stream")
  /\ Registered \subseteq gpu \cup cpu
  /\ cache' = tailPast
  /\ streamed' = StoredBlocks
  /\ mass' = IF run.script.scored THEN next ELSE 0
  /\ Done
  /\ UNCHANGED <<vars, pending, content, tailPast, past, input, generated,
                 added, pg>>

\* past_key_values=outputs.past_key_values
KeepPast ==
  /\ At("keep_past")
  /\ cache' = past
  /\ Done
  /\ UNCHANGED <<vars, pending, content, tailPast, past, streamed, mass, input,
                 generated, added, pg>>

\* next_input_id is the token after the full blocks; none left: RuntimeError.
ReFeed ==
  /\ At("refeed")
  /\ next * TokensPerBlock < run.prompt
  /\ input' = next * TokensPerBlock + 1
  /\ Done
  /\ UNCHANGED <<vars, pending, content, tailPast, past, cache, streamed, mass,
                 generated, added, pg>>

\* self.model(next_input_id, past_key_values=cache): the cache it returns is
\* the one it got, grown by one.
Forward ==
  /\ At("forward")
  /\ past' = Append(cache, Encode(streamed \o cache, input))
  /\ generated' = Append(generated, Predict(streamed \o cache, input))
  /\ input' = Predict(streamed \o cache, input)
  /\ Done
  /\ UNCHANGED <<vars, pending, content, tailPast, cache, streamed, mass,
                 added, pg>>

\* The blocks are numbered from 0 within the grown tail.
AppendNewFullBlocksMutant ==
  /\ At("append")
  /\ LET kv == split_full_blocks_and_tail(past) IN
     /\ pending' = [i \in 1 .. Len(kv.full) \div TokensPerBlock - next |->
                      extract_single_block_from_past(kv.full, i - 1)]
     /\ tailPast' = kv.tail
  /\ added' = (pending' # <<>>)
  /\ Done
  /\ UNCHANGED <<vars, content, past, cache, streamed, mass, input,
                 generated, pg>>

\* _append_new_full_blocks, from the whole cache.
AppendNewFullBlocks ==
  /\ At("append")
  /\ LET kv == split_full_blocks_and_tail(past) IN
     /\ pending' = [i \in 1 .. Len(kv.full) \div TokensPerBlock - next |->
                      extract_single_block_from_past(kv.full, next + i - 1)]
     /\ tailPast' = kv.tail
  /\ added' = (pending' # <<>>)
  /\ Done
  /\ UNCHANGED <<vars, content, past, cache, streamed, mass, input,
                 generated, pg>>

\* _append_new_full_blocks_from_grown_tail
AppendFromGrownTail ==
  /\ At("append_grown")
  /\ LET kv == split_full_blocks_and_tail(past) IN
     /\ pending' = real_past_to_blocks(kv.full)
     /\ tailPast' = kv.tail
  /\ added' = (pending' # <<>>)
  /\ Done
  /\ UNCHANGED <<vars, content, past, cache, streamed, mass, input,
                 generated, pg>>
-----------------------------------------------------------------------------
(* The pager and the placement.                                            *)

\* force_rebalance(query_block): every block known, the VRAM filled.
Rebalanced(known, query_block) ==
  LET count == Max({known, query_block + 1}) IN
  {[fresh |-> FALSE, count |-> count, vram |-> V] :
     V \in kSubset(Min({run.slots, count}), 0 .. count - 1)}

\* on_step(query_block, 0, attention): it rebalances on the first step and
\* then at an interval.
OnStepTo(length, query_block) ==
  LET known == Max({pg.count, length}) IN
  \/ pg' \in Rebalanced(known, query_block)
  \/ ~pg.fresh /\ pg' = [pg EXCEPT !.count = known]

\* len(block_attention): a mass vector made before the append has no entry for
\* a block it added, unless its sum is 0 and a uniform vector replaces it.
AttentionLengths == IF mass = 0 THEN {next} ELSE {mass, next}

\* PagedModel passes over the pager while there is no block.
Idle == next = 0 /\ ~run.script.bench

OnStep ==
  /\ \/ At("on_step") /\ (IF Idle THEN UNCHANGED pg
        ELSE \E n \in AttentionLengths : OnStepTo(n, next - 1))
     \/ At("trace_step") /\ \E q \in pg.count .. next - 1 : OnStepTo(q + 1, q)
  /\ Done
  /\ UNCHANGED <<vars, pending, content, tailPast, past, cache, streamed, mass,
                 input, generated, added>>

\* A step that added a block does not rebalance.
ForceRebalanceMutant ==
  /\ At("force")
  /\ UNCHANGED pg
  /\ Done
  /\ UNCHANGED <<vars, pending, content, tailPast, past, cache, streamed, mass,
                 input, generated, added>>

\* if added_block_ids: force_rebalance(query_block)
ForceRebalance ==
  /\ At("force")
  /\ IF added THEN pg' \in Rebalanced(pg.count, next - 1) ELSE UNCHANGED pg
  /\ Done
  /\ UNCHANGED <<vars, pending, content, tailPast, past, cache, streamed, mass,
                 input, generated, added>>

\* apply_tiers(tiers()): a block the pager does not know goes to the CPU.
Apply ==
  /\ At("apply")
  /\ IF Idle THEN UNCHANGED vars ELSE BeginApply(pg.vram \cap Registered)
  /\ Done
  /\ UNCHANGED <<pending, content, tailPast, past, cache, streamed, mass,
                 input, generated, added, pg>>

\* apply_tiers_keep_recent; and the two hand-made moves of torch_kv_offload.
Place ==
  /\ \/ /\ At("keep_recent")
        /\ BeginApply({b \in Registered : b >= next - KeepRecent})
     \/ At("offload") /\ BeginApply({0})
     \/ At("prefetch") /\ \E B \in SUBSET cpu : BeginApply(gpu \cup B)
  /\ Done
  /\ UNCHANGED <<pending, content, tailPast, past, cache, streamed, mass,
                 input, generated, added, pg>>

\* A visit of the call in progress, or its end.
Move == ((\E b \in Ids : Visit(b)) \/ Return) /\ UNCHANGED gvars

NextRound ==
  /\ rest = <<>> /\ run.script.body # <<>>
  /\ call = "none" /\ pending = <<>> /\ ~Raised
  /\ IF run.script = pager_integration THEN pg.count < next
     ELSE Len(generated) < Steps
  /\ rest' = run.script.body
  /\ UNCHANGED <<vars, run, pending, content, tailPast, past, cache, streamed,
                 mass, input, generated, added, pg>>

\* A reload raised in a generate() of one token; the caller calls it again.
Retry ==
  /\ Raised
  /\ run.script \in PagedModelScripts
  /\ generated # <<>> /\ rest = Tail(_forward_step)
  /\ BeginReload
  /\ UNCHANGED gvars

GenNext ==
  \/ ChunkedPrefill \/ Prefill \/ Build \/ Rebuild \/ DummyBlocks \/ Put
  \/ Reload \/ Reconstruct \/ Stream \/ KeepPast \/ ReFeed \/ Forward
  \/ AppendNewFullBlocks \/ AppendFromGrownTail
  \/ OnStep \/ ForceRebalance \/ Apply \/ Place \/ Move \/ NextRound \/ Retry

GenSpec == GenInit /\ [][GenNext]_allvars
-----------------------------------------------------------------------------
Entries == Nat

GenTypeOK ==
  /\ run \in Runs
  /\ \E k \in 0 .. Len(run.script.prime) + Len(run.script.body) : Len(rest) = k
  /\ pending \in Seq(Seq(Entries))
  /\ content \in [Ids -> Seq(Entries)]
  /\ \A b \in Registered :
       run.script.prime[1] = "dummy_blocks" \/ Len(content[b]) = TokensPerBlock
  /\ {tailPast, past, cache, streamed, generated} \subseteq Seq(Entries)
  /\ Len(tailPast) < TokensPerBlock
  /\ mass \in 0 .. MaxBlocks
  /\ input \in Entries
  /\ added \in BOOLEAN
  /\ pg.count \in 0 .. MaxBlocks /\ pg.vram \subseteq 0 .. pg.count - 1

\* Paging changes no token: whatever is placed where, and in whichever order a
\* script reloads, reconstructs, appends and rebuilds, it generates what the
\* baselines with a resident cache generate.
SameTokens ==
  LET first == IF ReFeeds(run.script)
               THEN (run.prompt \div TokensPerBlock) * TokensPerBlock + 1
               ELSE run.prompt
  IN  \A i \in DOMAIN generated : generated[i] = first + i

\* Between two rounds nothing is pending and the tokens fed so far are, in
\* order and each exactly once, the blocks followed by the tail.
BetweenRounds == rest = <<>> /\ call = "none" /\ pending = <<>> /\ ~Raised

Cached ==
  IF run.script = paged_generate THEN past ELSE reconstruct_past_from_store

NoTokenLost ==
  BetweenRounds /\ run.script \notin {greedy_baseline_generate,
    baseline_generate, kv_offload, pager_integration} =>
      CASE ReFeeds(run.script) -> Cached = Upto(run.prompt)
        [] run.script = kv_roundtrip ->
             Cached = Upto(run.prompt) /\ cache \o tailPast = Cached
        [] run.script = cache_block -> Cached = Upto(run.prompt)
        [] OTHER -> Cached = Upto(run.prompt - 1 + Len(generated))

\* After a step that ran the pager, the GPU holds exactly the blocks the pager
\* has in VRAM, also when the step added a block; and the pager knows every
\* block of the store that the attention covered.
PagerInSync ==
  BetweenRounds /\ last = "apply" /\ ~pg.fresh =>
    /\ gpu = pg.vram
    /\ run.script # pager_integration => pg.count = next
=============================================================================
