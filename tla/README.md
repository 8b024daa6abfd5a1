# pager_hf in TLA+

A verification project for `pager_hf`, a Python package with a Rust core that
serves language models with a *paged* KV cache: the cache of a session is cut in
blocks, and the blocks live in GPU memory (`vram`), host memory (`ram`) or on disk
(`ssd`) under byte budgets. A small server in front of it advances many sessions
together, one token each per round.

The project holds TLA+ modules translated from the source, TLC configurations that
model-check them on small instances, and TLAPS proofs for every value of the
constants. `PROJECT.json` maps every definition to the lines it models, and names a
plausible slip (`...Mutant`) that each checked property catches.

## 1. The system

### 1.1 Components

| component | source | state | operations |
|---|---|---|---|
| Continuous-batching scheduler | `pager_hf/serving/scheduler.py` | `_incoming`, `_active`, `_sessions`, `_busy_sessions`, `_draining`, `_stop`, one `ServingRequest` per call | `submit`, `submit_turn`, `create_session`, `delete_session`, `load`, `start`, `stop`; the thread `_run`; `_retire` |
| PagedModel (session) | `pager_hf/paged_model.py` | `_store`, `_tail_past`, `_primed_tokens`, `_primed_prefix`, `_pager`, patched layers | `generate`, `generate_beam_search`, `reset`, `_start_session`, `_extend_session`, `_forward_step` |
| Batched decode | `pager_hf/batched_decode.py` | none of its own; grows the tails of several PagedModels | `batched_decode_step` |
| KV block store | `pager_hf/kv_block_store.py` | the GPU and the CPU map, running byte totals | `put_gpu`, `offload_to_cpu`, `load_to_gpu`, `apply_tiers`, `reorder_batch_rows` |
| Pager | `pager/src/core.rs` | blocks with tier, score and pin; token count | `on_step`, `force_rebalance`, four placement policies |
| Pager bindings, metrics | `pager/src/lib.rs`, `metrics.rs` | counters | forwarding |
| KV cache utilities | `pager_hf/kv_utils.py` | none | split a cache in blocks and tail, put it together |
| Streaming attention | `pager_hf/streaming_attention.py` | none | online-softmax kernels over blocks |
| Multi-GPU router | `pager_hf/serving/multi_gpu.py` | session to owner map | the scheduler's methods over several schedulers |
| HTTP application | `pager_hf/serving/app.py` | none | one scheduler call per handler, streaming |
| Start-up | `pager_hf/serving/__main__.py` | none | builds the parts; stops the scheduler after the HTTP server |
| Benchmarks, experiments | `bench/` and the like | | scripts |

### 1.2 How they interact

HTTP handlers are coroutines on one event loop. A handler asks the router, which knows
which scheduler owns a session (`_session_owner`) or picks the one with the smallest
load, and the router calls the scheduler. The call checks the capacity, builds a
`ServingRequest` and puts it on the queue `_incoming`; the handler then waits, in a
thread of the event loop's default executor (`asyncio.to_thread`), for the request's
`done` event, or takes tokens from its `output_queue` until the final `None`. One
scheduler thread per GPU loops: admit from the queue into `_active`, take a snapshot of
it, advance every request of the snapshot by one token. A request whose PagedModel has no
store yet is stepped alone (`generate` with one new token); of the others those with the
same tail length share one forward pass (`_step_batched`). A request that emitted its last
token, or whose step raised, is *retired*: end mark, event, removal, release of its
session. `main()` stops the schedulers one after the other once the HTTP server has
returned; a scheduler used as a library may be called and stopped from any thread.

Inside a step the PagedModel feeds tokens to the model. Full tails become blocks: the
store registers them (`put_gpu`), the pager is told (`on_step`), and `apply_tiers`
moves blocks to the tiers the pager chose. With `use_streaming_attention=False` all
blocks are reloaded for each forward pass (`_reload_all_blocks`); with it, the layers of
the model get another `forward` for the duration of the call, which folds the blocks in
groups, wherever they lie, and then the tail into an online softmax. Beam search runs the
same step on a batch of rows, one per hypothesis, and after each token reorders the rows
of every block and of the tail.

### 1.3 What is hard

* The scheduler object is shared by callers, its thread and `stop()`; `_active` and the
  queue are read and changed with no lock, `_sessions_lock` covers only short sections, and
  `_retire` is four visible steps that `stop()` executes as well.
* `stop()` races calls, admission, rounds and the death of the thread; the HTTP server
  may cancel handlers whose waits go on in the executor.
* Handlers that wait share a few executor threads with each other.
* The router's map and the schedulers' sessions change at different moments.
* Two different paths grow a session's KV cache, and only one of them keeps the
  bookkeeping that the next turn relies on; failures leave the two apart.
* Instances share the model whose layers a streaming call patches.
* Moves of blocks fail half way; totals, placement and contents must survive that.
* The promotion loops of `heavy_hitter` end only if every swap is progress.
* Blocks, tail, mask and scores of a beam move to other rows by one permutation each.
* The softmax is folded over tiles, groups and launches, rows are padded, and a tile has
  more rows than a program owns.

Per component, what makes it correct:

* **scheduler**: a request is in one place; a session has one turn at a time, which
  sees and extends the history of the previous ones; nothing is decoded for a finished
  request; no starvation; whatever is accepted is answered, also by `stop()`.
* **router, application**: a session has one owner, where its turns run; what an answer
  says is so; every request is answered, also when the server stops.
* **session**: the KV cache is the token sequence, each token once, in order.
* **shared model**: a call runs the forwards it installed and leaves the original ones.
* **generation**: paging changes no token.
* **beam search**: a row is one hypothesis; its score is that of its tokens; the best are
  found (as far as the beams reach) and returned.
* **attention**: the result is the softmax over the tokens a row attends to.
* **store**: a block is on one side; totals are right; the RAM budget holds; blocks are
  lost by failed copies only; a call that returns placed its blocks.
* **pager**: budgets hold at all times; tiers are filled; pinned blocks come first; the
  loops end at a placement no swap improves.

`PROJECT.json` ("hazards") lists each of these at its line, with the properties that
cover it or the reason none does.

## 2. Modules

| module | models | kind |
|---|---|---|
| `TurnService` | what the server promises the client of a session | abstract specification |
| `Scheduler` | `scheduler.py`: callers, scheduler thread, `stop()` | detailed specification, implements `TurnService` |
| `MCScheduler` | `Scheduler` with the symmetry of its identities | for TLC |
| `Scheduler_proofs` | theorems about the requests and sessions of `Scheduler`, and that it implements `TurnService` | proofs |
| `Serving` | `app.py`, `multi_gpu.py`, `main()`, over schedulers in brief | composition |
| `Serving_proofs` | theorems about `Serving` | proofs |
| `MCServing` | its instance | for TLC |
| `PagedSession` | token bookkeeping of one PagedModel under the scheduler | specification |
| `PagedSession_proofs` | theorems about `PagedSession` | proofs |
| `SharedModel` | call locks and patched layers of PagedModels on shared models | specification |
| `SharedModel_proofs` | theorems about `SharedModel` | proofs |
| `MCSharedModel` | two instances: as under the scheduler, and two threads on a model | for TLC |
| `KVBlockStore` | `kv_block_store.py` as PagedModel uses it | specification |
| `PagedGeneration` | the decode step of `paged_model.py` and the loops of `bench/` on `KVBlockStore` | composition |
| `PagedGeneration_proofs` | theorems about `KVBlockStore`, and about `PagedGeneration` on top of it | proofs |
| `MCPagedGeneration` | its instance | for TLC |
| `BeamSearch` | `generate_beam_search` and `reorder_batch_rows` | specification |
| `BeamSearch_proofs` | theorems about `BeamSearch` | proofs |
| `MCBeamSearch` | the searches and the scores the model answers with | for TLC |
| `StreamingAttention` | `streaming_attention.py`, its two callers, and six experiments | specification |
| `StreamingAttention_proofs` | theorems about `StreamingAttention` | proofs |
| `MCStreamingAttention` | its instance | for TLC |
| `Pager` | `core.rs` | specification |
| `Pager_proofs` | theorems about `Pager` | proofs |
| `MCPager` | the sets of configurations for TLC | for TLC |

### 2.1 Scheduler

A step of the model is what one thread does between two points at which another thread
can see it: one access of the queue, of `_active` or of an `Event`, or one section under
`_sessions_lock` (the lock itself needs no variable: no section waits inside).

| code | model |
|---|---|
| `submit`, `submit_turn` | `BeginSubmit` (reads `len(_active)`), `CheckCapacity` (reads `qsize`, refuses), `ClaimSession` (the locked section), `Enqueue` |
| `create_session`, `delete_session` | `CreateSession`, `DeleteSession` |
| `_run`, `_admit_new_requests` | `LoopTop`, `AdmitPop`, `AdmitAppend`, `AdmitEnd`, `NothingActive` |
| `_run_once` | `BeginRound` (snapshot; `fresh` and `ready` are sets of positions in it), `StepFresh`, `StepAlone`, `StepBatched`, `EndRound` |
| `_step_single` | `StepSingle` |
| `_step_batched` after the forward pass | `HandleMember` per request, `SamplingCrash` when sampling raises outside the `try` |
| `_finish_step`, `_retire` | `FinishStep`; `PutSentinel`, `SetDone`, `RemoveActive`, `Release` |
| `start`, `stop` | `Start`; `BeginStop`, `JoinTimeout`, `Joined`, `RetireStuck`, `RetiredAll`, `DrainIncoming`, `Stopped` |

A token is `<<r, k>>`, the k-th token of request r (k = 0 stands for its prompt), so a
history tells whose tokens it holds and in which order. What the model leaves open is
what the code gets from outside: whether a token is EOS, whether a step raises
(`StepMayFail`), which requests share a tail length, whether `join` times out.
`BadSampling` are requests with sampling parameters `generate` rejects and the batched
path does not check. `CallsDuringStop = FALSE` is the guarantee `__main__.py` gives: the
HTTP server has ended, with its calls, before `stop()` is called. `OneShot` stands for
`session_id = None`.

### 2.2 PagedSession

One session's `_store`, cache, `_primed_prefix` and the scheduler's `input_ids` and
`history`. Tokens are numbered in the order they enter the conversation. `DecodeOne` is
the decode loop of `generate(max_new_tokens=1)`, `ExtendOne` an iteration of
`_extend_session`, `DecodeBatched` one row of `batched_decode_step`. A step may raise
before or after the tail has grown. The ghost variable `clean` says that no step was
batched or failed so far.

### 2.3 KVBlockStore

Blocks are numbered as they are registered and have one size. A call of `apply_tiers` or
`_reload_all_blocks` visits the blocks in ascending order; each visit moves a block, skips
it, or ends the call: refused (`RefuseOffload`, over `ram_budget`) or broken in the copy
(`OffloadFault`, `LoadFault`: the block has left one side and not reached the other).
`MaxFaults` bounds the failed copies.

### 2.4 Pager

One action per entry point and per statement of the placement that matters; the two
promotion loops take one step per iteration. Blocks have equal sizes, so budgets count
blocks. `update_scores` may set any score up to `MaxScore`: the weights it averages come
from the model. A call holds `&mut self`, so callers see `pc = "idle"` only. The query block
given to `on_step` and `force_rebalance` is the last scored one or, as in the streaming path, a
block newer than the scores.

### 2.5 Serving

The handlers, statement by statement between two points another handler or thread can
see; the executor as a queue (`waiting`) and the calls that block a worker (`running`); the
schedulers as `Scheduler` shows them to be, so a call on one takes effect at once.

| code | model |
|---|---|
| `create_session` | `create_session`, `_by_load` (a load per step), `CreateAt` (tries the next device when one is full), `Register` |
| `delete_session` | `delete_session`, `_owner`, `DeleteAt`, `Forget` |
| `completions` | `completions`, `_by_load` or `_owner`, `SubmitAt`, then `Take`, `Waited`, `Got`, `Finish` |
| a scheduler's thread | `Admit`, `Step`, `Fail`, `SetDone`, `Leave` |
| shutdown | `Close`, `Cut` (uvicorn's graceful timeout), `Returns`, `Stop` per scheduler |

The model interleaves handlers more freely than one event loop does. A request's answer
is given by `Finish` and not kept.

### 2.6 SharedModel

`forward[m][l]` is what layer `l` of model `m` runs: `Stock`, or the label of the call that
installed it. Patching, running and restoring go layer by layer, with the calls of other
threads in between. `Leave` is an exception on its way out through the `finally` blocks;
`Refuse` is the `RuntimeError` of `_acquire_or_raise`. `BeginBatch` takes no lock, as
`batched_decode_step` does not.

### 2.7 PagedGeneration

A *script* is the sequence of the statements that are executed: `_start_session` and
`_forward_step` (or `_forward_step_streaming`) for `PagedModel`, and for each loop in
`bench/` its own order of the same statements. An action is a statement, and calls into
the store are the actions of `KVBlockStore`, refusals and faults included. Token k of the
text is the number k, and so is its KV entry when it was computed while attending to
1 .. k - 1; any other forward gives 0, which no later step repairs. The pager is any
placement that fills VRAM: `TiersFilled` of `Pager` says that it does. A prompt of one
token has no chunk to prefill, which is where the code raises, and the run ends there.

### 2.8 BeamSearch

Each row of each block, of the tail, of the mask and of the input. The model's answer is a
cost that depends on the tokens the row *really* attends to, so a row that is given
another beam's block gets another score. `torch.topk` may order equal scores either way,
`torch.multinomial` may pick any candidates that are possible. `Init` is after
`_start_session`. Minus infinity is a number that no sum of costs reaches (`MaxCost`);
`length_penalty` is a natural number, so that comparing the quotients is comparing products
(`Above`, `Weight`); at least one token is asked for.

### 2.9 StreamingAttention

A launch folds a chunk of columns into the state `(m, l, acc)` of every query head;
programs of a launch load, fold and store in any order. Scores are small naturals and
`exp(s - m)` is `2^(s - m)`, scaled, so the arithmetic is exact; NaN is absorbing. A value
vector is a unit vector, so `acc` shows the weight of each column. `Plan` is the launches of
each caller: the padded batch of `PagedModel`, the sessions of `batched_decode_step` with
their padding blocks, and the experiments. Any rows of a padded batch may be padded, as
`_validate_left_padded` allows, all of them included. The loops over tiles and the sums are recursive
functions (`OnlineLoop`, `FixedLoop`, `SumUpTo`, `Pow2`), which the proofs can unfold.

## 3. What the runs check

`CHECK_DEADLOCK FALSE` where the system really stops: a scheduler or a server that was
stopped (`Scheduler*`, `Serving`), a conversation at its last token (`PagedSession`), a
generation or a search that is complete, or that raised (`PagedGeneration`, `BeamSearch`),
a call that ended (`StreamingAttention`). `Pager` and `SharedModel` check it.

| run | instance | shows |
|---|---|---|
| `SchedulerServe` | 2 callers, 3 requests, 2 sessions, 2 slots, no queue beyond, 2 tokens, failing steps, timeouts, calls during `stop()` | `OneHome`, `TurnsHoldSessions`, `TurnExtendsHistory`, `HistoryIsFinishedTurns`, `RoundRobin`, `NothingAfterSentinel`, `ImplementsTurnService` |
| `SchedulerLive` | 1 caller, 3 requests (one with bad sampling), 1 session, fair | `AcceptedFinishes`, `BusySessionReleased`, `StopAnswersAll` |
| `Serving` | 2 clients with 2 requests between them, 2 devices with one slot and one queue place, 1 executor thread, 2 tokens, failing steps, shutdown at any time, fair | `OwnersAgree`, `TurnsAtHome`, `AnswersAreTrue`, `StoppedAnswersAll`, `Answered` |
| `SharedModel` | 2 threads; 2 sessions on one model in one thread's hands, an instance both call, one whose model cannot stream; 2 layers, fair | `OwnForward`, `Restored`, `LocksFreed` |
| `PagedSession` | up to 10 tokens, turns of 2 or 3, batched and failing steps | `CacheFollowsSequence`, `NeverRewound` |
| `PagedGeneration` | prompts of 1 to 6 tokens, 6 more generated, blocks of 3, VRAM for 0, 1 or 3 blocks, RAM for 2, one failed copy, every script | `Accounting`, `LostByFaultsOnly`, `ReturnedMeansPlaced`, `SameTokens`, `NoTokenLost`, `PagerInSync` |
| `Pager` | 4 blocks, four policies, VRAM 0..3, windows 0..1, scores 0..2, margins 0..1, fair | `VramBudget`, `TiersFilled`, `PinnedFirst`, `NoProfitableSwap`, `RebalanceIdempotent`, `RebalanceEnds` |
| `BeamSearch` | two prompts with padding and 2 beams, one with 3, one sampled; 3 tokens in the vocabulary, 3 or 4 steps, blocks of 2 | `RowsFollowBeams`, `ScoresAreSums`, `SmallSearchIsExact`, `BestReturned` |
| `StreamingAttention` | 2 rows, 2 query heads in a tile of 3 rows, up to 3 blocks of 2, tiles of 3 columns, groups of 1 or 2, window 0 or 2, padding up to 3, 8 callers | `OutputIsAttention`, `MassPerBlock`, `OnlyOwnRows` |

What each property says stands above its definition. The modules also state type
invariants (`TypeOK`, `GenTypeOK`), which are there for the reader and, in the proved
modules, for the proofs; no run lists them. A few properties are stated that the code does
*not* have (`ThreadEndsOnlyByStop`, `DoneSessionIsFree`, `KeepsMostRecent`,
`NoTokenSkipped`, `WindowKept`): 3.1 says why.

**Bounds.** *Scheduler*: two requests show a race for a session, a third one the requests
behind it: one batched group and one left alone, one active while another is being
admitted and one in the queue. Two tokens make every request go through prefill, a later
step and the last one. Two sessions are what a batched group of turns needs. `MaxQueue =
0` and few slots make the capacity check refuse. `QueueBound` is proved and
not run: to break it takes as many requests as the limit and the callers together.
*Serving*: one executor thread is the smallest pool, in which every wait is in the way of
the others; two devices are what an owner and a choice by load need; the server starts
empty or with one session, so two requests are a turn against its deletion, two turns of a
session, two streams. The answer 429 needs three requests at once and does not occur; its
race is `QueueBound`'s. *SharedModel*: two layers tell a half patched model from a patched
one, and originals put back in the wrong order. *PagedSession*: ten tokens are three turns.
*PagedGeneration*: four blocks, with prompts that end before, at and after a block's
end; RAM holds two blocks and a bit, so a budget check that is off by one shows. *Pager*: four
blocks allow one block per tier and a swap in both loops; scores 0..2 with margins 0 and 1
give ties, gains equal to the margin and gains beyond it. *BeamSearch*: the tail fills twice
and rows are reordered with blocks on both tiers; three steps with three tokens go beyond
what the beams hold exhaustively. *StreamingAttention*: a tile has a row too many and its
columns end inside a block; the last group is short; a row's padding ends inside and at the
end of a block and a group; one, both or no rows of a batch are padded. `OutputIsAttention` and
`MassPerBlock` speak of a window only where some row has no padding (`WindowExact`); for the
rest see 3.1.

**Fairness.** `SchedulerLive` assumes weak fairness of each caller inside a call, of
`Start`, of the scheduler thread, of `_retire` and of `stop()` once it was called: threads
that run go on running. Nobody has to call, or to stop; `JoinTimeout` is a choice.
`AcceptedFinishes` and `BusySessionReleased` except the state in which `SamplingCrash`
ended the thread and nobody calls `stop()` (3.1). `Serving` assumes that the event loop,
the executor's threads and the schedulers' threads run on, and nothing of clients and
shutdown: `Answered` holds although a server that is never stopped never answers by
stopping. In `SharedModel` a thread inside a call goes on; in `FairSpec` of `Pager` a call
that has begun does: it is a loop in one thread.

**Symmetry** is used in `SchedulerServe`, whose properties are safety properties and whose
requests, callers and sessions are interchangeable.

### 3.1 Disagreements found

The first three are runs that TLC ends with a counterexample, and entries of "findings".

| run | property | what happens |
|---|---|---|
| `SchedulerStreamHang` | `EveryStreamEnds` | `stop()` sets `done` for the requests it drains from the queue but puts no `None` on their `output_queue`: a streaming client waits for ever, and the session stays busy |
| `PagedSessionFallback` | `NoTokenFedTwice` | batched steps do not advance `_primed_tokens`; the next single step feeds their tokens again |
| `SharedModelPatch` | `OwnForward` | "they don't share any state" (`src/README.md:203`): instances share the model, and two threads with an instance each run each other's patched layers |

The others were met while modelling and have no run of their own:

* Sampling in `_step_batched` lies outside the `try`: parameters that make it raise end the
  scheduler thread for everybody (`SamplingCrash`; against `ThreadEndsOnlyByStop`).
* A request is `done` before its session is released, so a client that waited can still be
  refused with `SessionBusyError` (against `DoneSessionIsFree`). The `curl` sequence of
  `src/README.md:282-285`, a completion and then the deletion of its session, may be
  answered 409.
* `submit`, `start`, `stop` in a row may fail the request, if the thread sees `_draining`
  before it admits anything. A call during or after `stop()` is accepted and never answered.
* The first step of a later turn may be batched, which feeds the last of the turn's tokens
  and skips the others (against `NoTokenSkipped`).
* A failed `generate` leaves `_primed_prefix` behind the cache; a first one that fails after
  `_start_session` leaves it `None`, after which every `generate` of the session raises. A
  prompt of one token raises in `_start_session`.
* `generate_beam_search` leaves its store and tail in the instance. A later `generate` raises
  on the missing prefix, or, after an earlier turn, extends that turn's prefix with the
  beams' cache. Nothing refuses the call; the docstring rules it out. Its sampling raises
  when `top_k` or `top_p` leave fewer candidates than beams.
* `recent_only` ranks pinned blocks by ascending id: with less VRAM than its window the
  newest block is the one left out (against `KeepsMostRecent`).
* The layer that `bench/streaming_attention_real_layer_mvp.py` builds leaves out the tail
  tokens, of which `bench/streaming_attention_triton_real_layer_mvp.py:96-97` says that they
  "must still be attended to". `OutputIsAttention` excepts that mode (`one_layer`).
* The comment on the sliding window (`src/pager_hf/paged_model.py:971-973`) says that it
  excludes "any position further back than the window from *every* chunk below". The largest
  position, which skips padding, is compared with column indices, which do not (979-981): the
  two agree if some row has no padding. `_validate_left_padded` (1168-1181) also lets batches
  through in which every row is padded, a single padded row for one; then each row attends to
  as many tokens beyond the window as the smallest padding has columns (against `WindowKept`,
  for which TLC finds such a batch in the instance of `StreamingAttention`). A tokenizer that
  pads to the longest prompt does not produce one. `OutputIsAttention` and
  `MassPerBlock` except this case by their premise `WindowExact`; `Init` has it.

## 4. What is proved

The theorems hold for every value of the constants that satisfies the module's `ASSUME`
(`SchedulerAssumption`, `ServingAssumption`, `StoreAssumption`, `GenerationAssumption`,
`BeamAssumption`, `SessionAssumption`, `SharedAssumption`, `PagerAssumption`,
`StreamingAssumption`), which only says that the constants are the kind of thing they are
named for, what the code validates and, for the counting arguments, that the callers, the
blocks and the tokens of the vocabulary are finitely many. `BeamAssumption` also excludes more
beams than tokens, which the code does not check and no vocabulary is small enough for.
`RunsOwnForward` and `LeavesStock` assume `Exclusive` besides (below). All but the four `TypeCorrect`, the two about `WithinRamBudget`, `QueueIsBounded` and
`OneCallAtATime` state a property that a run checks too.

| module | theorem | property |
|---|---|---|
| `PagedGeneration_proofs`, store | `TypeCorrect` | `TypeOK` of `KVBlockStore` |
| | `AccountingHolds` | `Accounting`: the running totals are those of a scan, no block on both sides |
| | `LosesOnlyByFaults` | `LostByFaultsOnly` |
| | `CallsPlace` | `ReturnedMeansPlaced` |
| | `RamBudgetHolds` | `WithinRamBudget` |
| `Scheduler_proofs` | `TypeCorrect` | `TypeOK` |
| | `RequestsHaveOneHome` | `OneHome`: a request is in one place, once; the slots are never exceeded |
| | `QueueIsBounded` | `QueueBound`: the overshoot of the check-then-put |
| | `StreamsEndOnce` | `NothingAfterSentinel`: no token after the end mark |
| | `FirstComeFirst` | `RoundRobin`: nobody overtakes who was admitted later |
| | `OneTurnPerSession` | `TurnsHoldSessions`: busy exactly while one turn is in flight |
| | `TurnsExtendTheirHistory` | `TurnExtendsHistory`: the history a turn copied is not stale |
| | `HistoryIsTheTurns` | `HistoryIsFinishedTurns`: no finished turn is lost, cut or written twice (their order is `TurnExtendsHistory`'s) |
| | `SchedulerIsTurnService` | `ImplementsTurnService`: the refinement |
| `Serving_proofs` | `RouterKnowsHomes` | `OwnersAgree`: router and schedulers agree on where a session lives |
| | `TurnsRunAtHome` | `TurnsAtHome`: a turn is where its session's cache is, alone |
| | `StopLeavesNobody` | `StoppedAnswersAll`: no request is left without its done event |
| | `AnswersAreGood` | `AnswersAreTrue`: no false 404, and what ends without an error is whole |
| `PagedSession_proofs` | `TurnsExtendPrimed` | `NeverRewound`: a turn starts where the session was primed |
| | `CacheIsSequence` | `CacheFollowsSequence`: the cache holds each token once, in order |
| `PagedGeneration_proofs`, scripts | `PagingChangesNoToken` | `SameTokens`: every script generates what a resident cache gives |
| | `CacheIsTheText` | `NoTokenLost`: blocks and tail are the tokens fed, once and in order |
| | `PagerAndStoreAgree` | `PagerInSync`: the GPU holds what the pager has in VRAM, and the pager knows every block |
| | `StoreServesTheScripts` | `Accounting`, `LostByFaultsOnly` and `ReturnedMeansPlaced` under every script |
| | `ScriptsKeepTheBudget` | `WithinRamBudget` under every script |
| `BeamSearch_proofs` | `RowsKeepTheirBeams` | `RowsFollowBeams`: a row's blocks, tail, mask and input are its own hypothesis's |
| | `ScoresStayTrue` | `ScoresAreSums`: the scores kept incrementally are those of the whole hypotheses |
| | `BestAreReturned` | `BestReturned`: the answer is the best of a prompt's beams, cut at the end mark |
| `StreamingAttention_proofs` | `TypeCorrect` | `TypeOK`: NaN never arises |
| | `OthersUntouched` | `OnlyOwnRows`: a program stores its own rows only |
| | `OutputCorrect` | `OutputIsAttention`: `acc / l` is the softmax over the tokens the row attends to; with a window, if some row has no padding |
| | `MassCorrect` | `MassPerBlock`: the pager gets the weights of a row's own blocks, under the same condition |
| `SharedModel_proofs` | `RunsOwnForward` | `OwnForward`, if a model that a thread patches is its alone |
| | `LeavesStock` | `Restored`, under the same discipline |
| | `OneCallAtATime` | `OneCallPerInstance`, without it |
| `Pager_proofs` | `TypeCorrect` | `TypeOK` |
| | `BudgetHolds` | `VramBudget`: in the middle of a call as well |
| | `RebalanceFills` | `TiersFilled`: no tier is passed over while it has room |
| | `PinsComeFirst` | `PinnedFirst`: after any number of promotions |
| | `LoopsReachAnOptimum` | `NoProfitableSwap`: for any pair of blocks |
| | `RepeatsAreIdempotent` | `RebalanceIdempotent`: a second rebalance leaves VRAM alone |

**KVBlockStore.** The inductive invariant is `TypeOK`, `Accounting`, `LostByFaultsOnly`
and what is true in the middle of a call: the blocks visited so far are where the call
puts them (`Progress`), which at the last visit becomes `ReturnedMeansPlaced`.
`WithinRamBudget` is inductive with `TypeOK` once `Accounting` says what the total is.

**Scheduler, requests.** `TypeOK` is not inductive alone: `Enqueue` appends `arg[c]`,
which is a request only because a caller inside a call has one. The invariant is
`HomeInv`:

* `OwnRequests`: each caller inside a call has a request of its own that was not put yet
  (`Known`: what is in `_incoming`, in the thread's hand, in `_active`, in the round's
  snapshot, or answered), and every known request has its session fixed, which is why
  `BeginSubmit`, whose request is new, cannot pick one of them. The snapshot belongs to
  `Known` because a round goes on with requests it has retired already.
* `RoundLocals`: outside its rounds the thread has no snapshot.
* `Apart` and `Room`: the form of `OneHome` that a step can be followed through. `Pipeline`
  is a concatenation; `PipelineParts` shows that it has no duplicates exactly if its three
  parts have none and are disjoint.

There is one lemma per kind of step (`CallHome`, `RetireHome`, `AdmitHome`, `RoundHome`,
`StopHome`). The lemmas on sequences they cite (`RemoveFirst`, `Append`, `Tail`, `\o`) are
stated for any set of elements. `QueueBound` is not inductive either: `Reserved` counts
the callers that passed the capacity check and have not put their request yet
(`Passed`). A check that passes has seen a queue below the limit, and at most all callers
are past it; a put moves one from `Passed` into the queue.

**Scheduler, `_retire`.** `NothingAfterSentinel` is about a step, so it needs to know which
requests a step may touch. `RetireInv` adds to `HomeInv` what `_retire` leaves between its
four statements:

* `Retiring`: the request being retired is in `_active` until it is removed and has its end
  mark from the first statement on; `Ended`: a request with an end mark does not wait, and
  is active only while it is being retired.
* `Unstepped`: the positions of the snapshot that the round has still to step hold different
  requests, still active, none of them being retired. `_active` may have changed since the
  snapshot was taken; this says that it did not lose any of those.
* `StopAlone`: `stop()` retires and drains only after the thread has ended, so two
  executions of `_retire` never overlap.

**Scheduler, order of service.** `RoundRobin` looks at `_active` in the middle of a round, where
some have had their step and some have not, so it is not inductive. What a step keeps is
`InStep`, which compares what the round *will* have made of two requests (`Expected`: the
tokens so far, and one more if the snapshot has still to come to the request). A step turns
what is owed into a token and leaves `Expected` alone. `RemoveFirstOrder` says that a
removal from `_active` keeps the order of the others, and `Untouched` that who is admitted
has no token yet, so it may be put last. The request that is being retired is left out, because its
failed step was owed and is never made; a crash drops what is owed by all, and after it only
`InOrder` is left, which allows for one token.

**Scheduler, sessions.** `Turns` says `TurnsHoldSessions` session by session and request by
request. Only the claim (or the capacity check of a one-shot request) puts a request in
flight, and only the release takes it out: the lemmas `CallFlight`, `RetireFlight` and
`ThreadFlight` say so, and the rest preserves `Turns` because a request's session is fixed.
`TurnExtendsHistory` is inductive with `Unstarted`: a request that was not put yet has no
tokens, so a claim starts from the history it reads. `HistoryIsFinishedTurns` follows from that and
from `Drawn`, that a session whose id was not drawn yet has no history and no turns: the
write-back of a turn that extends what is there adds exactly this turn at the end.

**Scheduler, refinement.** A successful claim is `Begin`, the release of a session is `End`
with the tokens its turn has by then, `create_session` and `delete_session` are `Create` and
`Delete`, and the rest stutters (`Unseen`): the queue, the rounds and `stop()` show only
through the releases they cause. Two facts are needed besides: `Bounded`, that a request
with all its tokens is being retired or has its end mark, so that a turn never grows beyond
its limit; and
`TurnTable`, that the turn the mapping picks for a session with `CHOOSE` is the one request
in flight for it, which is `TurnsHoldSessions`.

**Serving.** Four invariants, each resting on the one before:

* `HandlerInv`: the types and, in `Progress`, what a handler at its `pc` may rely on. A
  handler that goes to a scheduler has one left to try, one that waits has a request
  (`calls[c] > 0`), and so has every call in the executor.
* `HomeInv`, for `OwnersAgree`. `Homes` says where a session lives, in three stages: its id
  is drawn and a handler is about to register it, it is registered, it is forgotten.
  `Errands` is what the handlers between two calls know; a handler at `submit` or `delete`
  has been told a device some time ago, and the session may have been deleted since, but if
  it still lives it lives *there*, because an id is never used twice. `Creators` counts the handlers
  that create sessions, so that `CreateAt` finds an id (`FreeId`) and its `CHOOSE` means one.
  `SortedIsStable` says that the devices `_by_load` gives are all of them, each once: the ranks
  of a finite total order, a counting argument.
* `TurnInv`, for `TurnsAtHome` and `StoppedAnswersAll`. A request is with one scheduler
  (`Apart`), a new one with none (`Counted`), and who holds one knows how far it is
  (`Staged`); a request that is not done is held by somebody, which is what `stop()` needs to
  answer all. A turn's session lives and is busy where the turn is (`Turns`), and
  `DeleteAt` refuses busy sessions. From the `Cut` on there are no handlers (`Shutdown`), so
  nothing is put on a scheduler that was stopped already.
* `AnswerInv`, for `AnswersAreTrue`: what a stream has sent and what is left in its queue are
  the tokens in order and then at most one end mark (`Streamed`), which survives the
  handler's reading and the thread's writing in any order; a request that ends has
  all its tokens or an error (`Result`).

Sorting by load is written with ranks because the library's sorting operator is opaque to the prover.

**PagedSession.** The tokens of the conversation are numbered, so `ids`, `history` and what
is primed are `Upto(n)` for some `n` (`Numbered`), and one is a prefix of another exactly if
it is not longer (`ExtendsByLength`). What is left to follow are lengths: `Behind`, that
what is primed is shorter than the turn in flight, and `Followed`, that the cache reaches to
the last token fed while nothing was batched and nothing failed. Both `CacheFollowsSequence`
and `NeverRewound` follow from the same invariant.

**PagedGeneration.** A script is data, so the first third of the proofs says where in a
script a state can be: `Control` (what is left is the end of the script's first statements or
of its round), `StatementTable` and `PlaceOf` (which scripts have a statement, and where),
and one lemma per statement (`LeftAtForward`, `LeftAtBuild`, ...) that says which statements
are still to come when it is next. From there on a state is described by the statements that
are `Left`. The invariant is `TextInv`. `SameTokens` alone says nothing about what the next
forward gets, and `NoTokenLost` nothing about the middle of a round; what links them is

* `BlocksRight`: block b, whether registered or still to be put, holds the tokens `b * T + 1` to
  `(b + 1) * T`, and the tail goes on where the blocks end;
* `StoreRight`: blocks and tail together are as long as the text that was fed, or one token
  short of it between a forward and the append that follows it (`Growing`);
* `CachesRight`: the cache the next forward gets, with what its layers read from the store, is
  the text so far, from the statement that makes it until the forward;
* `TokensRight` and `Fresh`, what was generated and what a script starts from.

The text is written as segments of consecutive numbers (`Segment`), and the lemmas on cutting,
joining and numbering them are where the arithmetic of `div` and `%` is: a token more makes
at most one block more, the whole cache and the grown tail cut at the same place, and entry
i of the stored text is entry `1 + (i - 1) % T` of block `(i - 1) div T`. Where blocks are and which copies
failed does not enter, because a block that is missing stops the script at `Reconstruct` or
`Stream`, and a call that is retried resumes at its forward's statements.

Where blocks are is the second invariant, `SyncInv`, the invariant of `KVBlockStore` with what
the pager and the store know of each other. Every step of a script is a step of
`KVBlockStore` or starts a new store (`StoreMoves`), which keeps the former. `PagerInSync`
speaks of the moment between two rounds and is not inductive: the pager is told of blocks,
asked and obeyed in three different statements. What holds in between is

* `Known`: the pager knows no block that the store does not have, and all of them but those
  the step under way has added and `force_rebalance` has not yet seen (`Behind`), whatever
  the length of the attention that `on_step` was given;
* `Applied`: where a round ends with `apply`, that call's target is the pager's VRAM, cut to
  the registered blocks, which by `Known` cuts nothing off;
* `Reloaded`: a script that applies a placement only to reload it has the reload, or its
  failure, as its last call when it ends, so it is never taken for in sync by accident;
* `Calls`: nothing waits to be put while a call runs or after one raised, only a reload is
  retried after a failure, and short of a failure every block is on one of the sides;
* `Placement` and `Offloaded`: the pager's types and that it is untouched before the blocks of
  the prompt are registered; and that `kv_offload` has a block 0 to move, for which
  `GenerationAssumption` asks for more than one block, as `NUM_BLOCKS` of that script is.

**BeamSearch.** `RowsFollowBeams` speaks of the moment between two steps. In between the rows
have been fed and not yet selected, and what holds throughout is `Stored`: block b of a row
holds the entries of its hypothesis from `(b - 1) * T` on, the tail goes on where the blocks
end and is shorter than a block, and together they are as long as the hypothesis, or one
shorter while its last token waits in `input` (`Cached`). A forward appends to the tail and
cuts it (`SplitOf`); a selection gives a row the blocks, tail and mask of a parent and
appends a token to that parent's hypothesis (`SelectIs`). The parent is of the row's own
prompt, which is arithmetic on the numbering of the rows (`ParentOf`). `BeamAssumption` asks of
the prompts what `generate_beam_search` validates: one length, padded on the left. The scores
do not enter.

The scores are the second invariant, `ScoreInv`, which rests on the first. `Summed` says that a
score that is not minus infinity is the charge of its hypothesis computed from scratch on
the unpadded prompt (`TrueScore`); a selection adds one log-probability to a parent's score,
and gives its row the parent's hypothesis. It needs `Offered`, that the log-probabilities
at hand are those of the hypotheses that were fed, which `RowsFollowBeams` supplies, since
the model answers to what a row really attends to; and `Ended`, that the finished flags are
those of the hypotheses, so that a frozen score is taken over with a hypothesis that has its
end mark. `TrueScore` is a recursive sum over the tokens. Instead of an induction, the two
lemmas about such sums look at the least index at which they would be wrong.

`BestReturned` rests on both, and on a third invariant, `RankInv`. Two rows may hold
hypotheses that are the same once they are cut at the end mark; that they are then the
same altogether, and so have one score (`SameCut`), needs `Closed`: a hypothesis that can
still be chosen has only end marks behind its first one. `Closed` and the order of the rows
need that no score is minus infinity when the search ends (`Alive`). That is the initial
scores' doing: all rows but one of a group start impossible, and after the first step none
is, because every group has at least `num_beams` possible candidates, at first the tokens
after its first row and later one continuation of each row, which for a finished row is the
end mark (`PossiblePicks`); `torch.topk` then never takes an impossible one
(`TopIsPossible`), and sampling cannot. This is where `num_beams <= len(vocab)` is used, and
`Bounded` keeps a score that is possible from reaching minus infinity. At the end the
quotients order the rows totally, ties by row as a stable sort does (`AheadOrders`, with the
products across in `Across`), so the ranks number the rows of a group (`Ranks`), as
`Ranking` does for the pager's blocks.

**StreamingAttention.** The state of a row is described by columns alone (`StateOf`): `m` is the
largest score of the columns `Done` so far, `l` and `acc` are their weights under `m`. That a
tile takes `StateOf` for some columns to `StateOf` for these and its own is `OnlineIs`:
rescaling by a power of two is exact for sums of weights (`Rescale` divides without
remainder, because every term has the factor), and a tile without a valid column, before
any valid one, leaves the state as it was, for which `is_empty_so_far` is there. `OnlineLoopIs` takes this through the tiles of
a chunk, whatever their size. The invariant `IInv` is

* `PlanInv`: the launches that are left feed every column at most once per pass, the second
  pass comes after the first and has all its columns before it until the first is over
  (`FirstPass`), and where a row is inactive none of its columns is valid. Its base is the
  longest part: `PlanIs` looks at each of the eight callers and shows that groups, chunks and
  tail cut the columns without gap or overlap;
* `StateInv`: the memory of a row is `StateOf` what is not `Left` for it; a program that waits
  or has folded has the columns of its launch still to come. So programs may run in any
  order;
* `MassInv`: the mass of a block is the sum of its columns that the second pass has done, which
  is nothing or all of them, for its launches take whole blocks (`Whole`);
* `TileInv` and `TypeInv`: what a folded program holds, and that a row past the heads of the
  prototype's tile is never touched.

A program's masked rows have the addresses of the next program's rows; `Address` is shown to
be injective on the rows that are stored, which is arithmetic with `div` and `%`, and is all
that `OnlyOwnRows` needs. At the end nothing is left and every valid column is done; that the
valid columns are those the row attends to is again a matter of each mask (`RowValid`,
`GatherValid`, the window, whose two origins `WindowExact` makes one). With exact numbers `acc[c] * W = w[c] * l` is then an
equation between equal factors. Induction over tiles and columns is again the least index at
which the claim would fail.

**SharedModel.** No lock keeps threads from patching the same model: the lock is that of an
instance. What does is `Exclusive`, that no thread uses a model on which another one
streams; the scheduler has it, since its thread makes all the calls on its device's
model, the instance of the run `SharedModel` has it, and `SharedModelPatch` shows what
happens without it. Under it the invariant says of every call which layers of its model
have its own forward by now (`Fits`, with `Installed`: those below the layer it is at
while it patches, all while it runs, those from there on while it restores), that what it
saved are original forwards, one per layer it has patched (`Stages`), and that a model
nobody is working on is untouched. The last part is why a call that starts to save
originals finds originals. There are two kinds of steps: those that leave the layers alone
(`QuietStep`) and those that set one layer (`LayerStep`). `OneCallAtATime` does not need
`Exclusive`. Its invariant `LockInv` says who `Holds` what: a call has the lock of its
instance until it leaves, and a batch, which takes none, has instances no other thread
calls, which is what `BeginBatch` asks of the scheduler.

**Pager.** Sorting is abstracted by `First(S, n, order)`, the blocks of `S` with fewer than
`n` others before them. For a total order those counts number `S` from 0 (`Ranking`), so
`First` has exactly `n` elements, or all, and none comes after one that was left out
(`FirstTakes`); no argument about sorting, and no induction, is left. The invariant adds to
the type and the budget what `promote_vram_with_hysteresis` and
`promote_ram_with_hysteresis` rely on (`Phase`): `PinsIn`, which is `PinnedFirst` with the
case that pinned blocks fill VRAM made exact, because a loop that stopped with room left
could otherwise admit an unpinned block; and, between the loops, `FilledUp` and
`NoVramSwap`, which the RAM loop keeps. `NoOtherSwap` lifts the one pair at which a loop
stops to all pairs. Idempotence needs to know what the placement of VRAM was chosen from:
after a rebalance `Stable` says that the policy would choose the same set again, where
under `heavy_hitter` that means that the pinned blocks are as `TopPins` orders them and no
swap pays, so that the second call neither fills nor swaps. `FirstIs` says that a set of
the right size that comes first is the one `First` takes.

## 5. What is only model-checked

Liveness (`AcceptedFinishes`, `BusySessionReleased`, `StopAnswersAll`, `Answered`,
`LocksFreed`, `RebalanceEnds`) is out of the prover's reach. Of the safety properties one is
left to TLC, `SmallSearchIsExact` of `BeamSearch`, which compares the search with all sequences
of tokens of a length: a proof needs the number of those sequences, and that the best
continuations of the best prefixes are the best, by induction over their length.

## 6. What is not modelled

* Numbers as floats: rounding, scale and softcap, RoPE and position ids, the rescaling of
  probabilities by temperature, `top_k` and `top_p`. The models keep which token, block,
  row, column and mask enters where.
* In `Serving`: clients that disconnect, the death of a scheduler's thread and `/healthz`,
  `/metrics`, authentication; the statuses of answers are not stored. The bytes of texts.
* The combined step of `batched_decode_step` on several stores: its attention
  (`StreamingAttention`), its effect on one session (`PagedSession`) and its patch
  (`SharedModel`) are modelled apart; its rows' pager steps one after the other are not.
* A NaN score, a negative margin and `rebalance_interval = 0` are excluded by
  `PagerAssumption`; the code validates none of them.
* Bindings, counters, statistics, reports; model loading and argument parsing; the
  scripts of `bench/` that only call the library, and the needle experiments, which use
  none of it. Tests and docs were read for what they assert; the findings quote them.

## 7. Plan

Done, in this order: `Scheduler` with `TurnService`, `KVBlockStore`, `Pager`,
`PagedSession` and their theorems; then `Serving`, `SharedModel`,
`PagedGeneration`, `BeamSearch` and `StreamingAttention`; then the proofs about `SharedModel`,
`Serving`, the rest of what the runs check of `Scheduler`, and the text, the placement and
the store that `PagedGeneration` keeps, the rows, scores and ranks of `BeamSearch`, and the
attention.

What remains: a proof of `SmallSearchIsExact`, and the pager steps of the rows of a batched
step, composed with `PagedGeneration`.
