---------------------------- MODULE PagedSession ----------------------------
(***************************************************************************)
(* The token bookkeeping of one PagedModel (pager_hf/paged_model.py) while *)
(* the scheduler (pager_hf/serving/scheduler.py) serves the turns of one   *)
(* session on it: generate() with one new token, or one row of             *)
(* batched_decode_step (pager_hf/batched_decode.py).                       *)
(*                                                                         *)
(* The KV cache (full blocks and tail) is the sequence of the tokens that  *)
(* were forward-passed.  Tokens are numbered in the order in which they    *)
(* enter the conversation, so all of them differ.  Whether other sessions  *)
(* share this one's tail length, hence whether a step is batched, is a     *)
(* nondeterministic choice.                                                *)
(*                                                                         *)
(* Definitions named ...Mutant are slips the properties must catch; none is *)
(* part of the specification.                                              *)
(***************************************************************************)
EXTENDS Integers, SequencesExt

CONSTANTS
  MaxTokens,  \* bound on the tokens of the conversation
  Prompts,    \* the lengths of a turn's own input_ids
  CanBatch,   \* use_streaming_attention, with other sessions to batch with
  MayFail     \* whether a forward pass, or what follows it, may raise

ASSUME SessionAssumption ==
  /\ MaxTokens \in Nat
  /\ Prompts \subseteq Nat \ {0, 1}
  /\ {CanBatch, MayFail} \subseteq BOOLEAN

VARIABLES
  store,    \* whether self._store is not None
  cache,    \* the tokens forward-passed into the store and the tail
  primed,   \* self._primed_prefix, <<>> for None; _primed_tokens is its length
  ids,      \* req.input_ids of the turn in flight, else of the last one
  history,  \* session.input_ids, <<>> for None
  fed,      \* inside generate(): how many of ids the cache should hold
  pc,       \* "idle", between the steps of a "turn", or inside "generate"
  clean     \* no step was batched or failed so far; read by the properties only

vars == <<store, cache, primed, ids, history, fed, pc, clean>>

Init ==
  /\ store = FALSE
  /\ cache = <<>> /\ primed = <<>>
  /\ ids = <<>> /\ history = <<>>
  /\ fed = 0
  /\ pc = "idle"
  /\ clean = TRUE

\* submit_turn: the history and n new tokens.
SubmitTurn(n) ==
  /\ pc = "idle"
  /\ Len(history) + n < MaxTokens
  /\ ids' = history \o [k \in 1 .. n |-> Len(history) + k]
  /\ pc' = "turn"
  /\ UNCHANGED <<store, cache, primed, history, fed, clean>>

\* The tokens of a turn that failed are dropped.
FailMutant ==
  /\ pc' = "idle"
  /\ fed' = 0
  /\ clean' = FALSE
  /\ UNCHANGED <<ids, history>>

\* The step raised: _retire keeps the request's tokens as the history.
Fail ==
  /\ pc' = "idle"
  /\ history' = ids
  /\ fed' = 0
  /\ clean' = FALSE
  /\ UNCHANGED ids

\* A new token: the turn goes on, or _retire ends it (EOS, max_new_tokens).
Emit ==
  /\ ids' = Append(ids, Len(ids) + 1)
  /\ \/ pc' = "turn" /\ Len(ids') < MaxTokens /\ UNCHANGED history
     \/ pc' = "idle" /\ history' = ids'

\* generate() on a PagedModel without a store: all but the last token.
StartSession ==
  /\ pc = "turn" /\ ~store
  /\ store' = TRUE
  /\ cache' = Front(ids)
  /\ fed' = Len(ids) - 1
  /\ pc' = "generate"
  /\ UNCHANGED <<primed, ids, history, clean>>

StartFails ==
  /\ pc = "turn" /\ ~store /\ MayFail
  /\ Fail
  /\ UNCHANGED <<store, cache, primed>>

\* The checks of _extend_session.  With _primed_prefix still None (the first
\* generate() failed after it built the store) the comparison itself raises.
Extends == Len(ids) - 1 >= Len(primed) /\ IsPrefix(primed, ids)

BeginExtend ==
  /\ pc = "turn" /\ store
  /\ Extends /\ primed # <<>>
  /\ fed' = Len(primed)
  /\ pc' = "generate"
  /\ UNCHANGED <<store, cache, primed, ids, history, clean>>

Reject ==
  /\ pc = "turn" /\ store
  /\ ~Extends \/ primed = <<>>
  /\ Fail
  /\ UNCHANGED <<store, cache, primed>>

\* The loop over pending.
ExtendOne ==
  /\ pc = "generate" /\ fed < Len(ids) - 1
  /\ cache' = Append(cache, ids[fed + 1])
  /\ fed' = fed + 1
  /\ UNCHANGED <<store, primed, ids, history, pc, clean>>

\* The token just sampled counts as primed.
DecodeOneMutant ==
  /\ pc = "generate" /\ fed = Len(ids) - 1
  /\ cache' = Append(cache, Last(ids))
  /\ Emit
  /\ primed' = ids'
  /\ fed' = 0
  /\ UNCHANGED <<store, clean>>

\* The last token is forward-passed and the next one sampled; only now does
\* generate() record what is primed.
DecodeOne ==
  /\ pc = "generate" /\ fed = Len(ids) - 1
  /\ cache' = Append(cache, Last(ids))
  /\ primed' = ids
  /\ fed' = 0
  /\ Emit
  /\ UNCHANGED <<store, clean>>

\* _forward_step raises before it grew the tail, or after (apply_tiers).
ForwardFails ==
  /\ pc = "generate" /\ MayFail
  /\ cache' \in {cache, Append(cache, ids[fed + 1])}
  /\ Fail
  /\ UNCHANGED <<store, primed>>

\* _step_batched: the last token only, and nothing is recorded as primed.
DecodeBatched ==
  /\ pc = "turn" /\ store /\ CanBatch
  /\ cache' = Append(cache, Last(ids))
  /\ Emit
  /\ clean' = FALSE
  /\ UNCHANGED <<store, primed, fed>>

BatchFails ==
  /\ pc = "turn" /\ store /\ CanBatch /\ MayFail
  /\ cache' \in {cache, Append(cache, Last(ids))}
  /\ Fail
  /\ UNCHANGED <<store, primed>>

Next ==
  \/ \E n \in Prompts : SubmitTurn(n)
  \/ StartSession \/ StartFails
  \/ BeginExtend \/ Reject \/ ExtendOne
  \/ DecodeOne \/ ForwardFails
  \/ DecodeBatched \/ BatchFails

Spec == Init /\ [][Next]_vars
-----------------------------------------------------------------------------
TypeOK ==
  /\ store \in BOOLEAN
  /\ cache \in Seq(Nat)
  /\ primed \in Seq(Nat)
  /\ ids \in Seq(Nat)
  /\ history \in Seq(Nat)
  /\ fed = 0 \/ fed \in 1 .. Len(ids) - 1
  /\ pc \in {"idle", "turn", "generate"}
  /\ clean \in BOOLEAN

\* As long as no step was batched or failed the cache holds, at every point
\* inside a generate() call and between calls, the sequence's tokens in order
\* and once: the prefix already primed is neither fed again nor assumed too long.
CacheFollowsSequence ==
  clean =>
  /\ pc = "generate" => cache = SubSeq(ids, 1, fed)
  /\ pc # "generate" /\ store => cache = primed /\ Extends
  /\ pc = "idle" /\ store => cache = Front(ids)

\* Whatever was batched and whatever failed before, the next turn extends what
\* the PagedModel has primed: its ValueError is not for the scheduler's turns.
NeverRewound == pc = "turn" => Extends

\* _finish_step's docstring: input_ids are kept accurate so that a batched
\* request can fall back to _step_single cleanly.  Also _extend_session: "feed
\* any tokens not yet primed".
NoTokenFedTwice == IsInjective(cache)

\* README, serving: each new turn's tokens are appended to the sequence and the
\* new tail gets forward-passed.  Here: once a turn is over.
NoTokenSkipped ==
  pc = "idle" /\ ids # <<>> => ToSet(Front(ids)) \subseteq ToSet(cache)
=============================================================================
