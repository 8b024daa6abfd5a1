----------------------------- MODULE SharedModel -----------------------------
(***************************************************************************)
(* What calls on PagedModel instances (pager_hf/paged_model.py) and        *)
(* batched_decode_step (pager_hf/batched_decode.py) do to the one thing    *)
(* instances share: the model, whose layers' forward methods a streaming   *)
(* call replaces for its duration.                                         *)
(*                                                                         *)
(* A forward is Stock or the label of the call that built it.  Patching, *)
(* running and restoring go layer by layer, and calls of other threads run *)
(* in between.  Tokens, caches and scores are the other modules' subject.  *)
(*                                                                         *)
(* Definitions named ...Mutant are slips the properties must catch; none is *)
(* part of the specification.                                              *)
(***************************************************************************)
EXTENDS Integers, Sequences, FiniteSets

CONSTANTS
  Threads,      \* the callers
  Instances,    \* the PagedModels
  Uses,         \* thread -> the instances it calls
  ModelOf,      \* instance -> its model
  Streaming,    \* the instances with use_streaming_attention
  Unsupported,  \* the models whose model_type no streaming call accepts
  Layers,       \* the number of decoder layers
  MaxSteps,     \* bound on the forward steps of a call
  NoThread      \* an unlocked lock

ASSUME SharedAssumption ==
  /\ Uses \in [Threads -> SUBSET Instances]
  /\ DOMAIN ModelOf = Instances
  /\ Streaming \subseteq Instances
  /\ Layers \in Nat \ {0} /\ MaxSteps \in Nat \ {0}
  /\ NoThread \notin Threads

Models == {ModelOf[i] : i \in Instances}

\* The forward a layer has when the model is loaded.
Stock == <<"stock", {}>>

VARIABLES
  forward,  \* model -> layer -> layer.self_attn.forward
  lock,     \* instance -> the thread that holds _lock
  store,    \* the instances whose _store is not None
  call      \* thread -> the call in progress, see Idle

vars == <<forward, lock, store, call>>

\* op and who: the function and the instances it was called on; pc; layer: the
\* layer it is at; saved: originals; ran: the forwards the current pass through
\* the model has executed; steps: forward steps so far; raised: the call is on
\* its way out with an exception.
Idle ==
  [op |-> "none", who |-> {}, pc |-> "idle", layer |-> 1, saved |-> <<>>,
   ran |-> {}, steps |-> 0, raised |-> FALSE]

Init ==
  /\ forward = [m \in Models |-> [l \in 1 .. Layers |-> Stock]]
  /\ lock = [i \in Instances |-> NoThread]
  /\ store = {}
  /\ call = [t \in Threads |-> Idle]

Own(t) == <<call[t].op, call[t].who>>
ModelAt(t) == ModelOf[CHOOSE i \in call[t].who : TRUE]
Streams(t) == call[t].who \subseteq Streaming
At(t, pc) == call[t].pc = pc
Become(t, c) == call' = [call EXCEPT ![t] = c]
Goto(t, pc) ==
  Become(t, [call[t] EXCEPT !.pc = pc, !.layer = 1, !.ran = {}])
Leave(t, pc) ==
  Become(t, [call[t] EXCEPT !.pc = pc, !.layer = 1, !.ran = {},
                            !.raised = TRUE])

\* _acquire_or_raise, when the lock is free.
Acquire(t, i) == lock[i] = NoThread /\ lock' = [lock EXCEPT ![i] = t]

\* generate, generate_beam_search or reset.
Begin(t, op, i) ==
  /\ At(t, "idle")
  /\ Acquire(t, i)
  /\ Become(t, [Idle EXCEPT !.op = op, !.who = {i}, !.pc = "validate"])
  /\ UNCHANGED <<forward, store>>

\* "Another generate() or reset() call is already running": an error for the
\* caller, which leaves the call in flight alone.
Refuse(t, i) ==
  /\ At(t, "idle")
  /\ lock[i] # NoThread
  /\ UNCHANGED vars

\* The arguments are checked; generate continues the session there is.
Validate(t) ==
  /\ At(t, "validate") /\ call[t].op \in {"generate", "beam"}
  /\ \/ Leave(t, "exit")
     \/ Goto(t, IF call[t].op = "beam" \/ call[t].who \cap store = {}
                THEN "prefill" ELSE "patch")
  /\ UNCHANGED <<forward, lock, store>>

Reset(t) ==
  /\ At(t, "validate") /\ call[t].op = "reset"
  /\ store' = store \ call[t].who
  /\ Goto(t, "exit")
  /\ UNCHANGED <<forward, lock>>

\* One layer of a pass through the model.
RunLayer(t) ==
  LET ran == forward[ModelAt(t)][call[t].layer] IN
  Become(t, [call[t] EXCEPT !.layer = @ + 1, !.ran = @ \cup {ran}])

\* _start_session: the prefix goes through the model before the patch.
Prefill(t) ==
  /\ At(t, "prefill")
  /\ IF call[t].layer <= Layers
     THEN RunLayer(t) /\ UNCHANGED store
     ELSE Goto(t, "patch") /\ store' = store \cup call[t].who
  /\ UNCHANGED <<forward, lock>>

PrefillRaises(t) ==
  /\ At(t, "prefill") /\ call[t].layer <= Layers
  /\ Leave(t, "exit")
  /\ UNCHANGED <<forward, lock, store>>

\* _patch_layers_for_streaming: refused for an unknown model_type, else layer
\* by layer; without streaming the model runs as it is.
Patch(t) ==
  /\ At(t, "patch")
  /\ UNCHANGED <<lock, store>>
  /\ LET m == ModelAt(t)
         l == call[t].layer
     IN  CASE ~Streams(t) -> Goto(t, "run") /\ UNCHANGED forward
           [] Streams(t) /\ m \in Unsupported ->
                Leave(t, "exit") /\ UNCHANGED forward
           [] Streams(t) /\ m \notin Unsupported /\ l <= Layers ->
                /\ Become(t, [call[t] EXCEPT !.layer = l + 1,
                                !.saved = Append(@, forward[m][l])])
                /\ forward' = [forward EXCEPT ![m][l] = Own(t)]
           [] OTHER -> Goto(t, "run") /\ UNCHANGED forward

After(t) == IF Streams(t) THEN "unpatch" ELSE "exit"

\* A forward step, layer by layer; then another one, or the loop ends.
Run(t) ==
  /\ At(t, "run")
  /\ IF call[t].layer <= Layers THEN RunLayer(t)
     ELSE \/ Goto(t, After(t))
          \/ /\ call[t].steps + 1 < MaxSteps /\ call[t].op # "batch"
             /\ Become(t, [call[t] EXCEPT !.layer = 1, !.ran = {},
                                          !.steps = @ + 1])
  /\ UNCHANGED <<forward, lock, store>>

\* The layers stay patched when a step raises.
RunRaisesMutant(t) ==
  /\ At(t, "run")
  /\ Leave(t, "exit")
  /\ UNCHANGED <<forward, lock, store>>

\* A step raises: finally.
RunRaises(t) ==
  /\ At(t, "run")
  /\ Leave(t, After(t))
  /\ UNCHANGED <<forward, lock, store>>

\* zip(layers[1:], originals)
UnpatchMutant(t) ==
  /\ At(t, "unpatch")
  /\ IF call[t].layer < Layers
     THEN /\ forward' = [forward EXCEPT ![ModelAt(t)][call[t].layer + 1] =
                                          call[t].saved[call[t].layer]]
          /\ Become(t, [call[t] EXCEPT !.layer = @ + 1])
     ELSE Goto(t, "exit") /\ UNCHANGED forward
  /\ UNCHANGED <<lock, store>>

\* _unpatch_layers; the finally of batched_decode_step.
Unpatch(t) ==
  /\ At(t, "unpatch")
  /\ IF call[t].layer <= Layers
     THEN /\ forward' = [forward EXCEPT ![ModelAt(t)][call[t].layer] =
                                          call[t].saved[call[t].layer]]
          /\ Become(t, [call[t] EXCEPT !.layer = @ + 1])
     ELSE Goto(t, "exit") /\ UNCHANGED forward
  /\ UNCHANGED <<lock, store>>

\* Only a call that returns releases the lock.
ExitMutant(t) ==
  /\ At(t, "exit")
  /\ lock' = [i \in Instances |->
                IF i \in call[t].who /\ call[t].op # "batch"
                   /\ ~call[t].raised
                THEN NoThread ELSE lock[i]]
  /\ Become(t, Idle)
  /\ UNCHANGED <<forward, store>>

\* The outer finally; batched_decode_step holds no lock.
Exit(t) ==
  /\ At(t, "exit")
  /\ lock' = [i \in Instances |->
                IF i \in call[t].who /\ call[t].op # "batch"
                THEN NoThread ELSE lock[i]]
  /\ Become(t, Idle)
  /\ UNCHANGED <<forward, store>>

\* batched_decode_step(sessions): the checks that raise leave nothing behind,
\* so only calls that pass them are taken.  It takes no lock: its caller, the
\* scheduler's thread, gives it sessions that no other thread calls.
BeginBatch(t, sessions) ==
  /\ At(t, "idle")
  /\ sessions # {} /\ sessions \subseteq store \cap Streaming
  /\ \A u \in Threads \ {t} : sessions \cap Uses[u] = {}
  /\ \A i, j \in sessions : ModelOf[i] = ModelOf[j]
  /\ \A i \in sessions : ModelOf[i] \notin Unsupported
  /\ Become(t, [Idle EXCEPT !.op = "batch", !.who = sessions,
                                   !.pc = "patch"])
  /\ UNCHANGED <<forward, lock, store>>

Start(t) ==
  \/ \E op \in {"generate", "beam", "reset"}, i \in Uses[t] : Begin(t, op, i)
  \/ \E i \in Uses[t] : Refuse(t, i)
  \/ \E sessions \in SUBSET Uses[t] : BeginBatch(t, sessions)

Continue(t) ==
  \/ Validate(t) \/ Reset(t) \/ Prefill(t) \/ PrefillRaises(t)
  \/ Patch(t) \/ Run(t) \/ RunRaises(t) \/ Unpatch(t) \/ Exit(t)

Next == \E t \in Threads : Start(t) \/ Continue(t)

\* A thread that is inside a call goes on.
Fairness == \A t \in Threads : WF_vars(Continue(t))
Spec == Init /\ [][Next]_vars /\ Fairness
-----------------------------------------------------------------------------
Labels == {"stock", "generate", "beam", "batch"} \X SUBSET Instances

TypeOK ==
  /\ forward \in [Models -> [1 .. Layers -> Labels]]
  /\ lock \in [Instances -> Threads \cup {NoThread}]
  /\ store \subseteq Instances
  /\ \A t \in Threads :
       /\ call[t].pc \in {"idle", "validate", "prefill", "patch", "run",
                          "unpatch", "exit"}
       /\ call[t].who \subseteq Uses[t]
       /\ call[t].layer \in 1 .. Layers + 1
       /\ Len(call[t].saved) <= Layers
       /\ call[t].steps \in 0 .. MaxSteps - 1

\* Every layer of a pass runs the forward that the call means it to run: the
\* model's own while it prefills or does not stream, else the one the call
\* itself installed, whatever calls ran before and however they ended.
OwnForward ==
  \A t \in Threads :
    /\ At(t, "prefill") => call[t].ran \subseteq {Stock}
    /\ At(t, "run") =>
         call[t].ran \subseteq {IF Streams(t) THEN Own(t) ELSE Stock}

\* A model that no call has patched is as it was loaded.
Restored ==
  \A m \in Models :
    (\A t \in Threads : call[t].pc \in {"patch", "run", "unpatch"} =>
                          ModelAt(t) # m)
    => \A l \in 1 .. Layers : forward[m][l] = Stock

\* A session is in the hands of one call: two calls never work on the same
\* instance, whichever threads they come from.
OneCallPerInstance ==
  \A t, u \in Threads : t # u => call[t].who \cap call[u].who = {}

\* A lock is released again, on every path out of a call.
LocksFreed ==
  \A i \in Instances : lock[i] # NoThread ~> lock[i] = NoThread
=============================================================================
