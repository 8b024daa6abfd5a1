----------------------------- MODULE Scheduler -----------------------------
(***************************************************************************)
(* pager_hf/serving/scheduler.py: ContinuousBatchingScheduler.             *)
(*                                                                         *)
(* Three kinds of threads share the scheduler object:                      *)
(*   - the callers (HTTP handlers) run submit, submit_turn,                *)
(*     create_session and delete_session;                                  *)
(*   - the scheduler thread runs _run: admit, then one decode round;       *)
(*   - one thread runs stop.                                               *)
(* A step of the model is what one thread does between two points where    *)
(* another thread can observe it: one access of the queue, of _active or   *)
(* of an Event, or one section under _sessions_lock.                       *)
(*                                                                         *)
(* A token is <<r, k>>: the prompt of request r for k = 0, the k-th token  *)
(* generated for r otherwise.  What the model does not decide (whether a   *)
(* token is EOS, whether a decode step raises, which sessions share a tail *)
(* length) is a nondeterministic choice.                                   *)
(*                                                                         *)
(* Definitions named ...Mutant are slips the properties must catch; none is *)
(* part of the specification.                                              *)
(***************************************************************************)
EXTENDS Integers, SequencesExt

CONSTANTS
  Callers,        \* the threads that call the public methods
  Requests,       \* ServingRequest objects, one per accepted or rejected call
  Sessions,       \* the session ids create_session can draw
  OneShot,        \* req.session_id of a submit() request: None in the code
  None,           \* no request
  MaxConcurrent,  \* max_concurrent_sessions
  MaxQueue,       \* max_queue_depth
  MaxTokens,      \* max_new_tokens, the same for every request
  CanBatch,       \* use_streaming_attention
  BadSampling,    \* requests whose sampling parameters generate() rejects
  StepMayFail,    \* whether a decode step may raise for another reason
  StopMayTimeOut, \* whether stop() is given a timeout
  CallsDuringStop \* FALSE when, as in __main__.py, the HTTP server has ended
                  \* (so no call is in progress or begins) before stop()

ASSUME SchedulerAssumption ==
  /\ MaxConcurrent \in Nat \ {0}
  /\ MaxQueue \in Nat
  /\ MaxTokens \in Nat \ {0}
  /\ IsFiniteSet(Callers)
  /\ BadSampling \subseteq Requests
  /\ OneShot \notin Sessions
  /\ None \notin Requests
  /\ None \notin Sessions \cup {OneShot}
  /\ {CanBatch, StepMayFail, StopMayTimeOut, CallsDuringStop} \subseteq BOOLEAN

VARIABLES
  \* the callers
  pc,         \* where each caller is in its call
  arg,        \* the request its call is about
  seen,       \* len(self._active) as load() read it
  \* the requests
  session,    \* req.session_id; None before the call that creates r
  ids,        \* req.input_ids
  gen,        \* len(req.generated_tokens)
  sentinel,   \* requests whose output_queue holds the final None
  done,       \* requests whose done event is set
  error,      \* requests whose error is set
  \* shared between threads
  incoming,   \* self._incoming
  active,     \* self._active
  sessions,   \* the keys of self._sessions
  minted,     \* every session id drawn so far: uuid4 never repeats
  busy,       \* self._busy_sessions
  history,    \* session.input_ids, <<>> for None
  stored,     \* the PagedModels whose _store is not None
  draining,   \* self._draining
  stopping,   \* self._stop
  \* the scheduler thread
  tpc,        \* where _run is
  hand,       \* the request _admit_new_requests has popped and not appended
  snapshot,   \* the snapshot of _active this round works on; the next three
              \* are sets of positions in it
  fresh,      \* the fresh requests not stepped yet
  ready,      \* the started requests not stepped yet
  group,      \* of this batched step: requests whose token is not handled yet
  raised,     \* whether this batched step raised
  \* _retire, run by the scheduler thread or by stop()
  retiring,   \* the request being retired
  rpc,        \* the next statement of _retire
  \* the thread in stop()
  spc

callerVars == <<pc, arg, seen>>
requestVars == <<session, ids, gen, sentinel, done, error>>
registryVars == <<sessions, minted, busy, history>>
roundVars == <<snapshot, fresh, ready, group, raised>>
retireVars == <<retiring, rpc>>
stopVars == <<draining, stopping, spc>>
vars == <<callerVars, requestVars, incoming, active, registryVars, stored,
          tpc, hand, roundVars, retireVars, stopVars>>

Init ==
  /\ pc = [c \in Callers |-> "ready"]
  /\ arg = [c \in Callers |-> None]
  /\ seen = [c \in Callers |-> 0]
  /\ session = [r \in Requests |-> None]
  /\ ids = [r \in Requests |-> <<>>]
  /\ gen = [r \in Requests |-> 0]
  /\ sentinel = {} /\ done = {} /\ error = {}
  /\ incoming = <<>> /\ active = <<>>
  /\ sessions = {} /\ minted = {} /\ busy = {}
  /\ history = [s \in Sessions |-> <<>>]
  /\ stored = {}
  /\ draining = FALSE /\ stopping = FALSE /\ spc = "none"
  /\ tpc = "off" /\ hand = None
  /\ snapshot = <<>> /\ fresh = {} /\ ready = {} /\ group = {} /\ raised = FALSE
  /\ retiring = None /\ rpc = "sentinel"

\* The PagedModel a request decodes with: its session's, or its own.
PagedModel(r) == IF session[r] = OneShot THEN r ELSE session[r]
-----------------------------------------------------------------------------
(* The callers *)

MayCall(c) == pc[c] = "ready" /\ (CallsDuringStop \/ spc = "none")

\* submit() and submit_turn() begin with _check_capacity, whose load() reads
\* len(self._active) first ...
BeginSubmit(c, r, s) ==
  /\ MayCall(c)
  /\ session[r] = None
  /\ session' = [session EXCEPT ![r] = s]
  /\ arg' = [arg EXCEPT ![c] = r]
  /\ seen' = [seen EXCEPT ![c] = Len(active)]
  /\ pc' = [pc EXCEPT ![c] = "depth"]
  /\ UNCHANGED <<ids, gen, sentinel, done, error, incoming, active,
                 registryVars, stored, tpc, hand, roundVars, retireVars,
                 stopVars>>

\* ... and self._incoming.qsize() next: SchedulerAtCapacityError, or go on.
CheckCapacity(c) ==
  /\ pc[c] = "depth"
  /\ pc' = [pc EXCEPT ![c] =
        IF seen[c] + Len(incoming) >= MaxConcurrent + MaxQueue THEN "ready"
        ELSE IF session[arg[c]] = OneShot THEN "put" ELSE "claim"]
  /\ ids' = IF pc'[c] = "put"
            THEN [ids EXCEPT ![arg[c]] = <<<<arg[c], 0>>>>]
            ELSE ids
  /\ arg' = IF pc'[c] = "ready" THEN [arg EXCEPT ![c] = None] ELSE arg
  /\ seen' = [seen EXCEPT ![c] = 0]
  /\ UNCHANGED <<session, gen, sentinel, done, error, incoming,
                 active, registryVars, stored, tpc, hand, roundVars,
                 retireVars, stopVars>>

\* A busy session is not refused.
ClaimSessionMutant(c) ==
  LET r == arg[c]
      s == session[r] IN
  /\ pc[c] = "claim"
  /\ s \in sessions
  /\ busy' = busy \cup {s}
  /\ ids' = [ids EXCEPT ![r] = Append(history[s], <<r, 0>>)]
  /\ pc' = [pc EXCEPT ![c] = "put"]
  /\ UNCHANGED <<arg, seen, session, gen, sentinel, done, error, incoming,
                 active, sessions, minted, history, stored, tpc, hand,
                 roundVars, retireVars, stopVars>>

\* The section of submit_turn under _sessions_lock: KeyError, SessionBusyError,
\* or the session becomes busy and the turn is built on its history.
ClaimSession(c) ==
  LET r == arg[c]
      s == session[r] IN
  /\ pc[c] = "claim"
  /\ IF s \in sessions /\ s \notin busy
       THEN /\ busy' = busy \cup {s}
            /\ ids' = [ids EXCEPT ![r] = Append(history[s], <<r, 0>>)]
            /\ pc' = [pc EXCEPT ![c] = "put"]
            /\ UNCHANGED arg
       ELSE /\ pc' = [pc EXCEPT ![c] = "ready"]
            /\ arg' = [arg EXCEPT ![c] = None]
            /\ UNCHANGED <<busy, ids>>
  /\ UNCHANGED <<seen, session, gen, sentinel, done, error, incoming,
                 active, sessions, minted, history, stored, tpc, hand,
                 roundVars, retireVars, stopVars>>

Enqueue(c) ==
  /\ pc[c] = "put"
  /\ incoming' = Append(incoming, arg[c])
  /\ pc' = [pc EXCEPT ![c] = "ready"]
  /\ arg' = [arg EXCEPT ![c] = None]
  /\ UNCHANGED <<seen, requestVars, active, registryVars, stored, tpc,
                 hand, roundVars, retireVars, stopVars>>

\* One section under _sessions_lock; SessionCapacityError changes nothing.
CreateSession(c, s) ==
  /\ MayCall(c)
  /\ Cardinality(sessions) < MaxConcurrent
  /\ s \notin minted
  /\ sessions' = sessions \cup {s}
  /\ minted' = minted \cup {s}
  /\ UNCHANGED <<callerVars, requestVars, incoming, active, busy, history,
                 stored, tpc, hand, roundVars, retireVars, stopVars>>

\* A busy session can be deleted.
DeleteSessionMutant(c, s) ==
  /\ MayCall(c)
  /\ s \in sessions
  /\ sessions' = sessions \ {s}
  /\ history' = [history EXCEPT ![s] = <<>>]
  /\ stored' = stored \ {s}
  /\ UNCHANGED <<callerVars, requestVars, incoming, active, minted, busy, tpc,
                 hand, roundVars, retireVars, stopVars>>

\* One section under _sessions_lock; KeyError and SessionBusyError change
\* nothing.  The history goes with the SessionState.
DeleteSession(c, s) ==
  /\ MayCall(c)
  /\ s \in sessions
  /\ s \notin busy
  /\ sessions' = sessions \ {s}
  /\ history' = [history EXCEPT ![s] = <<>>]
  /\ stored' = stored \ {s}
  /\ UNCHANGED <<callerVars, requestVars, incoming, active, minted, busy, tpc,
                 hand, roundVars, retireVars, stopVars>>

InCall(c) == CheckCapacity(c) \/ ClaimSession(c) \/ Enqueue(c)

Call(c) ==
  \/ \E r \in Requests, s \in Sessions \cup {OneShot} : BeginSubmit(c, r, s)
  \/ \E s \in Sessions : CreateSession(c, s) \/ DeleteSession(c, s)
-----------------------------------------------------------------------------
(* _retire, one statement a step: what comes between them is visible to    *)
(* the callers.  Whoever retires a request does nothing else meanwhile.     *)

BeginRetire(r) == retiring = None /\ retiring' = r /\ rpc' = "sentinel"

PutSentinel ==
  /\ retiring # None /\ rpc = "sentinel"
  /\ sentinel' = sentinel \cup {retiring}
  /\ rpc' = "done"
  /\ UNCHANGED <<callerVars, session, ids, gen, done, error, incoming, active,
                 registryVars, stored, tpc, hand, roundVars, retiring,
                 stopVars>>

SetDone ==
  /\ retiring # None /\ rpc = "done"
  /\ done' = done \cup {retiring}
  /\ rpc' = "remove"
  /\ UNCHANGED <<callerVars, session, ids, gen, sentinel, error, incoming,
                 active, registryVars, stored, tpc, hand, roundVars, retiring,
                 stopVars>>

\* The retired request stays in _active.
RemoveActiveMutant ==
  /\ retiring # None /\ rpc = "remove"
  /\ rpc' = "release"
  /\ UNCHANGED <<callerVars, requestVars, incoming, active, registryVars,
                 stored, tpc, hand, roundVars, retiring, stopVars>>

RemoveActive ==
  /\ retiring # None /\ rpc = "remove"
  /\ active' = RemoveFirst(active, retiring)
  /\ rpc' = "release"
  /\ UNCHANGED <<callerVars, requestVars, incoming, registryVars, stored, tpc,
                 hand, roundVars, retiring, stopVars>>

\* The history is not written back.
ReleaseForgetsMutant ==
  /\ retiring # None /\ rpc = "release"
  /\ busy' = busy \ {session[retiring]}
  /\ retiring' = None /\ rpc' = "sentinel"
  /\ UNCHANGED <<callerVars, requestVars, incoming, active, sessions, minted,
                 history, stored, tpc, hand, roundVars, stopVars>>

\* The session stays busy.
ReleaseKeepsMutant ==
  LET s == session[retiring] IN
  /\ retiring # None /\ rpc = "release"
  /\ history' = IF s \in sessions
                THEN [history EXCEPT ![s] = ids[retiring]]
                ELSE history
  /\ retiring' = None /\ rpc' = "sentinel"
  /\ UNCHANGED <<callerVars, requestVars, incoming, active, sessions, minted,
                 busy, stored, tpc, hand, roundVars, stopVars>>

\* The section under _sessions_lock: the turn's sequence becomes the history.
Release ==
  LET s == session[retiring] IN
  /\ retiring # None /\ rpc = "release"
  /\ busy' = busy \ {s}
  /\ history' = IF s \in sessions
                THEN [history EXCEPT ![s] = ids[retiring]]
                ELSE history
  /\ retiring' = None /\ rpc' = "sentinel"
  /\ UNCHANGED <<callerVars, requestVars, incoming, active, sessions, minted,
                 stored, tpc, hand, roundVars, stopVars>>

Retire == PutSentinel \/ SetDone \/ RemoveActive \/ Release
-----------------------------------------------------------------------------
(* The scheduler thread *)

\* The thread is in _run and not inside _retire.
At(label) == tpc = label /\ retiring = None

Start ==
  /\ tpc = "off"
  /\ tpc' = "top"
  /\ UNCHANGED <<callerVars, requestVars, incoming, active, registryVars,
                 stored, hand, roundVars, retireVars, stopVars>>

\* The head of _run's loop: the two events decide what comes next.
LoopTop ==
  /\ At("top")
  /\ tpc' = IF stopping THEN "dead" ELSE IF draining THEN "check" ELSE "admit"
  /\ UNCHANGED <<callerVars, requestVars, incoming, active, registryVars,
                 stored, hand, roundVars, retireVars, stopVars>>

\* One request too many is admitted.
AdmitPopMutant ==
  /\ At("admit") /\ hand = None
  /\ Len(active) <= MaxConcurrent
  /\ incoming # <<>>
  /\ hand' = Head(incoming)
  /\ incoming' = Tail(incoming)
  /\ UNCHANGED <<callerVars, requestVars, active, registryVars, stored, tpc,
                 roundVars, retireVars, stopVars>>

\* _admit_new_requests: get_nowait, then append.  In between the request is in
\* neither list, and load() does not count it.
AdmitPop ==
  /\ At("admit") /\ hand = None
  /\ Len(active) < MaxConcurrent
  /\ incoming # <<>>
  /\ hand' = Head(incoming)
  /\ incoming' = Tail(incoming)
  /\ UNCHANGED <<callerVars, requestVars, active, registryVars, stored, tpc,
                 roundVars, retireVars, stopVars>>

\* The request is put in front of the ones already active.
AdmitFrontMutant ==
  /\ At("admit") /\ hand # None
  /\ active' = <<hand>> \o active
  /\ hand' = None
  /\ UNCHANGED <<callerVars, requestVars, incoming, registryVars, stored, tpc,
                 roundVars, retireVars, stopVars>>

\* The request is popped and never appended.
AdmitLosesMutant ==
  /\ At("admit") /\ hand # None
  /\ hand' = None
  /\ UNCHANGED <<callerVars, requestVars, incoming, active, registryVars,
                 stored, tpc, roundVars, retireVars, stopVars>>

AdmitAppend ==
  /\ At("admit") /\ hand # None
  /\ active' = Append(active, hand)
  /\ hand' = None
  /\ UNCHANGED <<callerVars, requestVars, incoming, registryVars, stored, tpc,
                 roundVars, retireVars, stopVars>>

AdmitEnd ==
  /\ At("admit") /\ hand = None
  /\ Len(active) >= MaxConcurrent \/ incoming = <<>>
  /\ tpc' = "check"
  /\ UNCHANGED <<callerVars, requestVars, incoming, active, registryVars,
                 stored, hand, roundVars, retireVars, stopVars>>

\* Nothing active: return when draining, else wait 5 ms and loop.
NothingActive ==
  /\ At("check") /\ active = <<>>
  /\ tpc' = IF draining THEN "dead" ELSE "top"
  /\ UNCHANGED <<callerVars, requestVars, incoming, active, registryVars,
                 stored, hand, roundVars, retireVars, stopVars>>

\* _run_once takes its snapshot of _active and splits it.
BeginRound ==
  /\ At("check") /\ active # <<>>
  /\ tpc' = "round"
  /\ snapshot' = active
  /\ fresh' = {i \in DOMAIN active : CanBatch /\ PagedModel(active[i]) \notin stored}
  /\ ready' = DOMAIN active \ fresh'
  /\ UNCHANGED <<callerVars, requestVars, incoming, active, registryVars,
                 stored, hand, group, raised, retireVars, stopVars>>

\* The position of S that comes first in the snapshot.
IsFirst(i, S) == i \in S /\ \A j \in S : i <= j

\* The token is handed out and input_ids does not grow.
FinishStepMutant(r) ==
  /\ gen' = [gen EXCEPT ![r] = @ + 1]
  /\ UNCHANGED ids
  /\ \/ BeginRetire(r)
     \/ gen'[r] < MaxTokens /\ UNCHANGED retireVars

\* _finish_step: the token is handed out; EOS or the last one retires r.
FinishStep(r) ==
  /\ gen' = [gen EXCEPT ![r] = @ + 1]
  /\ ids' = [ids EXCEPT ![r] = Append(@, <<r, gen[r] + 1>>)]
  /\ \/ BeginRetire(r)
     \/ gen'[r] < MaxTokens /\ UNCHANGED retireVars

\* An exception caught by _step_single or _step_batched.
FailStep(r) ==
  /\ error' = error \cup {r}
  /\ BeginRetire(r)

\* _step_single: one generate() call.  It may have built the store before it
\* raised, but never when it rejects the sampling parameters.
StepSingle(r) ==
  \/ /\ r \notin BadSampling
     /\ FinishStep(r)
     /\ stored' = stored \cup {PagedModel(r)}
     /\ UNCHANGED error
  \/ /\ r \in BadSampling
     /\ FailStep(r)
     /\ UNCHANGED <<gen, ids, stored>>
  \/ /\ r \notin BadSampling /\ StepMayFail
     /\ FailStep(r)
     /\ stored' \in {stored, stored \cup {PagedModel(r)}}
     /\ UNCHANGED <<gen, ids>>

StepFresh ==
  /\ At("round")
  /\ \E i \in fresh :
       /\ IsFirst(i, fresh)
       /\ StepSingle(snapshot[i])
       /\ fresh' = fresh \ {i}
  /\ UNCHANGED <<callerVars, session, sentinel, done, incoming, active,
                 registryVars, tpc, hand, snapshot, ready, group, raised,
                 stopVars>>

\* Alone with its tail length, or without batching.
StepAlone ==
  /\ At("round") /\ fresh = {} /\ group = {}
  /\ \E i \in ready :
       /\ IsFirst(i, ready)
       /\ StepSingle(snapshot[i])
       /\ ready' = ready \ {i}
  /\ UNCHANGED <<callerVars, session, sentinel, done, incoming, active,
                 registryVars, tpc, hand, snapshot, fresh, group, raised,
                 stopVars>>

\* _step_batched: one forward pass, which may raise as a whole, for the
\* requests S that share a tail length with the first one not stepped yet.
StepBatched ==
  /\ At("round") /\ fresh = {} /\ group = {}
  /\ CanBatch
  /\ \E S \in SUBSET ready :
       /\ Cardinality(S) >= 2
       /\ \E i \in S : IsFirst(i, ready)
       /\ group' = S
       /\ ready' = ready \ S
  /\ raised' \in {FALSE, StepMayFail}
  /\ UNCHANGED <<callerVars, requestVars, incoming, active, registryVars,
                 stored, tpc, hand, snapshot, fresh, retireVars, stopVars>>

\* The loop over the group: every member failed, or each one's token sampled.
HandleMember ==
  /\ At("round")
  /\ \E i \in group :
       /\ IsFirst(i, group)
       /\ group' = group \ {i}
       /\ \/ raised /\ FailStep(snapshot[i]) /\ UNCHANGED <<gen, ids>>
          \/ /\ ~raised /\ snapshot[i] \notin BadSampling
             /\ FinishStep(snapshot[i])
             /\ UNCHANGED error
  /\ raised' = (raised /\ group' # {})
  /\ UNCHANGED <<callerVars, session, sentinel, done, incoming, active,
                 registryVars, stored, tpc, hand, snapshot, fresh, ready,
                 stopVars>>

\* The loop is outside the try: what _sample_next_token raises leaves _run.
SamplingCrash ==
  /\ At("round")
  /\ ~raised
  /\ \E i \in group : IsFirst(i, group) /\ snapshot[i] \in BadSampling
  /\ tpc' = "dead"
  /\ UNCHANGED <<callerVars, requestVars, incoming, active, registryVars,
                 stored, hand, roundVars, retireVars, stopVars>>

EndRound ==
  /\ At("round") /\ fresh = {} /\ group = {} /\ ready = {}
  /\ tpc' = "top"
  /\ snapshot' = <<>>
  /\ UNCHANGED <<callerVars, requestVars, incoming, active, registryVars,
                 stored, hand, fresh, ready, group, raised, retireVars,
                 stopVars>>

Run ==
  \/ LoopTop \/ AdmitPop \/ AdmitAppend \/ AdmitEnd
  \/ NothingActive \/ BeginRound \/ StepFresh \/ StepAlone
  \/ StepBatched \/ HandleMember \/ SamplingCrash \/ EndRound
-----------------------------------------------------------------------------
(* stop() *)

BeginStop ==
  /\ spc = "none" /\ tpc # "off"
  /\ CallsDuringStop \/ \A c \in Callers : pc[c] = "ready"
  /\ draining' = TRUE
  /\ spc' = "join"
  /\ UNCHANGED <<callerVars, requestVars, incoming, active, registryVars,
                 stored, tpc, hand, roundVars, retireVars, stopping>>

\* join(timeout) gives up: force the thread to end after its round.
JoinTimeout ==
  /\ spc = "join" /\ StopMayTimeOut /\ tpc # "dead"
  /\ stopping' = TRUE
  /\ spc' = "forced"
  /\ UNCHANGED <<callerVars, requestVars, incoming, active, registryVars,
                 stored, tpc, hand, roundVars, retireVars, draining>>

Joined ==
  /\ spc \in {"join", "forced"} /\ tpc = "dead"
  /\ spc' = "retire"
  /\ UNCHANGED <<callerVars, requestVars, incoming, active, registryVars,
                 stored, tpc, hand, roundVars, retireVars, draining, stopping>>

RetireStuck ==
  /\ spc = "retire" /\ retiring = None /\ active # <<>>
  /\ FailStep(Head(active))
  /\ UNCHANGED <<callerVars, session, ids, gen, sentinel, done, incoming,
                 active, registryVars, stored, tpc, hand, roundVars, stopVars>>

RetiredAll ==
  /\ spc = "retire" /\ retiring = None /\ active = <<>>
  /\ spc' = "drain"
  /\ UNCHANGED <<callerVars, requestVars, incoming, active, registryVars,
                 stored, tpc, hand, roundVars, retireVars, draining, stopping>>

\* The done event is not set.
DrainIncomingMutant ==
  /\ spc = "drain" /\ incoming # <<>>
  /\ error' = error \cup {Head(incoming)}
  /\ incoming' = Tail(incoming)
  /\ UNCHANGED <<callerVars, session, ids, gen, sentinel, done, active,
                 registryVars, stored, tpc, hand, roundVars, retireVars,
                 stopVars>>

\* A request never admitted gets an error and its done event, nothing else.
DrainIncoming ==
  /\ spc = "drain" /\ incoming # <<>>
  /\ error' = error \cup {Head(incoming)}
  /\ done' = done \cup {Head(incoming)}
  /\ incoming' = Tail(incoming)
  /\ UNCHANGED <<callerVars, session, ids, gen, sentinel, active, registryVars,
                 stored, tpc, hand, roundVars, retireVars, stopVars>>

Stopped ==
  /\ spc = "drain" /\ incoming = <<>>
  /\ spc' = "stopped"
  /\ UNCHANGED <<callerVars, requestVars, incoming, active, registryVars,
                 stored, tpc, hand, roundVars, retireVars, draining, stopping>>

FinishStop ==
  Joined \/ RetireStuck \/ RetiredAll \/ DrainIncoming \/ Stopped

Stop == BeginStop \/ JoinTimeout \/ FinishStop
-----------------------------------------------------------------------------
Next ==
  \/ \E c \in Callers : Call(c) \/ InCall(c)
  \/ Start \/ Run \/ Retire \/ Stop

\* Threads that are running go on running; nobody has to call, or to stop.
Fairness ==
  /\ \A c \in Callers : WF_vars(InCall(c))
  /\ WF_vars(Start)
  /\ WF_vars(Run)
  /\ WF_vars(Retire)
  /\ WF_vars(FinishStop)

Spec == Init /\ [][Next]_vars
FairSpec == Spec /\ Fairness
-----------------------------------------------------------------------------
(* Where a request is *)

\* Accepted, and its session (if any) not released yet.  stop() leaves the
\* requests it drains from the queue here for ever.
Abandoned == done \ sentinel
InFlight ==
  {arg[c] : c \in {d \in Callers : pc[d] = "put"}} \cup ToSet(incoming)
    \cup ToSet(active) \cup ({hand, retiring} \ {None}) \cup Abandoned

CallerTypes ==
  /\ pc \in [Callers -> {"ready", "depth", "claim", "put"}]
  /\ arg \in [Callers -> Requests \cup {None}]
  /\ seen \in [Callers -> Nat]
RequestTypes ==
  /\ session \in [Requests -> Sessions \cup {OneShot, None}]
  /\ ids \in [Requests -> Seq(Requests \X Nat)]
  /\ gen \in [Requests -> Nat]
  /\ sentinel \subseteq Requests
  /\ done \subseteq Requests
  /\ error \subseteq Requests
ListTypes ==
  /\ incoming \in Seq(Requests)
  /\ active \in Seq(Requests)
  /\ stored \subseteq Requests \cup Sessions
RegistryTypes ==
  /\ sessions \subseteq minted
  /\ minted \subseteq Sessions
  /\ busy \subseteq Sessions
  /\ history \in [Sessions -> Seq(Requests \X Nat)]
ThreadTypes ==
  /\ tpc \in {"off", "top", "admit", "check", "round", "dead"}
  /\ hand \in Requests \cup {None}
RoundTypes ==
  /\ snapshot \in Seq(Requests)
  /\ fresh \subseteq DOMAIN snapshot
  /\ ready \subseteq DOMAIN snapshot
  /\ group \subseteq DOMAIN snapshot
  /\ raised \in BOOLEAN
RetireTypes ==
  /\ retiring \in Requests \cup {None}
  /\ rpc \in {"sentinel", "done", "remove", "release"}
StopTypes ==
  /\ draining \in BOOLEAN
  /\ stopping \in BOOLEAN
  /\ spc \in {"none", "join", "forced", "retire", "drain", "stopped"}

TypeOK ==
  /\ CallerTypes /\ RequestTypes /\ ListTypes /\ RegistryTypes
  /\ ThreadTypes /\ RoundTypes /\ RetireTypes /\ StopTypes
-----------------------------------------------------------------------------
(* Safety *)

\* Every request sits in one place of the pipeline, once, and _active with the
\* request being admitted never exceeds max_concurrent_sessions: _active is
\* changed by _admit_new_requests, by _retire and by stop() with no lock.
Pipeline == active \o (IF hand = None THEN <<>> ELSE <<hand>>) \o incoming

OneHome ==
  /\ IsInjective(Pipeline)
  /\ Len(active) + (IF hand = None THEN 0 ELSE 1) <= MaxConcurrent
  /\ \A c \in Callers : pc[c] = "put" => arg[c] \notin ToSet(Pipeline)

\* _busy_sessions holds exactly the sessions of the turns accepted and not yet
\* released, at most one turn each, and none of them can be deleted meanwhile.
TurnsHoldSessions ==
  /\ busy = {session[r] : r \in InFlight} \ {OneShot}
  /\ \A r, q \in InFlight : session[r] = session[q] /\ session[r] # OneShot
                              => r = q
  /\ busy \subseteq sessions

\* The tokens r contributes to its sequence.
Own(r) == [k \in 1 .. gen[r] + 1 |-> <<r, k - 1>>]

\* A turn in flight extends the history its session still has: what submit_turn
\* read under the lock is not stale when _retire writes it back.
TurnExtendsHistory ==
  \A r \in InFlight :
    ids[r] = (IF session[r] = OneShot THEN <<>> ELSE history[session[r]])
               \o Own(r)

\* The history of a session holds every token of its finished turns, once, and
\* nothing else: no turn overwrites another one's.
Finished(s) == {r \in sentinel \ InFlight : session[r] = s}
HistoryIsFinishedTurns ==
  \A s \in sessions :
    /\ IsInjective(history[s])
    /\ ToSet(history[s]) = UNION {ToSet(Own(r)) : r \in Finished(s)}

\* Round-robin: between rounds the request admitted first is never behind, and
\* inside a round (or where the thread died) by no more than its token of it.
RoundRobin ==
  \A i, j \in 1 .. Len(active) :
    i < j => gen[active[j]] <=
               gen[active[i]] + (IF tpc \in {"round", "dead"} THEN 1 ELSE 0)

\* The check of _check_capacity and the put are not one step, and load() reads
\* two lists one after the other: the queue overshoots the limit, but by less
\* than the number of callers, of which each has one request past the check.
QueueBound ==
  Len(incoming) < MaxConcurrent + MaxQueue + Cardinality(Callers)

\* Once the stream of a request has its end mark nothing more is decoded for
\* it, though the round's snapshot may be older than its retirement.
NothingAfterSentinel ==
  [][\A r \in sentinel : gen'[r] = gen[r] /\ (r \in error') = (r \in error)]_vars
-----------------------------------------------------------------------------
(* Liveness, under FairSpec *)

\* The thread died of a sampling exception and nobody has called stop().
Orphaned == tpc = "dead" /\ spc = "none"

\* Every accepted request is finished, with tokens or with an error, whether or
\* not stop() comes in between: unless SamplingCrash leaves it orphaned.
AcceptedFinishes ==
  \A r \in Requests : (r \in ToSet(incoming)) ~> (r \in done \/ Orphaned)

\* A busy session is released, as long as nobody stops the scheduler and its
\* thread lives.
BusySessionReleased ==
  \A s \in Sessions :
    (s \in busy) ~> (s \notin busy \/ spc # "none" \/ Orphaned)

\* Once stop() is called it returns, and by then every request accepted before
\* has its done event: also after the thread died, and with or without timeout.
\* (Calls that end before stop() were refused or have put their request.)
StopAnswersAll ==
  (spc # "none") ~>
    (spc = "stopped" /\ \A r \in Requests : ids[r] # <<>> => r \in done)
-----------------------------------------------------------------------------
(* Refinement *)

\* The request whose turn holds s.
Turn ==
  [s \in Sessions |->
     IF s \in busy THEN CHOOSE r \in InFlight : session[r] = s ELSE None]
Asked == {r \in Requests : session[r] \in Sessions /\ ids[r] # <<>>}

Service == INSTANCE TurnService WITH
  open <- sessions, asked <- Asked, turn <- Turn, log <- history

\* To the clients of its sessions the scheduler, with all its threads, is the
\* one-turn-at-a-time service of TurnService.
ImplementsTurnService == Service!Spec
-----------------------------------------------------------------------------
(* What comments and tests say *)

\* stop()'s docstring: every caller gets a bounded, defined outcome.  A
\* streaming caller waits for the None of its output_queue.
EveryStreamEnds ==
  spc = "stopped" => \A r \in done : r \in sentinel

\* _step_batched: an exception is surfaced through req.error; the thread ends
\* only because somebody stops the scheduler.
ThreadEndsOnlyByStop ==
  tpc = "dead" => draining
=============================================================================
