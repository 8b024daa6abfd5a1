------------------------------- MODULE Serving -------------------------------
(***************************************************************************)
(* pager_hf.serving end to end: the HTTP handlers (app.py), the router     *)
(* over one scheduler per GPU (multi_gpu.py), the thread pool in which the *)
(* handlers wait, and the order in which main() stops everything           *)
(* (__main__.py).                                                          *)
(*                                                                         *)
(* The schedulers are what module Scheduler shows them to be: a call on    *)
(* one takes effect at once, and its thread serves the requests it has     *)
(* admitted.  The app runs a handler on its event loop from one await to   *)
(* the next; here the steps of handlers interleave freely, which allows    *)
(* more, among it threads that call a router of their own.                 *)
(*                                                                         *)
(* A request is named by its client and a number.  Definitions named       *)
(* ...Mutant are slips the properties must catch; none is part of the      *)
(* specification.                                                          *)
(***************************************************************************)
EXTENDS Integers, FiniteSets, SequencesExt

CONSTANTS
  MaxClients,     \* the HTTP clients, each with one request at a time
  MaxSessions,    \* bound on the session ids uuid4 gives out
  NoSession,      \* no session_id
  Gpus,           \* the number of schedulers
  MaxConcurrent,  \* max_concurrent_sessions, of each
  MaxQueueDepth,  \* max_queue_depth, of each
  Workers,        \* threads of the event loop's default executor
  MaxTokens,      \* the max_tokens of a request
  MaxCalls        \* bound on the requests of all clients

ASSUME ServingAssumption ==
  /\ NoSession \notin 1 .. MaxSessions /\ MaxSessions \in Nat \ {0}
  /\ {MaxClients, Gpus, MaxConcurrent, Workers} \subseteq Nat \ {0}
  /\ {MaxQueueDepth, MaxTokens, MaxCalls} \subseteq Nat

\* The positions in _schedulers, and no position.
Devices == 1 .. Gpus
Clients == 1 .. MaxClients
Sessions == 1 .. MaxSessions
Requests == Clients \X (1 .. MaxCalls)
NoDevice == 0
\* The None that ends output_queue.
End == 0

VARIABLES
  main,      \* "serving", "closing", "cut", "stopping" or "stopped"
  stopped,   \* how many schedulers stop() is through with
  sessions,  \* device -> the keys of _sessions
  busy,      \* device -> _busy_sessions
  queue,     \* device -> _incoming
  active,    \* device -> _active
  owner,     \* _session_owner
  known,     \* the ids that clients were told
  req,       \* the ServingRequests, see NoRequest
  call,      \* client -> its handler, see NoCall
  waiting,   \* the executor's queue of to_thread calls
  running,   \* the to_thread calls that block a worker
  calls      \* client -> requests made

vars == <<main, stopped, sessions, busy, queue, active, owner, known, req,
          call, waiting, running, calls>>
registry == <<sessions, busy>>
load == <<queue, active>>
pool == <<waiting, running>>
mainVars == <<main, stopped>>

\* made: len(generated_tokens); out: output_queue; stage: how far _retire is.
NoRequest ==
  [session |-> NoSession, made |-> 0, out |-> <<>>,
   failed |-> FALSE, stage |-> "none"]

\* loads: those _by_load has read; todo: the schedulers yet to be tried;
\* got: the tokens sent so far.
NoCall ==
  [op |-> "none", session |-> NoSession, stream |-> FALSE, pc |-> "idle",
   loads |-> <<>>, todo |-> <<>>, got |-> <<>>]

\* The server as it starts, or as it is after a client opened a session.
Init ==
  /\ main = "serving" /\ stopped = 0
  /\ known \in {{}, {1}}
  /\ sessions = [d \in Devices |-> IF d = 1 THEN known ELSE {}]
  /\ owner = [s \in Sessions |-> IF s \in known THEN 1 ELSE NoDevice]
  /\ busy = [d \in Devices |-> {}]
  /\ queue = [d \in Devices |-> <<>>] /\ active = [d \in Devices |-> {}]
  /\ req = [r \in Requests |-> NoRequest] /\ call = [c \in Clients |-> NoCall]
  /\ waiting = <<>> /\ running = {}
  /\ calls = [c \in Clients |-> 0]

At(c, pc) == call[c].pc = pc
\* The request a handler is about.
Own(c) == <<c, calls[c]>>
Becomes(c, new) == call' = [call EXCEPT ![c] = new]
\* The answer, with one of the app's statuses; it is not kept.
Reply(c, status) ==
  /\ status \in {200, 400, 404, 409, 429, 500, 503}
  /\ call' = [call EXCEPT ![c] = NoCall]
-----------------------------------------------------------------------------
(* Handlers: app.py and the router's methods *)

\* The clients are numbered in the order of their first requests.
Begin(c) ==
  /\ main = "serving" /\ At(c, "idle")
  /\ calls[c] < MaxCalls /\ SumFunction(calls) < MaxCalls
  /\ \A k \in 1 .. c - 1 : calls[k] > 0
  /\ calls' = [calls EXCEPT ![c] = @ + 1]
  /\ UNCHANGED <<mainVars, registry, load, owner, known, req, pool>>

\* POST /v1/sessions, while there are ids left.
create_session(c) ==
  /\ Cardinality(Sessions \ known) >
       Cardinality({k \in Clients : call[k].op = "create"})
  /\ Begin(c)
  /\ Becomes(c, [NoCall EXCEPT !.op = "create", !.pc = "by_load"])

\* DELETE /v1/sessions/{session_id}
delete_session(c, s) ==
  /\ s \in known
  /\ Begin(c)
  /\ Becomes(c, [NoCall EXCEPT !.op = "delete", !.pc = "owner", !.session = s])

\* POST /v1/completions
completions(c, s, max_tokens, stream) ==
  /\ s \in known \cup {NoSession}
  /\ Begin(c)
  /\ IF max_tokens < 1 THEN Reply(c, 400)
     ELSE Becomes(c, [NoCall EXCEPT
            !.op = "completion", !.session = s, !.stream = stream,
            !.pc = IF s = NoSession THEN "by_load" ELSE "owner"])

\* load()
Load(d) == Len(queue[d]) + Cardinality(active[d])

\* sorted() is stable: among equal loads, the order of _schedulers.
Before(loads, a, b) == loads[a] < loads[b] \/ (loads[a] = loads[b] /\ a < b)
Sorted(loads) ==
  [i \in Devices |->
     CHOOSE d \in Devices :
       Cardinality({e \in Devices : Before(loads, e, d)}) = i - 1]

\* _by_load reads the schedulers one after the other.
_by_load(c) ==
  /\ At(c, "by_load")
  /\ LET loads == Append(call[c].loads, Load(Len(call[c].loads) + 1)) IN
     Becomes(c, IF Len(loads) < Gpus THEN [call[c] EXCEPT !.loads = loads]
                ELSE [call[c] EXCEPT !.todo = Sorted(loads), !.loads = <<>>,
                        !.pc = IF call[c].op = "create"
                               THEN "create" ELSE "submit"])
  /\ UNCHANGED <<mainVars, registry, load, owner, known, req, pool, calls>>

Device(c) == Head(call[c].todo)

\* Scheduler.create_session, on the next device when this one's is full.
CreateAt(c) ==
  /\ At(c, "create")
  /\ IF Cardinality(sessions[Device(c)]) >= MaxConcurrent
     THEN /\ IF Len(call[c].todo) = 1 THEN Reply(c, 503)
             ELSE Becomes(c, [call[c] EXCEPT !.todo = Tail(@)])
          /\ UNCHANGED sessions
     ELSE LET s == CHOOSE s \in Sessions \ known :
                     \A d \in Devices : s \notin sessions[d]
          IN  /\ sessions' = [sessions EXCEPT ![Device(c)] = @ \cup {s}]
              /\ Becomes(c, [call[c] EXCEPT !.pc = "register", !.session = s])
  /\ UNCHANGED <<mainVars, busy, load, owner, known, req, pool, calls>>

Register(c) ==
  /\ At(c, "register")
  /\ owner' = [owner EXCEPT ![call[c].session] = Device(c)]
  /\ known' = known \cup {call[c].session}
  /\ Reply(c, 200)
  /\ UNCHANGED <<mainVars, registry, load, req, pool, calls>>

\* The router, or the scheduler it has chosen, does not know the session.
KeyError(c) ==
  LET s == call[c].session IN
  \/ At(c, "owner") /\ owner[s] = NoDevice
  \/ At(c, "delete") /\ s \notin sessions[Device(c)]
  \/ At(c, "submit") /\ s # NoSession /\ s \notin sessions[Device(c)]

\* _owner: KeyError, or the scheduler to go on with.
_owner(c) ==
  /\ At(c, "owner")
  /\ IF KeyError(c) THEN Reply(c, 404)
     ELSE Becomes(c, [call[c] EXCEPT !.todo = <<owner[call[c].session]>>,
            !.pc = IF call[c].op = "delete" THEN "delete" ELSE "submit"])
  /\ UNCHANGED <<mainVars, registry, load, owner, known, req, pool, calls>>

\* The session goes although a turn runs on it.
DeleteAtMutant(c) ==
  LET d == Device(c) IN
  /\ At(c, "delete")
  /\ IF KeyError(c) THEN Reply(c, 404) /\ UNCHANGED sessions
     ELSE /\ sessions' = [sessions EXCEPT ![d] = @ \ {call[c].session}]
          /\ Becomes(c, [call[c] EXCEPT !.pc = "forget"])
  /\ UNCHANGED <<mainVars, busy, load, owner, known, req, pool, calls>>

\* Scheduler.delete_session
DeleteAt(c) ==
  LET d == Device(c)
      s == call[c].session
  IN
  /\ At(c, "delete")
  /\ \/ KeyError(c) /\ Reply(c, 404) /\ UNCHANGED sessions
     \/ s \in sessions[d] \cap busy[d] /\ Reply(c, 409) /\ UNCHANGED sessions
     \/ /\ s \in sessions[d] \ busy[d]
        /\ sessions' = [sessions EXCEPT ![d] = @ \ {s}]
        /\ Becomes(c, [call[c] EXCEPT !.pc = "forget"])
  /\ UNCHANGED <<mainVars, busy, load, owner, known, req, pool, calls>>

\* The id stays with the router.
ForgetMutant(c) ==
  /\ At(c, "forget")
  /\ Reply(c, 200)
  /\ UNCHANGED <<mainVars, registry, load, owner, known, req, pool, calls>>

Forget(c) ==
  /\ At(c, "forget")
  /\ owner' = [owner EXCEPT ![call[c].session] = NoDevice]
  /\ Reply(c, 200)
  /\ UNCHANGED <<mainVars, registry, load, known, req, pool, calls>>

\* Scheduler.submit or submit_turn, on the first device only; what is accepted
\* is waited for in a thread of the executor.
SubmitAt(c) ==
  LET d == Device(c)
      s == call[c].session
      full == Load(d) >= MaxConcurrent + MaxQueueDepth
      refused == CASE full -> 429
                   [] ~full /\ KeyError(c) -> 404
                   [] ~full /\ ~KeyError(c) /\ s \in busy[d] -> 409
                   [] OTHER -> 0
  IN
  /\ At(c, "submit")
  /\ \/ /\ refused # 0 /\ Reply(c, refused)
        /\ UNCHANGED <<busy, queue, req, waiting>>
     \/ /\ refused = 0
        /\ busy' = [busy EXCEPT ![d] = @ \cup ({s} \ {NoSession})]
        /\ queue' = [queue EXCEPT ![d] = Append(@, Own(c))]
        /\ req' = [req EXCEPT ![Own(c)] =
                     [NoRequest EXCEPT !.session = s, !.stage = "live"]]
        /\ waiting' = Append(waiting, c)
        /\ Becomes(c, [call[c] EXCEPT !.pc = "wait", !.todo = <<>>])
  /\ UNCHANGED <<mainVars, sessions, active, owner, known, running, calls>>
-----------------------------------------------------------------------------
(* The executor *)

Take ==
  /\ waiting # <<>> /\ Cardinality(running) < Workers
  /\ running' = running \cup {Head(waiting)}
  /\ waiting' = Tail(waiting)
  /\ UNCHANGED <<mainVars, registry, load, owner, known, req, call, calls>>

\* After the done event.
IsDone(r) == req[r].stage \in {"done", "over"}

\* req.done.wait returns.
Waited(c) ==
  /\ c \in running /\ ~call[c].stream /\ IsDone(Own(c))
  /\ running' = running \ {c}
  /\ call' = [call EXCEPT ![c].pc = IF @ = "wait" THEN "finish" ELSE @]
  /\ UNCHANGED <<mainVars, registry, load, owner, known, req, waiting, calls>>

\* output_queue.get returns: the token is sent and the next one waited for, or
\* the stream ends.  Nobody takes the item of a request that was cut off.
Got(c) ==
  LET item == Head(req[Own(c)].out) IN
  /\ c \in running /\ call[c].stream /\ req[Own(c)].out # <<>>
  /\ req' = [req EXCEPT ![Own(c)].out = Tail(@)]
  /\ running' = running \ {c}
  /\ \/ /\ At(c, "wait") /\ item # End
        /\ call' = [call EXCEPT ![c].got = Append(@, item)]
        /\ waiting' = Append(waiting, c)
     \/ /\ ~(At(c, "wait") /\ item # End)
        /\ call' = [call EXCEPT ![c].pc = IF @ = "wait" THEN "finish" ELSE @]
        /\ UNCHANGED waiting
  /\ UNCHANGED <<mainVars, registry, load, owner, known, calls>>

\* The text of all tokens, or 500; a stream's error event and [DONE].  A
\* request that is also retired is gone then.
Finish(c) ==
  /\ At(c, "finish")
  /\ Reply(c, IF req[Own(c)].failed THEN 500 ELSE 200)
  /\ req' = [req EXCEPT ![Own(c)] = IF @.stage = "over" THEN NoRequest ELSE @]
  /\ UNCHANGED <<mainVars, registry, load, owner, known, pool, calls>>
-----------------------------------------------------------------------------
(* The schedulers' threads *)

Draining(d) == main = "stopping" /\ d = stopped + 1
Runs(d) == main # "stopped" /\ d > stopped
\* The thread is not inside _retire.
AtStep(d) == \A r \in active[d] : req[r].stage = "live"

\* _admit_new_requests
Admit(d) ==
  /\ Runs(d) /\ ~Draining(d) /\ AtStep(d)
  /\ queue[d] # <<>> /\ Cardinality(active[d]) < MaxConcurrent
  /\ active' = [active EXCEPT ![d] = @ \cup {Head(queue[d])}]
  /\ queue' = [queue EXCEPT ![d] = Tail(@)]
  /\ UNCHANGED <<mainVars, registry, owner, known, req, call, pool, calls>>

\* _finish_step, where every text is max_tokens long: one token more, and for
\* the last one the first line of _retire.
Step(d, r) ==
  LET n == req[r].made + 1 IN
  /\ Runs(d) /\ AtStep(d) /\ r \in active[d]
  /\ req' = [req EXCEPT ![r].made = n,
       ![r].out = @ \o (IF n < MaxTokens THEN <<n>> ELSE <<n, End>>),
       ![r].stage = IF n < MaxTokens THEN @ ELSE "ended"]
  /\ UNCHANGED <<mainVars, registry, load, owner, known, call, pool, calls>>

\* The exception is swallowed.
FailMutant(d, r) ==
  /\ Runs(d) /\ AtStep(d) /\ r \in active[d]
  /\ req' = [req EXCEPT ![r].out = Append(@, End), ![r].stage = "ended"]
  /\ UNCHANGED <<mainVars, registry, load, owner, known, call, pool, calls>>

\* A step raises: req.error, then the first line of _retire.
Fail(d, r) ==
  /\ Runs(d) /\ AtStep(d) /\ r \in active[d]
  /\ req' = [req EXCEPT ![r].failed = TRUE, ![r].out = Append(@, End),
                        ![r].stage = "ended"]
  /\ UNCHANGED <<mainVars, registry, load, owner, known, call, pool, calls>>

\* Nobody is told of a failure.
SetDoneMutant(d, r) ==
  /\ r \in active[d] /\ req[r].stage = "ended"
  /\ ~req[r].failed
  /\ req' = [req EXCEPT ![r].stage = "done"]
  /\ UNCHANGED <<mainVars, registry, load, owner, known, call, pool, calls>>

\* The rest of _retire: the done event, and only then the removal from _active
\* and the session's release.
SetDone(d, r) ==
  /\ r \in active[d] /\ req[r].stage = "ended"
  /\ req' = [req EXCEPT ![r].stage = "done"]
  /\ UNCHANGED <<mainVars, registry, load, owner, known, call, pool, calls>>

Leave(d, r) ==
  /\ r \in active[d] /\ req[r].stage = "done"
  /\ active' = [active EXCEPT ![d] = @ \ {r}]
  /\ busy' = [busy EXCEPT ![d] = @ \ {req[r].session}]
  /\ req' = [req EXCEPT ![r] =
       IF \E c \in Clients : Own(c) = r /\ (~At(c, "idle") \/ c \in running)
       THEN [@ EXCEPT !.stage = "over"] ELSE NoRequest]
  /\ UNCHANGED <<mainVars, sessions, queue, owner, known, call, pool, calls>>
-----------------------------------------------------------------------------
(* Shutdown: uvicorn.run returns, then MultiGpuScheduler.stop *)

\* uvicorn takes no more requests.
Close ==
  /\ main = "serving" /\ main' = "closing"
  /\ UNCHANGED <<stopped, registry, load, owner, known, req, call, pool,
                 calls>>

\* timeout_graceful_shutdown is over: the handlers, all of them at an await,
\* are cancelled.  A call that blocks a worker goes on without its handler.
Cut ==
  /\ main = "closing"
  /\ \A c \in Clients : At(c, "idle") \/ At(c, "wait")
  /\ \E c \in Clients : At(c, "wait")
  /\ call' = [c \in Clients |-> [NoCall EXCEPT !.stream = call[c].stream]]
  /\ waiting' = <<>>
  /\ main' = "cut"
  /\ UNCHANGED <<stopped, registry, load, owner, known, req, running, calls>>

\* The schedulers are stopped while handlers still run.
ReturnsMutant ==
  /\ main \in {"closing", "cut"}
  /\ main' = "stopping"
  /\ UNCHANGED <<stopped, registry, load, owner, known, req, call, pool,
                 calls>>

\* uvicorn.run returns when no handler is left; finally: stop().
Returns ==
  /\ main \in {"closing", "cut"} /\ \A c \in Clients : At(c, "idle")
  /\ main' = "stopping"
  /\ UNCHANGED <<stopped, registry, load, owner, known, req, call, pool,
                 calls>>

\* The next scheduler's stop(): its thread has drained, or is forced to end
\* after its round, and whatever is left gets an error.  Requests from its
\* queue get no None.
Stop ==
  LET d == stopped + 1
      queued == Range(queue[d])
  IN
  /\ main = "stopping" /\ AtStep(d)
  /\ req' = [r \in Requests |->
       IF r \in active[d]
       THEN [req[r] EXCEPT !.failed = TRUE, !.out = Append(@, End),
                           !.stage = "over"]
       ELSE IF r \in queued
       THEN [req[r] EXCEPT !.failed = TRUE, !.stage = "done"]
       ELSE req[r]]
  /\ busy' = [busy EXCEPT ![d] = @ \ {req[r].session : r \in active[d]}]
  /\ active' = [active EXCEPT ![d] = {}] /\ queue' = [queue EXCEPT ![d] = <<>>]
  /\ stopped' = d
  /\ main' = IF d = Gpus THEN "stopped" ELSE "stopping"
  /\ UNCHANGED <<sessions, owner, known, call, pool, calls>>
-----------------------------------------------------------------------------
Arrive(c) ==
  \/ create_session(c)
  \/ \E s \in Sessions : delete_session(c, s)
  \/ \E s \in Sessions \cup {NoSession}, n \in {0, MaxTokens},
        stream \in BOOLEAN : completions(c, s, n, stream)

Handler(c) ==
  \/ _by_load(c) \/ CreateAt(c) \/ Register(c) \/ _owner(c) \/ DeleteAt(c)
  \/ Forget(c) \/ SubmitAt(c) \/ Finish(c)

Retire(d, r) == SetDone(d, r) \/ Leave(d, r)

Thread(d) ==
  \/ Admit(d)
  \/ \E r \in active[d] : Step(d, r) \/ Fail(d, r) \/ Retire(d, r)

Next ==
  \/ \E c \in Clients :
       Arrive(c) \/ Handler(c) \/ Waited(c) \/ Got(c)
  \/ Take
  \/ \E d \in Devices : Thread(d)
  \/ Close \/ Cut \/ Returns \/ Stop

\* The event loop, the executor's threads and the schedulers' threads run on.
\* Nothing is assumed of the clients and of the shutdown.
Fairness ==
  /\ \A c \in Clients : WF_vars(Handler(c)) /\ WF_vars(Waited(c) \/ Got(c))
  /\ WF_vars(Take)
  /\ \A d \in Devices : WF_vars(Thread(d))

Spec == Init /\ [][Next]_vars /\ Fairness
-----------------------------------------------------------------------------
TypeOK ==
  /\ main \in {"serving", "closing", "cut", "stopping", "stopped"}
  /\ stopped \in 0 .. Gpus
  /\ sessions \in [Devices -> SUBSET Sessions]
  /\ busy \in [Devices -> SUBSET Sessions]
  /\ owner \in [Sessions -> Devices \cup {NoDevice}]
  /\ known \subseteq Sessions
  /\ Range(waiting) \cup running \subseteq Clients
  /\ Cardinality(running) <= Workers
  /\ \A d \in Devices :
       /\ active[d] \subseteq Requests
       /\ Cardinality(active[d]) <= MaxConcurrent
       /\ Cardinality(sessions[d]) <= MaxConcurrent
       /\ Load(d) <= MaxConcurrent + MaxQueueDepth
  /\ \A r \in Requests :
       /\ req[r].made \in 0 .. MaxTokens
       /\ req[r].stage \in {"none", "live", "ended", "done", "over"}
  /\ \A c \in Clients :
       /\ calls[c] \in 0 .. MaxCalls
       /\ call[c].pc \in {"idle", "by_load", "create", "register", "owner",
                         "delete", "forget", "submit", "wait", "finish"}

\* The router and the schedulers agree on where a session lives, except in the
\* middle of the call that creates or deletes it; no session lives twice.
OwnersAgree ==
  \A s \in Sessions, d \in Devices :
    LET within(pc) == \E c \in Clients : At(c, pc) /\ call[c].session = s IN
    /\ s \in sessions[d] => owner[s] = d \/ within("register")
    /\ owner[s] = d => s \in sessions[d] \/ within("forget")
    /\ s \in sessions[d] => \A e \in Devices \ {d} : s \notin sessions[e]

\* Until it is retired a turn is on the device where its session's PagedModel
\* is, the session is busy there, and no other turn of the session is anywhere.
TurnsAtHome ==
  \A d \in Devices : \A r \in active[d] \cup Range(queue[d]) :
    LET s == req[r].session IN
    s # NoSession =>
      /\ s \in sessions[d] \cap busy[d] /\ owner[s] = d
      /\ \A e \in Devices : \A q \in active[e] \cup Range(queue[e]) :
           q # r => req[q].session # s

\* A client that names a session that lives is never told 404, whatever the
\* router has registered so far.
NoFalse404 ==
  \A c \in Clients :
    KeyError(c) => \A d \in Devices : call[c].session \notin sessions[d]

\* What a 200 or the end of a stream without an error event stands for: the
\* client has every token of its request, once and in order, up to its end.
\* A stream under way is a prefix of that.
AnswersAreWhole ==
  \A c \in Clients :
    LET r == req[Own(c)]
        all == [i \in 1 .. r.made |-> i]
        ended == r.out # <<>> /\ Last(r.out) = End
    IN
    /\ At(c, "finish") /\ ~r.failed =>
         /\ call[c].stream => call[c].got = all
         /\ r.made = MaxTokens
    /\ At(c, "wait") /\ call[c].stream =>
         call[c].got \o (IF ended THEN Front(r.out) ELSE r.out) = all

\* What the handlers say is so: a 404 is about a session that does not live, a
\* 200 or the end of a stream without an error comes with the whole answer.
AnswersAreTrue == NoFalse404 /\ AnswersAreWhole

\* After main() has stopped one scheduler after the other, the later ones
\* admitting all along, no request is left without its done event.
StoppedAnswersAll ==
  main = "stopped" =>
    /\ \A r \in Requests : req[r].stage \in {"none", "done", "over"}
    /\ \A d \in Devices : queue[d] = <<>> /\ active[d] = {}

\* Every HTTP request is answered, although handlers that wait share a few
\* threads with each other.
Answered == \A c \in Clients : ~At(c, "idle") ~> At(c, "idle")
=============================================================================
