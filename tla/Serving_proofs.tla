--------------------------- MODULE Serving_proofs ---------------------------
(***************************************************************************)
(* Proofs about Serving, for every number of clients, sessions, devices,   *)
(* workers and tokens: what a handler under way may rely on (HandlerInv),  *)
(* where a session lives (HomeInv), where a turn is until its scheduler is *)
(* stopped (TurnInv), and what an answer is worth (AnswerInv).             *)
(***************************************************************************)
EXTENDS Serving, FiniteSetTheorems, SequenceTheorems, TLAPS

\* The requests that scheduler d holds.
Placed(d) == active[d] \cup Range(queue[d])

CallRecords ==
  [op : {"none", "create", "delete", "completion"},
   session : Sessions \cup {NoSession}, stream : BOOLEAN,
   pc : {"idle", "by_load", "create", "register", "owner", "delete", "forget",
         "submit", "wait", "finish"},
   loads : Seq(Nat), todo : Seq(Devices), got : Seq(Nat)]

RequestRecords ==
  [session : Sessions \cup {NoSession}, made : Nat, out : Seq(Nat),
   failed : BOOLEAN, stage : {"none", "live", "ended", "done", "over"}]

Types ==
  /\ main \in {"serving", "closing", "cut", "stopping", "stopped"}
  /\ stopped \in 0 .. Gpus
  /\ sessions \in [Devices -> SUBSET Sessions]
  /\ busy \in [Devices -> SUBSET Sessions]
  /\ queue \in [Devices -> Seq(Requests)]
  /\ active \in [Devices -> SUBSET Requests]
  /\ owner \in [Sessions -> Devices \cup {NoDevice}]
  /\ known \subseteq Sessions
  /\ req \in [Requests -> RequestRecords]
  /\ call \in [Clients -> CallRecords]
  /\ waiting \in Seq(Clients)
  /\ running \subseteq Clients
  /\ calls \in [Clients -> 0 .. MaxCalls]

\* What a handler that has come as far as its pc can rely on.
Progress(c) ==
  LET h == call[c] IN
  /\ h.pc # "idle" => calls[c] > 0
  /\ h.pc = "by_load" =>
       /\ Len(h.loads) < Gpus
       /\ h.op = "create" \/ (h.op = "completion" /\ h.session = NoSession)
  /\ h.op = "create" => h.pc \in {"by_load", "create", "register"}
  /\ h.pc \in {"create", "register"} => h.op = "create"
  /\ h.pc \in {"create", "register", "delete", "submit"} => h.todo # <<>>
  /\ h.pc = "owner" => h.op \in {"delete", "completion"}
  /\ h.pc \in {"delete", "forget"} => h.op = "delete"
  /\ h.pc \in {"owner", "delete", "forget"} => h.session \in known
  /\ h.pc = "register" => h.session \in Sessions
  /\ h.pc = "submit" => h.session \in known \cup {NoSession}
  /\ h.pc \in {"by_load", "owner", "submit"} => h.got = <<>>
  /\ h.pc = "submit" \/ (h.pc \in {"by_load", "owner"} /\ h.op = "completion") =>
       MaxTokens > 0

\* Every thread of the executor works for a request that was made.
Handlers ==
  /\ \A c \in Clients : Progress(c)
  /\ \A c \in running \cup Range(waiting) : calls[c] > 0

\* How many schedulers are stopped.
Phases ==
  /\ main \in {"serving", "closing", "cut"} => stopped = 0
  /\ main = "stopping" => stopped < Gpus
  /\ main = "stopped" => stopped = Gpus

HandlerInv == Types /\ Handlers /\ Phases
-----------------------------------------------------------------------------
(* The constants, sequences, and the order in which devices are tried *)

LEMMA Constants ==
  /\ Gpus \in Nat \ {0} /\ MaxClients \in Nat \ {0} /\ MaxSessions \in Nat \ {0}
  /\ MaxConcurrent \in Nat \ {0} /\ Workers \in Nat \ {0}
  /\ MaxQueueDepth \in Nat /\ MaxTokens \in Nat /\ MaxCalls \in Nat
  /\ NoSession \notin Sessions /\ NoDevice \notin Devices
BY ServingAssumption DEF Sessions, Devices, NoDevice

LEMMA FiniteSorts ==
  /\ IsFiniteSet(Devices) /\ Cardinality(Devices) = Gpus
  /\ IsFiniteSet(Clients) /\ IsFiniteSet(Sessions) /\ IsFiniteSet(Requests)
<1>1. /\ IsFiniteSet(Devices) /\ Cardinality(Devices) = Gpus
      /\ IsFiniteSet(Clients) /\ IsFiniteSet(Sessions)
      /\ IsFiniteSet(1 .. MaxCalls)
  BY Constants, FS_Interval DEF Devices, Clients, Sessions
<1>2. IsFiniteSet(Requests)
  BY <1>1, FS_Product DEF Requests
<1> QED
  BY <1>1, <1>2

\* What is in a sequence after one more element.
LEMMA AppendRange ==
  ASSUME NEW S, NEW s \in Seq(S), NEW e \in S
  PROVE  /\ Append(s, e) \in Seq(S)
         /\ Range(Append(s, e)) = Range(s) \cup {e}
         /\ IsInjective(s) /\ e \notin Range(s) => IsInjective(Append(s, e))
<1>1. PICK t : t = Append(s, e)
  OBVIOUS
<1>2. /\ t \in Seq(S) /\ Len(t) = Len(s) + 1
      /\ \A i \in 1 .. Len(s) : t[i] = s[i]
      /\ t[Len(s) + 1] = e
  BY <1>1, AppendProperties
<1>3. DOMAIN t = 1 .. Len(s) + 1 /\ DOMAIN s = 1 .. Len(s) /\ Len(s) \in Nat
  BY <1>2, LenProperties
<1>4. 1 .. Len(s) + 1 = (1 .. Len(s)) \cup {Len(s) + 1}
  BY <1>3
<1>5. Range(t) = Range(s) \cup {e}
  BY <1>2, <1>3, <1>4 DEF Range
<1>6. ASSUME IsInjective(s), e \notin Range(s) PROVE IsInjective(t)
  BY <1>2, <1>3, <1>4, <1>6 DEF Range, IsInjective
<1> QED
  BY <1>1, <1>2, <1>5, <1>6

\* What is in a sequence before its first element is taken.
LEMMA HeadTailRange ==
  ASSUME NEW S, NEW s \in Seq(S), s # <<>>
  PROVE  /\ Head(s) \in S /\ Tail(s) \in Seq(S)
         /\ Len(Tail(s)) = Len(s) - 1
         /\ Range(s) = Range(Tail(s)) \cup {Head(s)}
         /\ IsInjective(s) => /\ IsInjective(Tail(s))
                              /\ Head(s) \notin Range(Tail(s))
<1>1. PICK t : t = Tail(s)
  OBVIOUS
<1>2. /\ t \in Seq(S) /\ Len(t) = Len(s) - 1 /\ Head(s) = s[1] /\ Len(s) >= 1
      /\ \A i \in 1 .. Len(s) - 1 : t[i] = s[i + 1]
      /\ Head(s) \in S
  BY <1>1, HeadTailProperties, EmptySeq
<1>3. DOMAIN t = 1 .. Len(s) - 1 /\ DOMAIN s = 1 .. Len(s) /\ Len(s) \in Nat
  BY <1>2, LenProperties
<1>4. Range(s) = Range(t) \cup {Head(s)}
  <2>1. ASSUME NEW i \in 1 .. Len(s) PROVE s[i] \in Range(t) \cup {Head(s)}
    <3>1. CASE i = 1
      BY <1>2, <3>1
    <3>2. CASE i # 1
      <4>1. i - 1 \in 1 .. Len(s) - 1 /\ t[i - 1] = s[i]
        BY <1>2, <1>3, <3>2
      <4> QED
        BY <1>3, <4>1 DEF Range
    <3> QED
      BY <3>1, <3>2
  <2>2. ASSUME NEW i \in 1 .. Len(s) - 1 PROVE t[i] \in Range(s)
    BY <1>2, <1>3 DEF Range
  <2>3. Head(s) \in Range(s)
    BY <1>2, <1>3 DEF Range
  <2> QED
    BY <1>3, <2>1, <2>2, <2>3 DEF Range
<1>5. ASSUME IsInjective(s)
      PROVE  IsInjective(t) /\ Head(s) \notin Range(t)
  <2>1. \A i, j \in 1 .. Len(s) : s[i] = s[j] => i = j
    BY <1>3, <1>5 DEF IsInjective
  <2>2. ASSUME NEW i \in 1 .. Len(s) - 1, NEW j \in 1 .. Len(s) - 1, t[i] = t[j]
        PROVE  i = j
    <3>1. s[i + 1] = s[j + 1] /\ i + 1 \in 1 .. Len(s) /\ j + 1 \in 1 .. Len(s)
      BY <1>2, <1>3, <2>2
    <3>2. i + 1 = j + 1
      BY <2>1, <3>1
    <3> QED
      BY <3>2
  <2>3. ASSUME NEW i \in 1 .. Len(s) - 1, t[i] = Head(s) PROVE FALSE
    BY <1>2, <1>3, <2>1, <2>3
  <2> QED
    BY <1>3, <2>2, <2>3 DEF IsInjective, Range
<1> QED
  BY <1>1, <1>2, <1>4, <1>5

\* _by_load's sorted() is the stable sort: it tries every device, a device
\* with less load first, and of two with the same load the first one first.
LEMMA SortedIsStable ==
  ASSUME NEW loads \in [Devices -> Nat]
  PROVE  /\ Sorted(loads) \in Seq(Devices) /\ Len(Sorted(loads)) = Gpus
         /\ \A d \in Devices : \E i \in Devices : Sorted(loads)[i] = d
         /\ \A i, j \in Devices :
              i < j => Before(loads, Sorted(loads)[i], Sorted(loads)[j])
<1> DEFINE Below(d) == {e \in Devices : Before(loads, e, d)}
<1>1. Devices = 1 .. Gpus /\ Gpus \in Nat \ {0}
  BY Constants DEF Devices
<1>2. \A a, b \in Devices : Before(loads, a, b) \/ Before(loads, b, a) \/ a = b
  BY <1>1 DEF Before
<1>3. \A a, b, d \in Devices :
        Before(loads, a, b) /\ Before(loads, b, d) => Before(loads, a, d)
  BY <1>1 DEF Before
<1>4. \A a \in Devices : ~Before(loads, a, a)
  BY <1>1 DEF Before
<1>5. ASSUME NEW d \in Devices
      PROVE  /\ IsFiniteSet(Below(d)) /\ Cardinality(Below(d)) \in Nat
             /\ Cardinality(Below(d)) + 1 \in Devices
  <2>1. /\ IsFiniteSet(Devices \ {d})
        /\ Cardinality(Devices \ {d}) = Gpus - 1
    BY FiniteSorts, FS_RemoveElement
  <2>2. Below(d) \in SUBSET (Devices \ {d})
    BY <1>4
  <2> HIDE DEF Below
  <2>3. /\ IsFiniteSet(Below(d))
        /\ Cardinality(Below(d)) <= Cardinality(Devices \ {d})
    BY <2>1, <2>2, FS_Subset
  <2>4. Cardinality(Below(d)) \in Nat
    BY <2>3, FS_CardinalityType
  <2> QED
    BY <1>1, <2>1, <2>3, <2>4
<1>6. ASSUME NEW a \in Devices, NEW b \in Devices, Before(loads, a, b)
      PROVE  Cardinality(Below(a)) < Cardinality(Below(b))
  <2>1. a \in Below(b) /\ Below(a) \in SUBSET (Below(b) \ {a})
    BY <1>3, <1>4, <1>6
  <2> HIDE DEF Below
  <2>2. /\ IsFiniteSet(Below(b) \ {a})
        /\ Cardinality(Below(b) \ {a}) = Cardinality(Below(b)) - 1
    BY <1>5, <2>1, FS_RemoveElement
  <2>3. Cardinality(Below(a)) <= Cardinality(Below(b) \ {a})
    BY <2>1, <2>2, FS_Subset
  <2>4. Cardinality(Below(a)) \in Nat /\ Cardinality(Below(b)) \in Nat
    BY <1>5
  <2> QED
    BY <2>2, <2>3, <2>4
<1>7. PICK rank : rank = [d \in Devices |-> Cardinality(Below(d)) + 1]
  OBVIOUS
<1>8. /\ rank \in [Devices -> Devices]
      /\ \A a, b \in Devices : Before(loads, a, b) => rank[a] < rank[b]
  <2> HIDE DEF Below
  <2>1. ASSUME NEW a \in Devices, NEW b \in Devices, Before(loads, a, b)
        PROVE  rank[a] < rank[b]
    <3>1. PICK m \in Nat : m = Cardinality(Below(a))
      BY <1>5
    <3>2. PICK n \in Nat : n = Cardinality(Below(b))
      BY <1>5
    <3>3. m < n
      BY <1>6, <2>1, <3>1, <3>2
    <3>4. rank[a] = m + 1 /\ rank[b] = n + 1
      BY <1>7, <3>1, <3>2
    <3> QED
      BY <3>3, <3>4
  <2> QED
    BY <1>5, <1>7, <2>1
<1>9. ASSUME NEW a \in Devices, NEW b \in Devices, rank[a] = rank[b]
      PROVE  a = b
  <2>1. rank[a] \in Int /\ ~(rank[a] < rank[b]) /\ ~(rank[b] < rank[a])
    BY <1>1, <1>8, <1>9
  <2> QED
    BY <1>2, <1>8, <2>1
<1>10. rank \in Surjection(Devices, Devices)
  <2>1. rank \in Injection(Devices, Devices)
    BY <1>8, <1>9 DEF Injection, IsInjective
  <2> QED
    BY <2>1, FiniteSorts, FS_Injection
<1>11. \A i \in Devices, d \in Devices : Cardinality(Below(d)) = i - 1 <=> rank[d] = i
  <2> SUFFICES ASSUME NEW i \in Devices, NEW d \in Devices
               PROVE  Cardinality(Below(d)) = i - 1 <=> rank[d] = i
    OBVIOUS
  <2> HIDE DEF Below
  <2>1. PICK n \in Nat : n = Cardinality(Below(d))
    BY <1>5
  <2>2. rank[d] = n + 1
    BY <1>7, <2>1
  <2> QED
    BY <1>1, <2>1, <2>2
<1>12. PICK s : s = Sorted(loads)
  OBVIOUS
<1>13. s = [i \in Devices |-> CHOOSE d \in Devices : Cardinality(Below(d)) = i - 1]
  BY <1>12 DEF Sorted
<1> HIDE DEF Below
<1>14. /\ s \in [Devices -> Devices]
       /\ \A i \in Devices : rank[s[i]] = i
  <2>1. \A i \in Devices : \E d \in Devices : Cardinality(Below(d)) = i - 1
    BY <1>10, <1>11 DEF Surjection
  <2>2. /\ s \in [Devices -> Devices]
        /\ \A i \in Devices : Cardinality(Below(s[i])) = i - 1
    BY <1>13, <2>1
  <2> QED
    BY <1>11, <2>2
<1>15. s \in Seq(Devices) /\ Len(s) = Gpus
  <2>1. s \in Seq(Devices)
    BY <1>1, <1>14, SeqDef
  <2>2. DOMAIN s = 1 .. Len(s) /\ Len(s) \in Nat
    BY <2>1, LenProperties
  <2> QED
    BY <1>1, <1>14, <2>1, <2>2
<1>16. \A d \in Devices : \E i \in Devices : s[i] = d
  BY <1>8, <1>9, <1>14
<1>17. ASSUME NEW i \in Devices, NEW j \in Devices, i < j
       PROVE  Before(loads, s[i], s[j])
  <2>1. PICK a \in Devices, b \in Devices : a = s[i] /\ b = s[j]
    BY <1>14
  <2>2. rank[a] < rank[b]
    BY <1>14, <1>17, <2>1
  <2>3. a # b /\ ~(rank[b] < rank[a])
    <3>1. rank[a] \in Int /\ rank[b] \in Int
      BY <1>1, <1>8
    <3> QED
      BY ONLY <2>2, <3>1
  <2> QED
    BY <1>2, <1>8, <2>1, <2>3
<1> QED
  BY <1>12, <1>15, <1>16, <1>17
-----------------------------------------------------------------------------
(* What a handler under way may rely on *)

LEMMA LoadIsNatural ==
  ASSUME Types, NEW d \in Devices
  PROVE  Load(d) \in Nat /\ Cardinality(active[d]) \in Nat /\ IsFiniteSet(active[d])
<1>1. active[d] \in SUBSET Requests /\ queue[d] \in Seq(Requests)
  BY DEF Types
<1>2. IsFiniteSet(active[d]) /\ Cardinality(active[d]) \in Nat
  BY <1>1, FiniteSorts, FS_Subset, FS_CardinalityType
<1>3. Len(queue[d]) \in Nat
  BY <1>1, LenProperties
<1> QED
  BY <1>2, <1>3 DEF Load

LEMMA NoCallIsIdle ==
  /\ NoCall \in CallRecords /\ NoCall.pc = "idle" /\ NoCall.op = "none"
  /\ NoCall.session = NoSession /\ NoCall.got = <<>>
  /\ NoCall.loads = <<>> /\ NoCall.todo = <<>>
BY EmptySeq DEF NoCall, CallRecords

\* A new value of one handler's record.
LEMMA OneCall ==
  ASSUME Types, NEW c \in Clients, NEW h \in CallRecords, Becomes(c, h)
  PROVE  /\ call' \in [Clients -> CallRecords] /\ call'[c] = h
         /\ \A k \in Clients \ {c} : call'[k] = call[k]
BY DEF Types, Becomes

LEMMA ReplyIsNoCall ==
  ASSUME NEW c \in Clients, NEW status, Reply(c, status)
  PROVE  Becomes(c, NoCall)
BY DEF Reply, Becomes

LEMMA ProgressKept ==
  ASSUME NEW c \in Clients, Progress(c), call'[c] = call[c],
         calls'[c] = calls[c], known \subseteq known'
  PROVE  Progress(c)'
BY DEF Progress

LEMMA InitHandlers == Init => HandlerInv
<1> SUFFICES ASSUME Init PROVE HandlerInv
  OBVIOUS
<1>1. Gpus \in Nat \ {0} /\ MaxSessions \in Nat \ {0} /\ MaxCalls \in Nat
  BY Constants
<1>2. known \subseteq Sessions
  BY <1>1 DEF Init, Sessions
<1>3. /\ sessions \in [Devices -> SUBSET Sessions]
      /\ owner \in [Sessions -> Devices \cup {NoDevice}]
      /\ stopped \in 0 .. Gpus
  BY <1>1, <1>2 DEF Init, Devices
<1>4. NoRequest \in RequestRecords
  BY EmptySeq, Constants DEF NoRequest, RequestRecords
<1>5. Types
  BY <1>1, <1>2, <1>3, <1>4, NoCallIsIdle, EmptySeq DEF Init, Types
<1>6. Range(<<>>) = {}
  BY DEF Range
<1>7. Handlers
  BY <1>6, NoCallIsIdle DEF Init, Handlers, Progress
<1> QED
  BY <1>5, <1>7 DEF Init, HandlerInv, Phases

\* The record of a call that has just come in.
Opening(h) ==
  /\ h.loads = <<>> /\ h.todo = <<>> /\ h.got = <<>>
  /\ \/ h.pc = "idle" /\ h.op = "none" /\ h.session = NoSession
     \/ h.pc = "by_load" /\ h.op = "create" /\ h.session = NoSession
     \/ h.pc = "owner" /\ h.op = "delete" /\ h.session \in known
     \/ h.pc = "by_load" /\ h.op = "completion" /\ h.session = NoSession
          /\ MaxTokens > 0
     \/ h.pc = "owner" /\ h.op = "completion" /\ h.session \in known
          /\ MaxTokens > 0

LEMMA ArriveOpens ==
  ASSUME Types, NEW c \in Clients, Arrive(c)
  PROVE  /\ main = "serving" /\ At(c, "idle")
         /\ calls[c] < MaxCalls /\ calls' = [calls EXCEPT ![c] = @ + 1]
         /\ UNCHANGED <<main, stopped, sessions, busy, queue, active, owner, known,
                        req, waiting, running>>
         /\ \E h \in CallRecords :
              /\ Becomes(c, h) /\ Opening(h)
              /\ h.op = "create" =>
                   Cardinality(Sessions \ known) >
                     Cardinality({k \in Clients : call[k].op = "create"})
<1>1. ASSUME Begin(c)
      PROVE  /\ main = "serving" /\ At(c, "idle")
             /\ calls[c] < MaxCalls /\ calls' = [calls EXCEPT ![c] = @ + 1]
             /\ UNCHANGED <<main, stopped, sessions, busy, queue, active, owner,
                            known, req, waiting, running>>
  BY <1>1 DEF Begin, mainVars, registry, load, pool
<1>2. known \subseteq Sessions
  BY DEF Types
<1>3. CASE create_session(c)
  <2>1. PICK h : h = [NoCall EXCEPT !.op = "create", !.pc = "by_load"]
    OBVIOUS
  <2>2. h \in CallRecords /\ Opening(h)
    BY <2>1, EmptySeq DEF NoCall, CallRecords, Opening
  <2> QED
    BY <1>1, <1>3, <2>1, <2>2 DEF create_session
<1>4. ASSUME NEW s \in Sessions, delete_session(c, s)
      PROVE  Begin(c) /\ \E h \in CallRecords :
                           Becomes(c, h) /\ Opening(h) /\ h.op # "create"
  <2>1. PICK h : h = [NoCall EXCEPT !.op = "delete", !.pc = "owner", !.session = s]
    OBVIOUS
  <2>2. s \in known /\ Begin(c) /\ Becomes(c, h)
    BY <1>4, <2>1 DEF delete_session
  <2>3. h \in CallRecords /\ Opening(h) /\ h.op # "create"
    BY <2>1, <2>2, EmptySeq DEF NoCall, CallRecords, Opening
  <2> QED
    BY <2>2, <2>3
<1>5. ASSUME NEW s \in Sessions \cup {NoSession}, NEW n \in {0, MaxTokens},
             NEW stream \in BOOLEAN, completions(c, s, n, stream)
      PROVE  Begin(c) /\ \E h \in CallRecords :
                           Becomes(c, h) /\ Opening(h) /\ h.op # "create"
  <2>1. s \in known \cup {NoSession} /\ Begin(c)
    BY <1>5 DEF completions
  <2>2. CASE n < 1
    <3>1. Becomes(c, NoCall)
      BY <1>5, <2>2, ReplyIsNoCall DEF completions
    <3> QED
      BY <2>1, <3>1, NoCallIsIdle DEF Opening
  <2>3. CASE ~(n < 1)
    <3>1. PICK h : h = [NoCall EXCEPT
            !.op = "completion", !.session = s, !.stream = stream,
            !.pc = IF s = NoSession THEN "by_load" ELSE "owner"]
      OBVIOUS
    <3>2. Becomes(c, h)
      BY <1>5, <2>3, <3>1 DEF completions
    <3>3. MaxTokens > 0
      BY <2>3, Constants
    <3>4. h \in CallRecords /\ Opening(h) /\ h.op # "create"
      BY <2>1, <3>1, <3>3, EmptySeq DEF NoCall, CallRecords, Opening
    <3> QED
      BY <2>1, <3>2, <3>4
  <2> QED
    BY <2>2, <2>3
<1> QED
  BY <1>1, <1>3, <1>4, <1>5 DEF Arrive

LEMMA ArriveHandlers ==
  ASSUME HandlerInv, NEW c \in Clients, Arrive(c)
  PROVE  HandlerInv'
<1>1. PICK h \in CallRecords : Becomes(c, h) /\ Opening(h)
  BY ArriveOpens DEF HandlerInv
<1>2. /\ calls[c] < MaxCalls /\ calls' = [calls EXCEPT ![c] = @ + 1]
      /\ UNCHANGED <<main, stopped, sessions, busy, queue, active, owner, known,
                     req, waiting, running>>
  BY ArriveOpens DEF HandlerInv
<1>3. /\ call' \in [Clients -> CallRecords] /\ call'[c] = h
      /\ \A k \in Clients \ {c} : call'[k] = call[k]
  BY <1>1, OneCall DEF HandlerInv
<1>4. /\ calls' \in [Clients -> 0 .. MaxCalls] /\ calls'[c] > 0
      /\ \A k \in Clients \ {c} : calls'[k] = calls[k]
  BY <1>2, Constants DEF HandlerInv, Types
<1>5. Types'
  BY <1>2, <1>3, <1>4 DEF HandlerInv, Types
<1>6. Progress(c)'
  BY <1>1, <1>2, <1>3, <1>4, Constants, EmptySeq DEF Progress, Opening
<1>7. \A k \in Clients \ {c} : Progress(k)'
  BY <1>2, <1>3, <1>4, ProgressKept DEF HandlerInv, Handlers
<1>8. \A k \in running' \cup Range(waiting') : calls'[k] > 0
  <2>1. \A k \in running \cup Range(waiting) : calls[k] > 0
    BY DEF HandlerInv, Handlers
  <2> QED
    BY <1>2, <1>4, <2>1 DEF HandlerInv, Types
<1> QED
  BY <1>2, <1>5, <1>6, <1>7, <1>8 DEF HandlerInv, Handlers, Phases

\* A step of one handler.
LEMMA OneHandler ==
  ASSUME HandlerInv, NEW c \in Clients, NEW h \in CallRecords, Becomes(c, h),
         calls[c] > 0, Progress(c)', UNCHANGED calls, known \subseteq known',
         running' \cup Range(waiting') \subseteq running \cup Range(waiting) \cup {c}
  PROVE  Handlers' /\ call' \in [Clients -> CallRecords]
<1>1. /\ call' \in [Clients -> CallRecords] /\ call'[c] = h
      /\ \A k \in Clients \ {c} : call'[k] = call[k]
  BY OneCall DEF HandlerInv
<1>2. \A k \in Clients \ {c} : Progress(k)'
  BY <1>1, ProgressKept DEF HandlerInv, Handlers
<1> QED
  BY <1>1, <1>2 DEF HandlerInv, Handlers

LEMMA IdleProgress ==
  ASSUME NEW c \in Clients, call'[c] = NoCall
  PROVE  Progress(c)'
BY NoCallIsIdle DEF Progress

LEMMA LoadsHandlers ==
  ASSUME HandlerInv, NEW c \in Clients, _by_load(c)
  PROVE  /\ HandlerInv' /\ At(c, "by_load")
         /\ UNCHANGED <<main, stopped, sessions, busy, queue, active, owner, known,
                        req, waiting, running, calls>>
         /\ \E h \in CallRecords :
              /\ Becomes(c, h) /\ h.op = call[c].op /\ h.session = call[c].session
              /\ h.pc \in {"by_load", "create", "submit"}
              /\ h.pc = "submit" => h.session = NoSession
<1>1. /\ call[c] \in CallRecords /\ call[c].pc = "by_load"
      /\ Len(call[c].loads) < Gpus /\ call[c].loads \in Seq(Nat)
      /\ call[c].op \in {"create", "completion"} /\ call[c].got = <<>>
      /\ call[c].op = "completion" => call[c].session = NoSession /\ MaxTokens > 0
      /\ calls[c] > 0
  BY DEF _by_load, At, HandlerInv, Types, Handlers, Progress, CallRecords
<1>2. PICK loads : loads = Append(call[c].loads, Load(Len(call[c].loads) + 1))
  OBVIOUS
<1>3. /\ UNCHANGED <<main, stopped, sessions, busy, queue, active, owner, known,
                     req, waiting, running, calls>>
      /\ Becomes(c, IF Len(loads) < Gpus THEN [call[c] EXCEPT !.loads = loads]
                    ELSE [call[c] EXCEPT !.todo = Sorted(loads), !.loads = <<>>,
                            !.pc = IF call[c].op = "create"
                                   THEN "create" ELSE "submit"])
  BY <1>2 DEF _by_load, mainVars, registry, load, pool
<1>4. /\ loads \in Seq(Nat) /\ Len(loads) = Len(call[c].loads) + 1
      /\ Len(call[c].loads) \in Nat
  <2>1. Len(call[c].loads) \in Nat /\ Len(call[c].loads) + 1 \in Devices
    BY <1>1, Constants, LenProperties DEF Devices
  <2>2. Load(Len(call[c].loads) + 1) \in Nat
    BY <2>1, LoadIsNatural DEF HandlerInv
  <2> QED
    BY <1>1, <1>2, <2>1, <2>2, AppendProperties
<1>5. CASE Len(loads) < Gpus
  <2>1. PICK h : h = [call[c] EXCEPT !.loads = loads]
    OBVIOUS
  <2>2. Becomes(c, h)
    BY <1>3, <1>5, <2>1
  <2>3. /\ h \in CallRecords /\ h.loads = loads /\ h.pc = "by_load"
        /\ h.op = call[c].op /\ h.session = call[c].session /\ h.got = <<>>
    BY <1>1, <1>4, <2>1 DEF CallRecords
  <2>4. call'[c] = h
    BY <2>2, <2>3, OneCall DEF HandlerInv
  <2>5. Progress(c)'
    BY <1>1, <1>3, <1>5, <2>3, <2>4 DEF Progress
  <2>6. Handlers' /\ call' \in [Clients -> CallRecords]
    BY <1>1, <1>3, <2>2, <2>3, <2>5, OneHandler DEF At
  <2>7. HandlerInv'
    BY <1>3, <2>6 DEF HandlerInv, Types, Phases
  <2> QED
    BY <1>1, <1>3, <2>2, <2>3, <2>7 DEF At
<1>6. CASE ~(Len(loads) < Gpus)
  <2>1. loads \in [Devices -> Nat]
    BY <1>1, <1>4, <1>6, Constants, LenProperties DEF Devices
  <2>2. Sorted(loads) \in Seq(Devices) /\ Sorted(loads) # <<>>
    <3>1. Sorted(loads) \in Seq(Devices) /\ Len(Sorted(loads)) = Gpus
      BY <2>1, SortedIsStable
    <3>2. Len(<<>>) = 0
      BY EmptySeq
    <3> QED
      BY <3>1, <3>2, Constants
  <2>3. PICK h : h = [call[c] EXCEPT !.todo = Sorted(loads), !.loads = <<>>,
                        !.pc = IF call[c].op = "create" THEN "create" ELSE "submit"]
    OBVIOUS
  <2>4. Becomes(c, h)
    BY <1>3, <1>6, <2>3
  <2>5. /\ h \in CallRecords /\ h.todo = Sorted(loads) /\ h.op = call[c].op
        /\ h.pc = IF call[c].op = "create" THEN "create" ELSE "submit"
        /\ h.session = call[c].session /\ h.got = <<>>
    <3>1. <<>> \in Seq(Nat)
      BY EmptySeq
    <3> QED
      BY <1>1, <2>2, <2>3, <3>1 DEF CallRecords
  <2>6. call'[c] = h
    BY <2>4, <2>5, OneCall DEF HandlerInv
  <2>7. Progress(c)'
    BY <1>1, <1>3, <2>2, <2>5, <2>6 DEF Progress
  <2>8. Handlers' /\ call' \in [Clients -> CallRecords]
    BY <1>1, <1>3, <2>4, <2>5, <2>7, OneHandler DEF At
  <2>9. HandlerInv'
    BY <1>3, <2>8 DEF HandlerInv, Types, Phases
  <2>10. /\ h.pc \in {"create", "submit"}
         /\ h.pc = "submit" => h.session = NoSession
    BY <1>1, <2>5
  <2> QED
    BY <1>1, <1>3, <2>4, <2>5, <2>9, <2>10 DEF At
<1> QED
  BY <1>5, <1>6

\* The end of a call: nothing is relied on any more.
LEMMA ReplyHandlers ==
  ASSUME HandlerInv, NEW c \in Clients, ~At(c, "idle"), Becomes(c, NoCall),
         UNCHANGED <<calls, waiting, running>>, known \subseteq known'
  PROVE  Handlers' /\ call' \in [Clients -> CallRecords]
<1>1. call'[c] = NoCall
  BY NoCallIsIdle, OneCall DEF HandlerInv
<1>2. Progress(c)'
  BY <1>1, IdleProgress
<1>3. calls[c] > 0
  BY DEF HandlerInv, Handlers, Progress, At
<1> QED
  BY <1>2, <1>3, NoCallIsIdle, OneHandler

\* The device a handler is about to call.
LEMMA CreateDevice ==
  ASSUME HandlerInv, NEW c \in Clients,
         call[c].pc \in {"create", "register", "delete", "submit"}
  PROVE  /\ call[c] \in CallRecords /\ call[c].todo \in Seq(Devices)
         /\ call[c].todo # <<>>
         /\ Device(c) \in Devices /\ call[c].session \in Sessions \cup {NoSession}
         /\ calls[c] > 0 /\ ~At(c, "idle")
<1>1. call[c] \in CallRecords /\ call[c].todo # <<>> /\ calls[c] > 0
  BY DEF HandlerInv, Types, Handlers, Progress
<1>2. call[c].todo \in Seq(Devices) /\ call[c].session \in Sessions \cup {NoSession}
  BY <1>1 DEF CallRecords
<1>3. Device(c) \in Devices
  BY <1>1, <1>2, HeadTailProperties DEF Device
<1> QED
  BY <1>1, <1>2, <1>3 DEF At

\* A call about a session goes on with the device that owns it, or is over.
LEMMA OwnerHandlers ==
  ASSUME HandlerInv, NEW c \in Clients, _owner(c)
  PROVE  /\ HandlerInv'
         /\ UNCHANGED <<main, stopped, sessions, busy, queue, active, owner, known,
                        req, waiting, running, calls>>
         /\ call[c].session \in known
         /\ \/ Becomes(c, NoCall)
            \/ \E h \in CallRecords :
                 /\ Becomes(c, h) /\ h.session = call[c].session
                 /\ h.op = call[c].op /\ h.pc \in {"delete", "submit"}
                 /\ owner[call[c].session] # NoDevice
                 /\ h.todo = <<owner[call[c].session]>>
<1> DEFINE s == call[c].session
<1>1. /\ call[c] \in CallRecords /\ call[c].pc = "owner" /\ s \in known
      /\ call[c].op \in {"delete", "completion"} /\ call[c].got = <<>>
      /\ call[c].op = "completion" => MaxTokens > 0
      /\ calls[c] > 0 /\ s \in Sessions
  BY DEF _owner, At, HandlerInv, Types, Handlers, Progress, CallRecords
<1>2. UNCHANGED <<main, stopped, sessions, busy, queue, active, owner, known,
                  req, waiting, running, calls>>
  BY DEF _owner, mainVars, registry, load, pool
<1>3. CASE KeyError(c)
  <2>1. Becomes(c, NoCall)
    BY <1>3, ReplyIsNoCall DEF _owner
  <2>2. Handlers' /\ call' \in [Clients -> CallRecords]
    BY <1>1, <1>2, <2>1, ReplyHandlers DEF At
  <2> QED
    BY <1>1, <1>2, <2>1, <2>2 DEF HandlerInv, Types, Phases
<1>4. CASE ~KeyError(c)
  <2>1. owner[s] # NoDevice /\ owner[s] \in Devices
    BY <1>1, <1>4 DEF KeyError, At, HandlerInv, Types
  <2>2. PICK h : h = [call[c] EXCEPT !.todo = <<owner[s]>>,
                       !.pc = IF call[c].op = "delete" THEN "delete" ELSE "submit"]
    OBVIOUS
  <2>3. Becomes(c, h)
    BY <1>4, <2>2 DEF _owner
  <2>4. /\ h \in CallRecords /\ h.todo = <<owner[s]>> /\ h.op = call[c].op
        /\ h.pc = IF call[c].op = "delete" THEN "delete" ELSE "submit"
        /\ h.session = s /\ h.got = <<>> /\ h.todo # <<>>
    <3>1. <<owner[s]>> \in Seq(Devices) /\ <<owner[s]>> # <<>>
      BY <2>1
    <3> QED
      BY <1>1, <2>2, <3>1 DEF CallRecords
  <2>5. call'[c] = h
    BY <2>3, <2>4, OneCall DEF HandlerInv
  <2>6. Progress(c)'
    BY <1>1, <1>2, <2>4, <2>5 DEF Progress
  <2>7. Handlers' /\ call' \in [Clients -> CallRecords]
    BY <1>1, <1>2, <2>3, <2>4, <2>6, OneHandler DEF At
  <2>8. HandlerInv'
    BY <1>2, <2>7 DEF HandlerInv, Types, Phases
  <2>9. h.pc \in {"delete", "submit"}
    BY <2>4
  <2> QED
    BY <1>1, <1>2, <2>1, <2>3, <2>4, <2>8, <2>9
<1> QED
  BY <1>3, <1>4

LEMMA CreateHandlers ==
  ASSUME HandlerInv, NEW c \in Clients, CreateAt(c),
         \E s \in Sessions \ known : \A d \in Devices : s \notin sessions[d]
  PROVE  /\ HandlerInv'
         /\ UNCHANGED <<main, stopped, busy, queue, active, owner, known, req,
                        waiting, running, calls>>
         /\ \/ UNCHANGED sessions /\ Becomes(c, NoCall)
            \/ UNCHANGED sessions /\ \E h \in CallRecords :
                 Becomes(c, h) /\ h.pc = "create" /\ h.op = "create"
            \/ /\ Cardinality(sessions[Device(c)]) < MaxConcurrent
               /\ \E s \in Sessions \ known, h \in CallRecords :
                    /\ \A d \in Devices : s \notin sessions[d]
                    /\ sessions' = [sessions EXCEPT ![Device(c)] = @ \cup {s}]
                    /\ Becomes(c, h) /\ h.pc = "register" /\ h.op = "create"
                    /\ h.session = s /\ h.todo = call[c].todo
<1>1. /\ call[c] \in CallRecords /\ call[c].pc = "create" /\ call[c].op = "create"
      /\ call[c].todo \in Seq(Devices) /\ call[c].todo # <<>>
      /\ Device(c) \in Devices /\ calls[c] > 0 /\ ~At(c, "idle")
  BY CreateDevice DEF CreateAt, At, HandlerInv, Handlers, Progress
<1>2. UNCHANGED <<main, stopped, busy, queue, active, owner, known, req, waiting,
                  running, calls>>
  BY DEF CreateAt, mainVars, load, pool
<1>3. CASE UNCHANGED sessions /\ Becomes(c, NoCall)
  <2>1. Handlers' /\ call' \in [Clients -> CallRecords]
    BY <1>1, <1>2, <1>3, ReplyHandlers
  <2> QED
    BY <1>2, <1>3, <2>1 DEF HandlerInv, Types, Phases
<1>4. ASSUME UNCHANGED sessions, Len(call[c].todo) # 1,
             Becomes(c, [call[c] EXCEPT !.todo = Tail(@)])
      PROVE  /\ HandlerInv'
             /\ \E h \in CallRecords :
                  Becomes(c, h) /\ h.pc = "create" /\ h.op = "create"
  <2>1. PICK h : h = [call[c] EXCEPT !.todo = Tail(@)]
    OBVIOUS
  <2>2. Tail(call[c].todo) \in Seq(Devices) /\ Tail(call[c].todo) # <<>>
    <3>1. /\ Tail(call[c].todo) \in Seq(Devices)
          /\ Len(Tail(call[c].todo)) = Len(call[c].todo) - 1
          /\ Len(call[c].todo) \in Nat \ {0}
      BY <1>1, HeadTailProperties, EmptySeq
    <3>2. Len(<<>>) = 0
      BY EmptySeq
    <3>3. Len(call[c].todo) # 1
      BY <1>4
    <3>4. Len(Tail(call[c].todo)) # 0
      BY ONLY <3>1, <3>3
    <3> QED
      BY <3>1, <3>2, <3>4
  <2>3. /\ h \in CallRecords /\ h.todo # <<>> /\ h.pc = "create"
        /\ h.op = "create"
    BY <1>1, <2>1, <2>2 DEF CallRecords
  <2>4. call'[c] = h /\ Becomes(c, h)
    BY <1>4, <2>1, <2>3, OneCall DEF HandlerInv
  <2>5. Progress(c)'
    BY <1>1, <1>2, <2>3, <2>4 DEF Progress
  <2>6. Handlers' /\ call' \in [Clients -> CallRecords]
    BY <1>1, <1>2, <2>3, <2>4, <2>5, OneHandler
  <2>7. HandlerInv'
    BY <1>2, <1>4, <2>6 DEF HandlerInv, Types, Phases
  <2> QED
    BY <2>3, <2>4, <2>7
<1>5. ASSUME ~(Cardinality(sessions[Device(c)]) >= MaxConcurrent)
      PROVE  \E s \in Sessions \ known :
               /\ \A d \in Devices : s \notin sessions[d]
               /\ sessions' = [sessions EXCEPT ![Device(c)] = @ \cup {s}]
               /\ Becomes(c, [call[c] EXCEPT !.pc = "register", !.session = s])
  BY <1>5 DEF CreateAt
<1>6. ASSUME NEW s \in Sessions \ known,
             \A d \in Devices : s \notin sessions[d],
             sessions' = [sessions EXCEPT ![Device(c)] = @ \cup {s}],
             Becomes(c, [call[c] EXCEPT !.pc = "register", !.session = s])
      PROVE  /\ HandlerInv'
             /\ \E h \in CallRecords :
                  /\ Becomes(c, h) /\ h.pc = "register" /\ h.op = "create"
                  /\ h.session = s /\ h.todo = call[c].todo
  <2>1. PICK h : h = [call[c] EXCEPT !.pc = "register", !.session = s]
    OBVIOUS
  <2>2. /\ h \in CallRecords /\ h.pc = "register" /\ h.op = "create"
        /\ h.session = s /\ h.todo = call[c].todo
    BY <1>1, <1>6, <2>1 DEF CallRecords
  <2>3. call'[c] = h /\ Becomes(c, h)
    BY <1>6, <2>1, <2>2, OneCall DEF HandlerInv
  <2>4. Progress(c)'
    BY <1>1, <1>2, <2>2, <2>3 DEF Progress
  <2>5. Handlers' /\ call' \in [Clients -> CallRecords]
    BY <1>1, <1>2, <2>2, <2>3, <2>4, OneHandler
  <2>6. sessions' \in [Devices -> SUBSET Sessions]
    BY <1>6 DEF HandlerInv, Types
  <2>7. HandlerInv'
    BY <1>2, <2>5, <2>6 DEF HandlerInv, Types, Phases
  <2> QED
    BY <2>2, <2>3, <2>7
<1>7. \/ UNCHANGED sessions /\ Becomes(c, NoCall)
      \/ UNCHANGED sessions /\ Len(call[c].todo) # 1
           /\ Becomes(c, [call[c] EXCEPT !.todo = Tail(@)])
      \/ ~(Cardinality(sessions[Device(c)]) >= MaxConcurrent)
  BY ReplyIsNoCall DEF CreateAt
<1>8. Cardinality(sessions[Device(c)]) \in Nat
  <2>1. sessions[Device(c)] \in SUBSET Sessions
    BY <1>1 DEF HandlerInv, Types
  <2> QED
    BY <2>1, FiniteSorts, FS_Subset, FS_CardinalityType
<1>9. ASSUME ~(Cardinality(sessions[Device(c)]) >= MaxConcurrent)
      PROVE  Cardinality(sessions[Device(c)]) < MaxConcurrent
  BY <1>8, <1>9, Constants
<1>10. CASE ~(Cardinality(sessions[Device(c)]) >= MaxConcurrent)
  <2>1. PICK s \in Sessions \ known :
               /\ \A d \in Devices : s \notin sessions[d]
               /\ sessions' = [sessions EXCEPT ![Device(c)] = @ \cup {s}]
               /\ Becomes(c, [call[c] EXCEPT !.pc = "register", !.session = s])
    BY <1>5, <1>10
  <2>2. /\ HandlerInv'
        /\ \E h \in CallRecords :
             /\ Becomes(c, h) /\ h.pc = "register" /\ h.op = "create"
             /\ h.session = s /\ h.todo = call[c].todo
    BY <1>6, <2>1
  <2> QED
    BY <1>2, <1>9, <1>10, <2>1, <2>2
<1>11. CASE /\ UNCHANGED sessions /\ Len(call[c].todo) # 1
            /\ Becomes(c, [call[c] EXCEPT !.todo = Tail(@)])
  <2>1. /\ HandlerInv'
        /\ \E h \in CallRecords : Becomes(c, h) /\ h.pc = "create" /\ h.op = "create"
    BY <1>4, <1>11
  <2> QED
    BY <1>2, <1>11, <2>1
<1>12. CASE UNCHANGED sessions /\ Becomes(c, NoCall)
  <2>1. HandlerInv'
    BY <1>3, <1>12
  <2> QED
    BY <1>2, <1>12, <2>1
<1> QED
  BY <1>7, <1>10, <1>11, <1>12

LEMMA RegisterHandlers ==
  ASSUME HandlerInv, NEW c \in Clients, Register(c)
  PROVE  /\ HandlerInv' /\ Becomes(c, NoCall)
         /\ UNCHANGED <<main, stopped, sessions, busy, queue, active, req, waiting,
                        running, calls>>
         /\ call[c].session \in Sessions /\ Device(c) \in Devices
         /\ owner' = [owner EXCEPT ![call[c].session] = Device(c)]
         /\ known' = known \cup {call[c].session}
<1>1. /\ call[c].pc = "register" /\ call[c].session \in Sessions
      /\ Device(c) \in Devices /\ ~At(c, "idle")
  BY CreateDevice DEF Register, At, HandlerInv, Handlers, Progress
<1>2. /\ UNCHANGED <<main, stopped, sessions, busy, queue, active, req, waiting,
                     running, calls>>
      /\ owner' = [owner EXCEPT ![call[c].session] = Device(c)]
      /\ known' = known \cup {call[c].session}
  BY DEF Register, mainVars, registry, load, pool
<1>3. Becomes(c, NoCall)
  BY ReplyIsNoCall DEF Register
<1>4. Handlers' /\ call' \in [Clients -> CallRecords]
  BY <1>1, <1>2, <1>3, ReplyHandlers
<1>5. HandlerInv'
  BY <1>1, <1>2, <1>4 DEF HandlerInv, Types, Phases
<1> QED
  BY <1>1, <1>2, <1>3, <1>5

LEMMA DeleteHandlers ==
  ASSUME HandlerInv, NEW c \in Clients, DeleteAt(c)
  PROVE  /\ HandlerInv'
         /\ UNCHANGED <<main, stopped, busy, queue, active, owner, known, req,
                        waiting, running, calls>>
         /\ call[c].session \in known /\ Device(c) \in Devices
         /\ \/ UNCHANGED sessions /\ Becomes(c, NoCall)
            \/ /\ call[c].session \in sessions[Device(c)] \ busy[Device(c)]
               /\ sessions' = [sessions EXCEPT ![Device(c)] = @ \ {call[c].session}]
               /\ \E h \in CallRecords :
                    /\ Becomes(c, h) /\ h.pc = "forget" /\ h.op = "delete"
                    /\ h.session = call[c].session
<1>1. /\ call[c] \in CallRecords /\ call[c].pc = "delete" /\ call[c].op = "delete"
      /\ call[c].session \in known /\ Device(c) \in Devices /\ calls[c] > 0
      /\ ~At(c, "idle")
  BY CreateDevice DEF DeleteAt, At, HandlerInv, Handlers, Progress
<1>2. UNCHANGED <<main, stopped, busy, queue, active, owner, known, req, waiting,
                  running, calls>>
  BY DEF DeleteAt, mainVars, load, pool
<1>3. CASE UNCHANGED sessions /\ Becomes(c, NoCall)
  <2>1. Handlers' /\ call' \in [Clients -> CallRecords]
    BY <1>1, <1>2, <1>3, ReplyHandlers
  <2>2. HandlerInv'
    BY <1>2, <1>3, <2>1 DEF HandlerInv, Types, Phases
  <2> QED
    BY <1>1, <1>2, <1>3, <2>2
<1>4. CASE /\ call[c].session \in sessions[Device(c)] \ busy[Device(c)]
           /\ sessions' = [sessions EXCEPT ![Device(c)] = @ \ {call[c].session}]
           /\ Becomes(c, [call[c] EXCEPT !.pc = "forget"])
  <2>1. PICK h : h = [call[c] EXCEPT !.pc = "forget"]
    OBVIOUS
  <2>2. /\ h \in CallRecords /\ h.pc = "forget" /\ h.op = "delete"
        /\ h.session = call[c].session
    BY <1>1, <2>1 DEF CallRecords
  <2>3. call'[c] = h /\ Becomes(c, h)
    BY <1>4, <2>1, <2>2, OneCall DEF HandlerInv
  <2>4. Progress(c)'
    BY <1>1, <1>2, <2>2, <2>3 DEF Progress
  <2>5. Handlers' /\ call' \in [Clients -> CallRecords]
    BY <1>1, <1>2, <2>2, <2>3, <2>4, OneHandler
  <2>6. sessions' \in [Devices -> SUBSET Sessions]
    BY <1>4 DEF HandlerInv, Types
  <2>7. HandlerInv'
    BY <1>2, <2>5, <2>6 DEF HandlerInv, Types, Phases
  <2> QED
    BY <1>1, <1>2, <1>4, <2>2, <2>3, <2>7
<1> QED
  BY <1>3, <1>4, ReplyIsNoCall DEF DeleteAt

LEMMA ForgetHandlers ==
  ASSUME HandlerInv, NEW c \in Clients, Forget(c)
  PROVE  /\ HandlerInv' /\ Becomes(c, NoCall) /\ call[c].session \in known
         /\ UNCHANGED <<main, stopped, sessions, busy, queue, active, known, req,
                        waiting, running, calls>>
         /\ owner' = [owner EXCEPT ![call[c].session] = NoDevice]
<1>1. call[c].pc = "forget" /\ call[c].session \in known /\ ~At(c, "idle")
  BY DEF Forget, At, HandlerInv, Handlers, Progress
<1>2. /\ UNCHANGED <<main, stopped, sessions, busy, queue, active, known, req,
                     waiting, running, calls>>
      /\ owner' = [owner EXCEPT ![call[c].session] = NoDevice]
  BY DEF Forget, mainVars, registry, load, pool
<1>3. Becomes(c, NoCall)
  BY ReplyIsNoCall DEF Forget
<1>4. Handlers' /\ call' \in [Clients -> CallRecords]
  BY <1>1, <1>2, <1>3, ReplyHandlers
<1>5. HandlerInv'
  BY <1>1, <1>2, <1>4 DEF HandlerInv, Types, Phases
<1> QED
  BY <1>1, <1>2, <1>3, <1>5

\* The request of a client that has made one.
LEMMA OwnIsRequest ==
  ASSUME Types, NEW c \in Clients, calls[c] > 0
  PROVE  Own(c) \in Requests /\ req[Own(c)] \in RequestRecords
<1>1. calls[c] \in 1 .. MaxCalls
  BY Constants DEF Types
<1> QED
  BY <1>1 DEF Types, Own, Requests

LEMMA OwnIsDistinct ==
  ASSUME NEW c, NEW k, Own(c) = Own(k)
  PROVE  c = k
BY DEF Own

LEMMA SubmitHandlers ==
  ASSUME HandlerInv, NEW c \in Clients, SubmitAt(c)
  PROVE  /\ HandlerInv' /\ ~At(c, "idle")
         /\ UNCHANGED <<main, stopped, sessions, active, owner, known, running,
                        calls>>
         /\ Device(c) \in Devices /\ MaxTokens > 0
         /\ call[c].session \in known \cup {NoSession}
         /\ \/ UNCHANGED <<busy, queue, req, waiting>> /\ Becomes(c, NoCall)
            \/ /\ Load(Device(c)) < MaxConcurrent + MaxQueueDepth
               /\ call[c].session # NoSession =>
                    call[c].session \in sessions[Device(c)] \ busy[Device(c)]
               /\ busy' = [busy EXCEPT ![Device(c)] =
                             @ \cup ({call[c].session} \ {NoSession})]
               /\ queue' = [queue EXCEPT ![Device(c)] = Append(@, Own(c))]
               /\ req' = [req EXCEPT ![Own(c)] =
                            [NoRequest EXCEPT !.session = call[c].session,
                                              !.stage = "live"]]
               /\ \E h \in CallRecords :
                    /\ Becomes(c, h) /\ h.pc = "wait" /\ h.op = call[c].op
                    /\ h.session = call[c].session /\ h.got = <<>>
<1> DEFINE s == call[c].session
           d == Device(c)
<1>1. /\ call[c] \in CallRecords /\ call[c].pc = "submit" /\ call[c].op # "create"
      /\ s \in known \cup {NoSession} /\ call[c].got = <<>>
      /\ d \in Devices /\ calls[c] > 0 /\ MaxTokens > 0 /\ ~At(c, "idle")
  BY CreateDevice DEF SubmitAt, At, HandlerInv, Handlers, Progress
<1>2. UNCHANGED <<main, stopped, sessions, active, owner, known, running, calls>>
  BY DEF SubmitAt, mainVars
<1>3. CASE UNCHANGED <<busy, queue, req, waiting>> /\ Becomes(c, NoCall)
  <2>1. Handlers' /\ call' \in [Clients -> CallRecords]
    BY <1>1, <1>2, <1>3, ReplyHandlers
  <2>2. HandlerInv'
    BY <1>2, <1>3, <2>1 DEF HandlerInv, Types, Phases
  <2> QED
    BY <1>1, <1>2, <1>3, <2>2
<1>4. CASE /\ ~(Load(d) >= MaxConcurrent + MaxQueueDepth)
           /\ ~KeyError(c) /\ s \notin busy[d]
           /\ busy' = [busy EXCEPT ![d] = @ \cup ({s} \ {NoSession})]
           /\ queue' = [queue EXCEPT ![d] = Append(@, Own(c))]
           /\ req' = [req EXCEPT ![Own(c)] =
                        [NoRequest EXCEPT !.session = s, !.stage = "live"]]
           /\ waiting' = Append(waiting, c)
           /\ Becomes(c, [call[c] EXCEPT !.pc = "wait", !.todo = <<>>])
  <2>1. PICK h : h = [call[c] EXCEPT !.pc = "wait", !.todo = <<>>]
    OBVIOUS
  <2>2. /\ h \in CallRecords /\ h.pc = "wait" /\ h.op = call[c].op
        /\ h.session = s /\ h.got = <<>>
    <3>1. <<>> \in Seq(Devices)
      BY EmptySeq
    <3> QED
      BY <1>1, <2>1, <3>1 DEF CallRecords
  <2>3. call'[c] = h /\ Becomes(c, h)
    BY <1>4, <2>1, <2>2, OneCall DEF HandlerInv
  <2>4. Progress(c)'
    BY <1>1, <1>2, <2>2, <2>3 DEF Progress
  <2>5. waiting' \in Seq(Clients) /\ Range(waiting') = Range(waiting) \cup {c}
    BY <1>4, AppendRange DEF HandlerInv, Types
  <2>6. Handlers' /\ call' \in [Clients -> CallRecords]
    BY <1>1, <1>2, <2>2, <2>3, <2>4, <2>5, OneHandler
  <2>7. Own(c) \in Requests
    BY <1>1, OwnIsRequest DEF HandlerInv
  <2>8. Append(queue[d], Own(c)) \in Seq(Requests)
    BY <1>1, <2>7, AppendProperties DEF HandlerInv, Types
  <2>9. [NoRequest EXCEPT !.session = s, !.stage = "live"] \in RequestRecords
    <3>1. s \in Sessions \cup {NoSession}
      BY <1>1 DEF HandlerInv, Types
    <3> QED
      BY <3>1, EmptySeq DEF NoRequest, RequestRecords
  <2>10. busy' \in [Devices -> SUBSET Sessions]
    BY <1>1, <1>4 DEF HandlerInv, Types
  <2>11. queue' \in [Devices -> Seq(Requests)] /\ req' \in [Requests -> RequestRecords]
    BY <1>1, <1>4, <2>8, <2>9 DEF HandlerInv, Types
  <2>12. HandlerInv'
    BY <1>2, <2>5, <2>6, <2>10, <2>11 DEF HandlerInv, Types, Phases
  <2>13. Load(d) < MaxConcurrent + MaxQueueDepth
    BY <1>1, <1>4, LoadIsNatural, Constants DEF HandlerInv
  <2>14. s # NoSession => s \in sessions[d] \ busy[d]
    BY <1>1, <1>4 DEF KeyError, At
  <2> QED
    BY <1>1, <1>2, <1>4, <2>2, <2>3, <2>12, <2>13, <2>14
<1>5. \/ UNCHANGED <<busy, queue, req, waiting>> /\ \E status : Reply(c, status)
      \/ /\ ~(Load(d) >= MaxConcurrent + MaxQueueDepth)
         /\ ~KeyError(c) /\ s \notin busy[d]
         /\ busy' = [busy EXCEPT ![d] = @ \cup ({s} \ {NoSession})]
         /\ queue' = [queue EXCEPT ![d] = Append(@, Own(c))]
         /\ req' = [req EXCEPT ![Own(c)] =
                      [NoRequest EXCEPT !.session = s, !.stage = "live"]]
         /\ waiting' = Append(waiting, c)
         /\ Becomes(c, [call[c] EXCEPT !.pc = "wait", !.todo = <<>>])
  BY DEF SubmitAt
<1> QED
  BY <1>3, <1>4, <1>5, ReplyIsNoCall

LEMMA FinishHandlers ==
  ASSUME HandlerInv, NEW c \in Clients, Finish(c)
  PROVE  /\ HandlerInv' /\ At(c, "finish") /\ Becomes(c, NoCall)
         /\ UNCHANGED <<main, stopped, sessions, busy, queue, active, owner, known,
                        waiting, running, calls>>
         /\ req' = [req EXCEPT ![Own(c)] =
                      IF req[Own(c)].stage = "over" THEN NoRequest ELSE req[Own(c)]]
<1>1. At(c, "finish") /\ ~At(c, "idle")
  BY DEF Finish, At
<1>2. /\ UNCHANGED <<main, stopped, sessions, busy, queue, active, owner, known,
                     waiting, running, calls>>
      /\ req' = [req EXCEPT ![Own(c)] =
                   IF req[Own(c)].stage = "over" THEN NoRequest ELSE req[Own(c)]]
  BY DEF Finish, mainVars, registry, load, pool
<1>3. Becomes(c, NoCall)
  BY ReplyIsNoCall DEF Finish
<1>4. Handlers' /\ call' \in [Clients -> CallRecords]
  BY <1>1, <1>2, <1>3, ReplyHandlers
<1>5. req' \in [Requests -> RequestRecords]
  <2>1. NoRequest \in RequestRecords
    BY EmptySeq, Constants DEF NoRequest, RequestRecords
  <2>2. calls[c] > 0
    BY <1>1 DEF HandlerInv, Handlers, Progress, At
  <2>3. req[Own(c)] \in RequestRecords
    BY <2>2, OwnIsRequest DEF HandlerInv
  <2> QED
    BY <1>2, <2>1, <2>3 DEF HandlerInv, Types
<1>6. HandlerInv'
  BY <1>2, <1>4, <1>5 DEF HandlerInv, Types, Phases
<1> QED
  BY <1>1, <1>2, <1>3, <1>6

\* Nothing a handler relies on is touched.
LEMMA HandlersKept ==
  ASSUME HandlerInv, UNCHANGED <<call, calls, known>>,
         running' \cup Range(waiting') \subseteq running \cup Range(waiting)
  PROVE  Handlers'
<1>1. \A c \in Clients : Progress(c)'
  BY ProgressKept DEF HandlerInv, Handlers
<1> QED
  BY <1>1 DEF HandlerInv, Handlers

LEMMA TakeHandlers ==
  ASSUME HandlerInv, Take
  PROVE  /\ HandlerInv'
         /\ UNCHANGED <<main, stopped, sessions, busy, queue, active, owner, known,
                        req, call, calls>>
<1>1. /\ waiting # <<>> /\ running' = running \cup {Head(waiting)}
      /\ waiting' = Tail(waiting)
      /\ UNCHANGED <<main, stopped, sessions, busy, queue, active, owner, known,
                     req, call, calls>>
  BY DEF Take, mainVars, registry, load
<1>2. /\ Head(waiting) \in Clients /\ waiting' \in Seq(Clients)
      /\ Range(waiting) = Range(waiting') \cup {Head(waiting)}
  BY <1>1, HeadTailRange DEF HandlerInv, Types
<1>3. Handlers'
  BY <1>1, <1>2, HandlersKept
<1> QED
  BY <1>1, <1>2, <1>3 DEF HandlerInv, Types, Phases

LEMMA WaitedHandlers ==
  ASSUME HandlerInv, NEW c \in Clients, Waited(c)
  PROVE  /\ HandlerInv'
         /\ UNCHANGED <<main, stopped, sessions, busy, queue, active, owner, known,
                        req, waiting, calls>>
         /\ c \in running /\ ~call[c].stream /\ IsDone(Own(c))
         /\ \E h \in CallRecords :
              /\ Becomes(c, h) /\ h.op = call[c].op /\ h.stream = call[c].stream
              /\ h.session = call[c].session /\ h.got = call[c].got
              /\ h.todo = call[c].todo
              /\ h.pc = IF call[c].pc = "wait" THEN "finish" ELSE call[c].pc
<1>1. /\ c \in running /\ ~call[c].stream /\ IsDone(Own(c))
      /\ running' = running \ {c}
      /\ UNCHANGED <<main, stopped, sessions, busy, queue, active, owner, known,
                     req, waiting, calls>>
  BY DEF Waited, mainVars, registry, load
<1>2. /\ call[c] \in CallRecords /\ Progress(c) /\ calls[c] > 0
  BY <1>1 DEF HandlerInv, Types, Handlers
<1>3. PICK h : h = [call[c] EXCEPT !.pc = IF @ = "wait" THEN "finish" ELSE @]
  OBVIOUS
<1>4. /\ h \in CallRecords /\ h.op = call[c].op /\ h.stream = call[c].stream
      /\ h.session = call[c].session /\ h.got = call[c].got
      /\ h.todo = call[c].todo /\ h.loads = call[c].loads
      /\ h.pc = IF call[c].pc = "wait" THEN "finish" ELSE call[c].pc
  BY <1>2, <1>3 DEF CallRecords
<1>5. Becomes(c, h)
  BY <1>3 DEF Waited, Becomes
<1>6. call'[c] = h
  BY <1>4, <1>5, OneCall DEF HandlerInv
<1>7. Progress(c)'
  BY <1>1, <1>2, <1>4, <1>6 DEF Progress
<1>8. Handlers' /\ call' \in [Clients -> CallRecords]
  BY <1>1, <1>2, <1>4, <1>5, <1>7, OneHandler
<1>9. HandlerInv'
  BY <1>1, <1>8 DEF HandlerInv, Types, Phases
<1> QED
  BY <1>1, <1>4, <1>5, <1>9

LEMMA GotHandlers ==
  ASSUME HandlerInv, NEW c \in Clients, Got(c)
  PROVE  /\ HandlerInv'
         /\ UNCHANGED <<main, stopped, sessions, busy, queue, active, owner, known,
                        calls>>
         /\ c \in running /\ call[c].stream /\ Own(c) \in Requests
         /\ req[Own(c)].out # <<>> /\ req[Own(c)].out \in Seq(Nat)
         /\ req' = [req EXCEPT ![Own(c)].out = Tail(@)]
         /\ \E h \in CallRecords :
              /\ Becomes(c, h) /\ h.op = call[c].op /\ h.stream = call[c].stream
              /\ h.session = call[c].session /\ h.todo = call[c].todo
              /\ \/ /\ call[c].pc = "wait" /\ Head(req[Own(c)].out) # End
                    /\ h.pc = "wait"
                    /\ h.got = Append(call[c].got, Head(req[Own(c)].out))
                 \/ /\ call[c].pc = "wait" => Head(req[Own(c)].out) = End
                    /\ h.got = call[c].got
                    /\ h.pc = IF call[c].pc = "wait" THEN "finish" ELSE call[c].pc
<1> DEFINE item == Head(req[Own(c)].out)
<1>1. /\ c \in running /\ call[c].stream /\ req[Own(c)].out # <<>>
      /\ req' = [req EXCEPT ![Own(c)].out = Tail(@)]
      /\ running' = running \ {c}
      /\ UNCHANGED <<main, stopped, sessions, busy, queue, active, owner, known,
                     calls>>
  BY DEF Got, mainVars, registry, load
<1>2. /\ call[c] \in CallRecords /\ Progress(c) /\ calls[c] > 0
  BY <1>1 DEF HandlerInv, Types, Handlers
<1>3. Own(c) \in Requests /\ req[Own(c)] \in RequestRecords
  BY <1>2, OwnIsRequest DEF HandlerInv
<1>4. /\ req[Own(c)].out \in Seq(Nat) /\ item \in Nat
      /\ Tail(req[Own(c)].out) \in Seq(Nat)
  <2>1. req[Own(c)].out \in Seq(Nat)
    BY <1>3 DEF RequestRecords
  <2> QED
    BY <1>1, <2>1, HeadTailProperties
<1>5. req' \in [Requests -> RequestRecords]
  <2>1. PICK q : q = [req[Own(c)] EXCEPT !.out = Tail(@)]
    OBVIOUS
  <2>2. q \in RequestRecords
    BY <1>3, <1>4, <2>1 DEF RequestRecords
  <2>3. req' = [req EXCEPT ![Own(c)] = q]
    BY <1>1, <2>1
  <2> QED
    BY <1>3, <2>2, <2>3 DEF HandlerInv, Types
<1>6. CASE /\ At(c, "wait") /\ item # End
           /\ call' = [call EXCEPT ![c].got = Append(@, item)]
           /\ waiting' = Append(waiting, c)
  <2>1. PICK h : h = [call[c] EXCEPT !.got = Append(@, item)]
    OBVIOUS
  <2>2. Becomes(c, h)
    BY <1>6, <2>1 DEF Becomes
  <2>3. /\ h \in CallRecords /\ h.op = call[c].op /\ h.stream = call[c].stream
        /\ h.session = call[c].session /\ h.todo = call[c].todo
        /\ h.loads = call[c].loads
        /\ h.pc = "wait" /\ h.got = Append(call[c].got, item)
    <3>1. call[c].got \in Seq(Nat)
      BY <1>2 DEF CallRecords
    <3>2. Append(call[c].got, item) \in Seq(Nat)
      BY <1>4, <3>1, AppendProperties
    <3> QED
      BY <1>2, <1>6, <2>1, <3>2 DEF CallRecords, At
  <2>4. call'[c] = h
    BY <2>2, <2>3, OneCall DEF HandlerInv
  <2>5. waiting' \in Seq(Clients) /\ Range(waiting') = Range(waiting) \cup {c}
    BY <1>6, AppendRange DEF HandlerInv, Types
  <2>6. Progress(c)'
    BY <1>1, <1>2, <1>6, <2>3, <2>4 DEF Progress, At
  <2>7. Handlers' /\ call' \in [Clients -> CallRecords]
    BY <1>1, <1>2, <2>2, <2>3, <2>5, <2>6, OneHandler
  <2>8. HandlerInv'
    BY <1>1, <1>5, <2>5, <2>7 DEF HandlerInv, Types, Phases
  <2> QED
    BY <1>1, <1>3, <1>4, <1>6, <2>2, <2>3, <2>8 DEF At
<1>7. CASE /\ ~(At(c, "wait") /\ item # End)
           /\ call' = [call EXCEPT ![c].pc = IF @ = "wait" THEN "finish" ELSE @]
           /\ UNCHANGED waiting
  <2>1. PICK h : h = [call[c] EXCEPT !.pc = IF @ = "wait" THEN "finish" ELSE @]
    OBVIOUS
  <2>2. Becomes(c, h)
    BY <1>7, <2>1 DEF Becomes
  <2>3. /\ h \in CallRecords /\ h.op = call[c].op /\ h.stream = call[c].stream
        /\ h.session = call[c].session /\ h.todo = call[c].todo
        /\ h.loads = call[c].loads /\ h.got = call[c].got
        /\ h.pc = IF call[c].pc = "wait" THEN "finish" ELSE call[c].pc
    BY <1>2, <2>1 DEF CallRecords
  <2>4. call'[c] = h
    BY <2>2, <2>3, OneCall DEF HandlerInv
  <2>5. Progress(c)'
    BY <1>1, <1>2, <2>3, <2>4 DEF Progress
  <2>6. Handlers' /\ call' \in [Clients -> CallRecords]
    BY <1>1, <1>2, <1>7, <2>2, <2>3, <2>5, OneHandler
  <2>7. HandlerInv'
    BY <1>1, <1>5, <1>7, <2>6 DEF HandlerInv, Types, Phases
  <2> QED
    BY <1>1, <1>3, <1>4, <1>7, <2>2, <2>3, <2>7 DEF At
<1> QED
  BY <1>6, <1>7 DEF Got

-----------------------------------------------------------------------------
(* The schedulers' threads and main *)

LEMMA AdmitHandlers ==
  ASSUME HandlerInv, NEW d \in Devices, Admit(d)
  PROVE  /\ HandlerInv'
         /\ UNCHANGED <<main, stopped, sessions, busy, owner, known, req, call,
                        waiting, running, calls>>
         /\ d > stopped /\ AtStep(d) /\ queue[d] # <<>>
         /\ Cardinality(active[d]) < MaxConcurrent
         /\ active' = [active EXCEPT ![d] = @ \cup {Head(queue[d])}]
         /\ queue' = [queue EXCEPT ![d] = Tail(@)]
<1>1. /\ UNCHANGED <<main, stopped, sessions, busy, owner, known, req, call,
                     waiting, running, calls>>
      /\ d > stopped /\ AtStep(d) /\ queue[d] # <<>>
      /\ Cardinality(active[d]) < MaxConcurrent
      /\ active' = [active EXCEPT ![d] = @ \cup {Head(queue[d])}]
      /\ queue' = [queue EXCEPT ![d] = Tail(@)]
  BY DEF Admit, Runs, mainVars, registry, pool
<1>2. Head(queue[d]) \in Requests /\ Tail(queue[d]) \in Seq(Requests)
  BY <1>1, HeadTailProperties DEF HandlerInv, Types
<1>3. /\ active' \in [Devices -> SUBSET Requests]
      /\ queue' \in [Devices -> Seq(Requests)]
  BY <1>1, <1>2 DEF HandlerInv, Types
<1>4. Handlers'
  BY <1>1, HandlersKept
<1> QED
  BY <1>1, <1>3, <1>4 DEF HandlerInv, Types, Phases

\* A request's record gets a new value, and that is all.
LEMMA OneRequest ==
  ASSUME HandlerInv, NEW r \in Requests, NEW q \in RequestRecords,
         req' = [req EXCEPT ![r] = q],
         UNCHANGED <<main, stopped, sessions, queue, owner, known, call, waiting,
                     running, calls>>,
         active' \in [Devices -> SUBSET Requests],
         busy' \in [Devices -> SUBSET Sessions]
  PROVE  /\ HandlerInv' /\ req'[r] = q
         /\ \A p \in Requests \ {r} : req'[p] = req[p]
<1>1. Handlers'
  BY HandlersKept
<1>2. /\ req' \in [Requests -> RequestRecords] /\ req'[r] = q
      /\ \A p \in Requests \ {r} : req'[p] = req[p]
  BY DEF HandlerInv, Types
<1> QED
  BY <1>1, <1>2 DEF HandlerInv, Types, Phases

LEMMA StepHandlers ==
  ASSUME HandlerInv, NEW d \in Devices, NEW r \in active[d], Step(d, r)
  PROVE  /\ HandlerInv' /\ r \in Requests
         /\ UNCHANGED <<main, stopped, sessions, busy, queue, active, owner, known,
                        call, waiting, running, calls>>
         /\ req[r].stage = "live"
         /\ \A p \in Requests \ {r} : req'[p] = req[p]
         /\ req'[r].session = req[r].session /\ req'[r].failed = req[r].failed
         /\ req'[r].made = req[r].made + 1
         /\ \/ /\ req[r].made + 1 < MaxTokens /\ req'[r].stage = "live"
               /\ req'[r].out = req[r].out \o <<req[r].made + 1>>
            \/ /\ ~(req[r].made + 1 < MaxTokens) /\ req'[r].stage = "ended"
               /\ req'[r].out = req[r].out \o <<req[r].made + 1, End>>
<1>1. /\ r \in Requests /\ active[d] \in SUBSET Requests
      /\ req[r] \in RequestRecords
  BY DEF HandlerInv, Types
<1>2. /\ UNCHANGED <<main, stopped, sessions, busy, queue, active, owner, known,
                     call, waiting, running, calls>>
      /\ req[r].stage = "live"
  BY <1>1 DEF Step, AtStep, mainVars, registry, load, pool
<1>3. PICK n : n = req[r].made + 1
  OBVIOUS
<1>4. PICK q : q = [req[r] EXCEPT !.made = n,
                      !.out = @ \o (IF n < MaxTokens THEN <<n>> ELSE <<n, End>>),
                      !.stage = IF n < MaxTokens THEN @ ELSE "ended"]
  OBVIOUS
<1>5. req' = [req EXCEPT ![r] = q]
  BY <1>3, <1>4 DEF Step
<1>6. n \in Nat /\ req[r].out \in Seq(Nat)
  BY <1>1, <1>3 DEF RequestRecords
<1>7. <<n>> \in Seq(Nat) /\ <<n, End>> \in Seq(Nat)
  BY <1>6 DEF End
<1>8. req[r].out \o (IF n < MaxTokens THEN <<n>> ELSE <<n, End>>) \in Seq(Nat)
  BY <1>6, <1>7, ConcatProperties
<1>9. /\ q \in RequestRecords /\ q.session = req[r].session
      /\ q.failed = req[r].failed /\ q.made = n
      /\ q.stage = IF n < MaxTokens THEN req[r].stage ELSE "ended"
      /\ q.out = req[r].out \o (IF n < MaxTokens THEN <<n>> ELSE <<n, End>>)
  BY <1>1, <1>4, <1>6, <1>8 DEF RequestRecords
<1>10. /\ HandlerInv' /\ req'[r] = q
       /\ \A p \in Requests \ {r} : req'[p] = req[p]
  <2>1. /\ active' \in [Devices -> SUBSET Requests]
        /\ busy' \in [Devices -> SUBSET Sessions]
    BY <1>2 DEF HandlerInv, Types
  <2> QED
    BY <1>1, <1>2, <1>5, <1>9, <2>1, OneRequest
<1> QED
  BY <1>1, <1>2, <1>3, <1>9, <1>10

LEMMA FailHandlers ==
  ASSUME HandlerInv, NEW d \in Devices, NEW r \in active[d], Fail(d, r)
  PROVE  /\ HandlerInv' /\ r \in Requests
         /\ UNCHANGED <<main, stopped, sessions, busy, queue, active, owner, known,
                        call, waiting, running, calls>>
         /\ req[r].stage = "live"
         /\ \A p \in Requests \ {r} : req'[p] = req[p]
         /\ req'[r].session = req[r].session /\ req'[r].failed
         /\ req'[r].made = req[r].made /\ req'[r].stage = "ended"
         /\ req'[r].out = Append(req[r].out, End)
<1>1. /\ r \in Requests /\ active[d] \in SUBSET Requests
      /\ req[r] \in RequestRecords
  BY DEF HandlerInv, Types
<1>2. /\ UNCHANGED <<main, stopped, sessions, busy, queue, active, owner, known,
                     call, waiting, running, calls>>
      /\ req[r].stage = "live"
  BY <1>1 DEF Fail, AtStep, mainVars, registry, load, pool
<1>3. PICK q : q = [req[r] EXCEPT !.failed = TRUE, !.out = Append(@, End),
                                  !.stage = "ended"]
  OBVIOUS
<1>4. req' = [req EXCEPT ![r] = q]
  BY <1>3 DEF Fail
<1>5. Append(req[r].out, End) \in Seq(Nat)
  <2>1. req[r].out \in Seq(Nat) /\ End \in Nat
    BY <1>1 DEF RequestRecords, End
  <2> QED
    BY <2>1, AppendProperties
<1>6. /\ q \in RequestRecords /\ q.session = req[r].session
      /\ q.failed /\ q.made = req[r].made
      /\ q.stage = "ended" /\ q.out = Append(req[r].out, End)
  BY <1>1, <1>3, <1>5 DEF RequestRecords
<1>7. /\ HandlerInv' /\ req'[r] = q
      /\ \A p \in Requests \ {r} : req'[p] = req[p]
  <2>1. /\ active' \in [Devices -> SUBSET Requests]
        /\ busy' \in [Devices -> SUBSET Sessions]
    BY <1>2 DEF HandlerInv, Types
  <2> QED
    BY <1>1, <1>2, <1>4, <1>6, <2>1, OneRequest
<1> QED
  BY <1>1, <1>2, <1>6, <1>7

LEMMA DoneHandlers ==
  ASSUME HandlerInv, NEW d \in Devices, NEW r \in active[d], SetDone(d, r)
  PROVE  /\ HandlerInv' /\ r \in Requests
         /\ UNCHANGED <<main, stopped, sessions, busy, queue, active, owner, known,
                        call, waiting, running, calls>>
         /\ req[r].stage = "ended"
         /\ \A p \in Requests \ {r} : req'[p] = req[p]
         /\ req'[r].session = req[r].session /\ req'[r].failed = req[r].failed
         /\ req'[r].made = req[r].made /\ req'[r].stage = "done"
         /\ req'[r].out = req[r].out
<1>1. /\ r \in Requests /\ active[d] \in SUBSET Requests
      /\ req[r] \in RequestRecords
  BY DEF HandlerInv, Types
<1>2. /\ UNCHANGED <<main, stopped, sessions, busy, queue, active, owner, known,
                     call, waiting, running, calls>>
      /\ req[r].stage = "ended"
  BY DEF SetDone, mainVars, registry, load, pool
<1>3. PICK q : q = [req[r] EXCEPT !.stage = "done"]
  OBVIOUS
<1>4. req' = [req EXCEPT ![r] = q]
  BY <1>3 DEF SetDone
<1>5. /\ q \in RequestRecords /\ q.session = req[r].session
      /\ q.failed = req[r].failed /\ q.made = req[r].made
      /\ q.stage = "done" /\ q.out = req[r].out
  BY <1>1, <1>3 DEF RequestRecords
<1>6. /\ HandlerInv' /\ req'[r] = q
      /\ \A p \in Requests \ {r} : req'[p] = req[p]
  <2>1. /\ active' \in [Devices -> SUBSET Requests]
        /\ busy' \in [Devices -> SUBSET Sessions]
    BY <1>2 DEF HandlerInv, Types
  <2> QED
    BY <1>1, <1>2, <1>4, <1>5, <2>1, OneRequest
<1> QED
  BY <1>1, <1>2, <1>5, <1>6

LEMMA LeaveHandlers ==
  ASSUME HandlerInv, NEW d \in Devices, NEW r \in active[d], Leave(d, r)
  PROVE  /\ HandlerInv' /\ r \in Requests
         /\ UNCHANGED <<main, stopped, sessions, queue, owner, known, call, waiting,
                        running, calls>>
         /\ req[r].stage = "done"
         /\ active' = [active EXCEPT ![d] = @ \ {r}]
         /\ busy' = [busy EXCEPT ![d] = @ \ {req[r].session}]
         /\ \A p \in Requests \ {r} : req'[p] = req[p]
         /\ \/ /\ req'[r].session = req[r].session
               /\ req'[r].failed = req[r].failed
               /\ req'[r].made = req[r].made /\ req'[r].stage = "over"
               /\ req'[r].out = req[r].out
            \/ /\ req'[r] = NoRequest
               /\ \A c \in Clients : Own(c) = r => At(c, "idle")
<1>1. /\ r \in Requests /\ active[d] \in SUBSET Requests
      /\ req[r] \in RequestRecords
  BY DEF HandlerInv, Types
<1>2. /\ UNCHANGED <<main, stopped, sessions, queue, owner, known, call, waiting,
                     running, calls>>
      /\ req[r].stage = "done"
      /\ active' = [active EXCEPT ![d] = @ \ {r}]
      /\ busy' = [busy EXCEPT ![d] = @ \ {req[r].session}]
  BY DEF Leave, mainVars, pool
<1>3. /\ active' \in [Devices -> SUBSET Requests]
      /\ busy' \in [Devices -> SUBSET Sessions]
  BY <1>2 DEF HandlerInv, Types
<1>4. CASE \E c \in Clients : Own(c) = r /\ (~At(c, "idle") \/ c \in running)
  <2>1. PICK q : q = [req[r] EXCEPT !.stage = "over"]
    OBVIOUS
  <2>2. req' = [req EXCEPT ![r] = q]
    BY <1>4, <2>1 DEF Leave
  <2>3. /\ q \in RequestRecords /\ q.session = req[r].session
        /\ q.failed = req[r].failed /\ q.made = req[r].made
        /\ q.stage = "over" /\ q.out = req[r].out
    BY <1>1, <2>1 DEF RequestRecords
  <2>4. /\ HandlerInv' /\ req'[r] = q
        /\ \A p \in Requests \ {r} : req'[p] = req[p]
    BY <1>1, <1>2, <1>3, <2>2, <2>3, OneRequest
  <2> QED
    BY <1>1, <1>2, <2>3, <2>4
<1>5. CASE ~\E c \in Clients : Own(c) = r /\ (~At(c, "idle") \/ c \in running)
  <2>1. req' = [req EXCEPT ![r] = NoRequest]
    BY <1>5 DEF Leave
  <2>2. NoRequest \in RequestRecords
    BY EmptySeq, Constants DEF NoRequest, RequestRecords
  <2>3. /\ HandlerInv' /\ req'[r] = NoRequest
        /\ \A p \in Requests \ {r} : req'[p] = req[p]
    BY <1>1, <1>2, <1>3, <2>1, <2>2, OneRequest
  <2> QED
    BY <1>1, <1>2, <1>5, <2>3
<1> QED
  BY <1>4, <1>5

\* Close and Returns only move main.
LEMMA MainHandlers ==
  ASSUME HandlerInv, Close \/ Returns
  PROVE  /\ HandlerInv'
         /\ UNCHANGED <<stopped, sessions, busy, queue, active, owner, known, req,
                        call, waiting, running, calls>>
         /\ \/ main = "serving" /\ main' = "closing"
            \/ /\ main \in {"closing", "cut"} /\ main' = "stopping"
               /\ \A c \in Clients : At(c, "idle")
<1>1. /\ UNCHANGED <<stopped, sessions, busy, queue, active, owner, known, req,
                     call, waiting, running, calls>>
      /\ \/ main = "serving" /\ main' = "closing"
         \/ /\ main \in {"closing", "cut"} /\ main' = "stopping"
            /\ \A c \in Clients : At(c, "idle")
  BY DEF Close, Returns, registry, load, pool
<1>2. Handlers'
  BY <1>1, HandlersKept
<1>3. Phases'
  BY <1>1, Constants DEF HandlerInv, Phases
<1> QED
  BY <1>1, <1>2, <1>3 DEF HandlerInv, Types

LEMMA CutHandlers ==
  ASSUME HandlerInv, Cut
  PROVE  /\ HandlerInv' /\ main = "closing" /\ main' = "cut"
         /\ UNCHANGED <<stopped, sessions, busy, queue, active, owner, known, req,
                        running, calls>>
         /\ \A c \in Clients : At(c, "idle") \/ At(c, "wait")
         /\ \A c \in Clients :
              call'[c].pc = "idle" /\ call'[c].op = "none"
<1>1. /\ main = "closing" /\ main' = "cut" /\ waiting' = <<>>
      /\ UNCHANGED <<stopped, sessions, busy, queue, active, owner, known, req,
                     running, calls>>
      /\ \A c \in Clients : At(c, "idle") \/ At(c, "wait")
      /\ call' = [c \in Clients |-> [NoCall EXCEPT !.stream = call[c].stream]]
  BY DEF Cut, registry, load
<1>2. ASSUME NEW c \in Clients
      PROVE  /\ call'[c] \in CallRecords
             /\ call'[c].pc = "idle" /\ call'[c].op = "none"
  <2>1. call[c].stream \in BOOLEAN
    BY DEF HandlerInv, Types, CallRecords
  <2>2. [NoCall EXCEPT !.stream = call[c].stream] \in CallRecords
    BY <2>1, EmptySeq DEF NoCall, CallRecords
  <2> QED
    BY <1>1, <2>2 DEF NoCall
<1>3. call' \in [Clients -> CallRecords]
  BY <1>1, <1>2
<1>4. waiting' \in Seq(Clients) /\ Range(waiting') = {}
  BY <1>1, EmptySeq DEF Range
<1>5. Handlers'
  BY <1>1, <1>2, <1>4 DEF HandlerInv, Handlers, Progress
<1> QED
  BY <1>1, <1>2, <1>3, <1>4, <1>5 DEF HandlerInv, Types, Phases

LEMMA StopHandlers ==
  ASSUME HandlerInv, Stop
  PROVE  /\ HandlerInv' /\ main = "stopping"
         /\ stopped + 1 \in Devices /\ stopped' = stopped + 1
         /\ main' = IF stopped + 1 = Gpus THEN "stopped" ELSE "stopping"
         /\ UNCHANGED <<sessions, owner, known, call, waiting, running, calls>>
         /\ AtStep(stopped + 1)
         /\ active' = [active EXCEPT ![stopped + 1] = {}]
         /\ queue' = [queue EXCEPT ![stopped + 1] = <<>>]
         /\ busy' = [busy EXCEPT ![stopped + 1] =
                       @ \ {req[r].session : r \in active[stopped + 1]}]
         /\ \A r \in Requests :
              /\ req'[r].session = req[r].session /\ req'[r].made = req[r].made
              /\ IF r \in active[stopped + 1]
                 THEN /\ req'[r].failed /\ req'[r].stage = "over"
                      /\ req'[r].out = Append(req[r].out, End)
                 ELSE IF r \in Range(queue[stopped + 1])
                 THEN /\ req'[r].failed /\ req'[r].stage = "done"
                      /\ req'[r].out = req[r].out
                 ELSE req'[r] = req[r]
<1>1. PICK d : d = stopped + 1
  OBVIOUS
<1>2. /\ main = "stopping" /\ AtStep(d) /\ stopped' = d
      /\ main' = IF d = Gpus THEN "stopped" ELSE "stopping"
      /\ active' = [active EXCEPT ![d] = {}] /\ queue' = [queue EXCEPT ![d] = <<>>]
      /\ busy' = [busy EXCEPT ![d] = @ \ {req[r].session : r \in active[d]}]
      /\ UNCHANGED <<sessions, owner, known, call, waiting, running, calls>>
      /\ req' = [r \in Requests |->
           IF r \in active[d]
           THEN [req[r] EXCEPT !.failed = TRUE, !.out = Append(@, End),
                               !.stage = "over"]
           ELSE IF r \in Range(queue[d])
           THEN [req[r] EXCEPT !.failed = TRUE, !.stage = "done"]
           ELSE req[r]]
  BY <1>1 DEF Stop, pool
<1>3. d \in Devices /\ d \in 0 .. Gpus /\ stopped \in Nat /\ stopped < Gpus
  <2>1. stopped \in 0 .. Gpus /\ stopped < Gpus
    BY <1>2 DEF HandlerInv, Types, Phases
  <2> QED
    BY <1>1, <2>1, Constants DEF Devices
<1>4. ASSUME NEW r \in Requests
      PROVE  /\ req'[r] \in RequestRecords
             /\ req'[r].session = req[r].session /\ req'[r].made = req[r].made
             /\ IF r \in active[d]
                THEN /\ req'[r].failed /\ req'[r].stage = "over"
                     /\ req'[r].out = Append(req[r].out, End)
                ELSE IF r \in Range(queue[d])
                THEN /\ req'[r].failed /\ req'[r].stage = "done"
                     /\ req'[r].out = req[r].out
                ELSE req'[r] = req[r]
  <2>1. req[r] \in RequestRecords /\ req[r].out \in Seq(Nat)
    BY DEF HandlerInv, Types, RequestRecords
  <2>2. Append(req[r].out, End) \in Seq(Nat)
    BY <2>1, AppendProperties DEF End
  <2>3. CASE r \in active[d]
    <3>1. PICK q : q = [req[r] EXCEPT !.failed = TRUE, !.out = Append(@, End),
                                      !.stage = "over"]
      OBVIOUS
    <3>2. /\ q \in RequestRecords /\ q.session = req[r].session
          /\ q.made = req[r].made /\ q.failed /\ q.stage = "over"
          /\ q.out = Append(req[r].out, End)
      BY <2>1, <2>2, <3>1 DEF RequestRecords
    <3>3. req'[r] = q
      BY <1>2, <2>3, <3>1
    <3> QED
      BY <2>3, <3>2, <3>3
  <2>4. CASE r \notin active[d] /\ r \in Range(queue[d])
    <3>1. PICK q : q = [req[r] EXCEPT !.failed = TRUE, !.stage = "done"]
      OBVIOUS
    <3>2. /\ q \in RequestRecords /\ q.session = req[r].session
          /\ q.made = req[r].made /\ q.failed /\ q.stage = "done"
          /\ q.out = req[r].out
      BY <2>1, <3>1 DEF RequestRecords
    <3>3. req'[r] = q
      BY <1>2, <2>4, <3>1
    <3> QED
      BY <2>4, <3>2, <3>3
  <2>5. CASE r \notin active[d] /\ r \notin Range(queue[d])
    <3>1. req'[r] = req[r]
      BY <1>2, <2>5
    <3> QED
      BY <2>1, <2>5, <3>1
  <2> QED
    BY <2>3, <2>4, <2>5
<1>5. req' \in [Requests -> RequestRecords]
  BY <1>2, <1>4
<1>6. /\ active' \in [Devices -> SUBSET Requests]
      /\ busy' \in [Devices -> SUBSET Sessions]
      /\ queue' \in [Devices -> Seq(Requests)]
  <2>1. <<>> \in Seq(Requests)
    BY EmptySeq
  <2> QED
    BY <1>2, <2>1 DEF HandlerInv, Types
<1>7. Handlers'
  BY <1>2, HandlersKept
<1>8. Phases'
  <2>1. d \in Nat /\ (d = Gpus \/ d < Gpus)
    BY <1>3, Constants
  <2>2. /\ main' \in {"stopping", "stopped"}
        /\ main' = "stopping" => d < Gpus
        /\ main' = "stopped" => d = Gpus
    BY <1>2, <2>1
  <2> QED
    BY <1>2, <2>2 DEF Phases
<1>9. HandlerInv'
  BY <1>2, <1>3, <1>5, <1>6, <1>7, <1>8 DEF HandlerInv, Types
<1> QED
  BY <1>1, <1>2, <1>3, <1>4, <1>9

-----------------------------------------------------------------------------
(* Where a session lives *)

Creators == {c \in Clients : call[c].op = "create"}

\* A session lives on one device, which owns it from the moment its id is told
\* until the call that deletes it; no more sessions are being created than
\* there are ids left.
Homes ==
  /\ \A s \in Sessions, d \in Devices :
       s \in sessions[d] =>
         /\ \A e \in Devices \ {d} : s \notin sessions[e]
         /\ IF s \in known THEN owner[s] = d
            ELSE \E c \in Clients :
                   At(c, "register") /\ call[c].session = s /\ Device(c) = d
  /\ \A s \in Sessions \ known : owner[s] = NoDevice
  /\ \A s \in known, d \in Devices :
       owner[s] = d =>
         s \in sessions[d] \/ \E c \in Clients : At(c, "forget") /\ call[c].session = s
  /\ Cardinality(Creators) <= Cardinality(Sessions \ known)

\* The session a handler is about, where the handler is between two calls.
Errands ==
  /\ \A c \in Clients :
       LET s == call[c].session IN
       /\ At(c, "register") => s \in sessions[Device(c)] \ known
       /\ At(c, "forget") => \A d \in Devices : s \notin sessions[d]
       /\ At(c, "delete") \/ (At(c, "submit") /\ s # NoSession) =>
            \A d \in Devices : s \in sessions[d] => d = Device(c)
  /\ \A c, k \in Clients :
       At(c, "register") /\ At(k, "register") /\ call[c].session = call[k].session =>
         c = k

HomeInv == HandlerInv /\ Homes /\ Errands

LEMMA CreatorsAreFinite ==
  ASSUME NEW S, S \in SUBSET Clients
  PROVE  IsFiniteSet(S) /\ Cardinality(S) \in Nat
BY FiniteSorts, FS_Subset, FS_CardinalityType

LEMMA IdsAreFinite ==
  IsFiniteSet(Sessions \ known) /\ Cardinality(Sessions \ known) \in Nat
<1>1. Sessions \ known \in SUBSET Sessions
  OBVIOUS
<1> QED
  BY <1>1, FiniteSorts, FS_Subset, FS_CardinalityType

\* uuid4 has an id left for every call that creates a session.
LEMMA FreeId ==
  ASSUME HomeInv, NEW c \in Clients, At(c, "create")
  PROVE  \E s \in Sessions \ known : \A d \in Devices : s \notin sessions[d]
<1> SUFFICES ASSUME \A s \in Sessions \ known : \E d \in Devices : s \in sessions[d]
             PROVE  FALSE
  OBVIOUS
<1>1. c \in Creators /\ \A k \in Clients : At(k, "register") => k \in Creators
  BY DEF HomeInv, HandlerInv, Handlers, Progress, Creators, At
<1>2. \A s \in Sessions \ known :
        \E k \in Clients : At(k, "register") /\ call[k].session = s
  BY DEF HomeInv, Homes
<1>3. PICK f : f = [s \in Sessions \ known |->
                      CHOOSE k \in Clients : At(k, "register") /\ call[k].session = s]
  OBVIOUS
<1>4. \A s \in Sessions \ known :
        f[s] \in Clients /\ At(f[s], "register") /\ call[f[s]].session = s
  BY <1>2, <1>3
<1>5. \A s \in Sessions \ known : f[s] \in Creators \ {c}
  BY <1>1, <1>4 DEF At
<1>6. f \in Injection(Sessions \ known, Creators \ {c})
  BY <1>3, <1>4, <1>5 DEF Injection, IsInjective
<1>7. IsFiniteSet(Creators) /\ Cardinality(Creators) \in Nat
  BY CreatorsAreFinite DEF Creators
<1>8. /\ IsFiniteSet(Creators \ {c})
      /\ Cardinality(Creators \ {c}) = Cardinality(Creators) - 1
  BY <1>1, <1>7, FS_RemoveElement
<1>9. Cardinality(Sessions \ known) <= Cardinality(Creators \ {c})
  BY <1>6, <1>8, FS_Injection
<1>10. Cardinality(Creators) <= Cardinality(Sessions \ known)
  BY DEF HomeInv, Homes
<1> QED
  BY <1>7, <1>8, <1>9, <1>10, IdsAreFinite

LEMMA InitHomes == Init => HomeInv
<1> SUFFICES ASSUME Init PROVE HomeInv
  OBVIOUS
<1>1. HandlerInv
  BY InitHandlers
<1>2. Creators = {}
  BY NoCallIsIdle DEF Init, Creators
<1>3. Cardinality(Creators) <= Cardinality(Sessions \ known)
  BY <1>2, FS_EmptySet, IdsAreFinite
<1>4. \A s \in Sessions, d \in Devices : s \in sessions[d] <=> s \in known /\ d = 1
  BY DEF Init
<1>5. known \subseteq Sessions /\ NoDevice \notin Devices /\ 1 \in Devices
  BY <1>1, Constants DEF HandlerInv, Types, Devices
<1>6. \A s \in Sessions : owner[s] = IF s \in known THEN 1 ELSE NoDevice
  BY DEF Init
<1>7. Homes
  BY <1>3, <1>4, <1>5, <1>6 DEF Homes
<1>8. \A c \in Clients : call[c].pc = "idle"
  BY NoCallIsIdle DEF Init
<1>9. Errands
  BY <1>8 DEF Errands, At
<1> QED
  BY <1>1, <1>7, <1>9 DEF HomeInv

\* Nobody begins to create a session.
LEMMA CreatorsShrink ==
  ASSUME HomeInv, UNCHANGED known,
         \A k \in Clients : call'[k].op = "create" => call[k].op = "create"
  PROVE  Cardinality(Creators') <= Cardinality(Sessions \ known')
<1>1. Creators' \in SUBSET Creators /\ Creators \in SUBSET Clients
  BY DEF Creators
<1>2. /\ Cardinality(Creators') \in Nat /\ Cardinality(Creators) \in Nat
      /\ Cardinality(Creators') <= Cardinality(Creators)
  BY <1>1, CreatorsAreFinite, FS_Subset
<1>3. Cardinality(Creators) <= Cardinality(Sessions \ known)
  BY DEF HomeInv, Homes
<1> QED
  BY <1>2, <1>3, IdsAreFinite

\* A step of one handler that neither moves a session nor is about to tell the
\* router of a move.
LEMMA HomeOneHandler ==
  ASSUME HomeInv, HandlerInv', NEW c \in Clients, NEW h \in CallRecords,
         Becomes(c, h), UNCHANGED <<sessions, owner, known>>,
         call[c].pc \notin {"register", "forget"}, h.pc \notin {"register", "forget"},
         h.pc = "delete" \/ (h.pc = "submit" /\ h.session # NoSession) =>
           \A d \in Devices : h.session \in sessions[d] => d = Head(h.todo),
         Cardinality(Creators') <= Cardinality(Sessions \ known')
  PROVE  HomeInv'
<1>1. /\ call'[c] = h
      /\ \A k \in Clients \ {c} : call'[k] = call[k]
  BY OneCall DEF HomeInv, HandlerInv
<1>2. \A k \in Clients :
        /\ call[k].pc \in {"register", "forget"} => k # c /\ call'[k] = call[k]
        /\ call'[k].pc \in {"register", "forget"} => k # c /\ call'[k] = call[k]
  BY <1>1
<1>3. Homes'
  BY <1>2 DEF HomeInv, Homes, At, Device
<1>4. Errands'
  BY <1>1, <1>2 DEF HomeInv, Errands, At, Device
<1> QED
  BY <1>3, <1>4 DEF HomeInv

\* A step that is none of a handler's.
LEMMA HomeKept ==
  ASSUME HomeInv, HandlerInv', UNCHANGED <<call, sessions, owner, known>>
  PROVE  HomeInv'
<1>1. Homes'
  BY DEF HomeInv, Homes, At, Device, Creators
<1>2. Errands'
  BY DEF HomeInv, Errands, At, Device
<1> QED
  BY <1>1, <1>2 DEF HomeInv

LEMMA NothingHomes ==
  ASSUME HomeInv, UNCHANGED vars
  PROVE  HomeInv'
<1>1. UNCHANGED <<main, stopped, sessions, busy, queue, active, owner, known, req,
                  call, waiting, running, calls>>
  BY DEF vars
<1>2. Handlers'
  BY <1>1, HandlersKept DEF HomeInv
<1>3. HandlerInv'
  BY <1>1, <1>2 DEF HomeInv, HandlerInv, Types, Phases
<1> QED
  BY <1>1, <1>3, HomeKept

LEMMA ArriveHomes ==
  ASSUME HomeInv, NEW c \in Clients, Arrive(c)
  PROVE  HomeInv'
<1>1. PICK h \in CallRecords :
        /\ Becomes(c, h) /\ Opening(h)
        /\ h.op = "create" =>
             Cardinality(Sessions \ known) >
               Cardinality({k \in Clients : call[k].op = "create"})
  BY ArriveOpens DEF HomeInv, HandlerInv
<1>2. /\ At(c, "idle") /\ UNCHANGED <<sessions, owner, known>>
  BY ArriveOpens DEF HomeInv, HandlerInv
<1>3. HandlerInv'
  BY ArriveHandlers DEF HomeInv
<1>4. h.pc \in {"idle", "by_load", "owner"}
  BY <1>1 DEF Opening
<1>5. /\ call'[c] = h
      /\ \A k \in Clients \ {c} : call'[k] = call[k]
  BY <1>1, OneCall DEF HomeInv, HandlerInv
<1>6. Cardinality(Creators') <= Cardinality(Sessions \ known')
  <2>1. CASE h.op = "create"
    <3>1. Cardinality(Sessions \ known) > Cardinality(Creators)
      BY <1>1, <2>1 DEF Creators
    <3>2. Creators' \in SUBSET (Creators \cup {c})
      BY <1>5 DEF Creators
    <3>3. /\ IsFiniteSet(Creators) /\ Cardinality(Creators) \in Nat
          /\ Cardinality(Creators') \in Nat
      BY <3>2, CreatorsAreFinite DEF Creators
    <3>4. /\ IsFiniteSet(Creators \cup {c})
          /\ Cardinality(Creators \cup {c}) =
               IF c \in Creators THEN Cardinality(Creators)
               ELSE Cardinality(Creators) + 1
      BY <3>3, FS_AddElement
    <3>5. Cardinality(Creators') <= Cardinality(Creators \cup {c})
      BY <3>2, <3>4, FS_Subset
    <3>6. /\ Cardinality(Creators \cup {c}) \in Nat
          /\ Cardinality(Creators \cup {c}) <= Cardinality(Creators) + 1
      BY <3>3, <3>4
    <3> QED
      BY <1>2, <3>1, <3>3, <3>4, <3>5, <3>6, IdsAreFinite
  <2>2. CASE h.op # "create"
    <3>1. \A k \in Clients : call'[k].op = "create" => call[k].op = "create"
      BY <1>5, <2>2
    <3> QED
      BY <1>2, <3>1, CreatorsShrink
  <2> QED
    BY <2>1, <2>2
<1> QED
  BY <1>1, <1>2, <1>3, <1>4, <1>6, HomeOneHandler DEF At

\* A handler goes on, or answers, without touching the sessions.
LEMMA GoesOnHomes ==
  ASSUME HomeInv, HandlerInv', NEW c \in Clients, NEW h \in CallRecords,
         Becomes(c, h), UNCHANGED <<sessions, owner, known>>,
         call[c].pc \notin {"register", "forget"}, h.pc \notin {"register", "forget"},
         h.op = "create" => call[c].op = "create",
         h.pc = "delete" \/ (h.pc = "submit" /\ h.session # NoSession) =>
           \A d \in Devices : h.session \in sessions[d] => d = Head(h.todo)
  PROVE  HomeInv'
<1>1. /\ call'[c] = h
      /\ \A k \in Clients \ {c} : call'[k] = call[k]
  BY OneCall DEF HomeInv, HandlerInv
<1>2. \A k \in Clients : call'[k].op = "create" => call[k].op = "create"
  BY <1>1
<1>3. Cardinality(Creators') <= Cardinality(Sessions \ known')
  BY <1>2, CreatorsShrink
<1> QED
  BY <1>3, HomeOneHandler

LEMMA ReplyHomes ==
  ASSUME HomeInv, HandlerInv', NEW c \in Clients, Becomes(c, NoCall),
         UNCHANGED <<sessions, owner, known>>,
         call[c].pc \notin {"register", "forget"}
  PROVE  HomeInv'
BY NoCallIsIdle, GoesOnHomes

LEMMA LoadsHomes ==
  ASSUME HomeInv, NEW c \in Clients, _by_load(c)
  PROVE  HomeInv'
<1>1. /\ HandlerInv' /\ At(c, "by_load") /\ UNCHANGED <<sessions, owner, known>>
  BY LoadsHandlers DEF HomeInv
<1>2. PICK h \in CallRecords :
        /\ Becomes(c, h) /\ h.op = call[c].op /\ h.session = call[c].session
        /\ h.pc \in {"by_load", "create", "submit"}
        /\ h.pc = "submit" => h.session = NoSession
  BY LoadsHandlers DEF HomeInv
<1> QED
  BY <1>1, <1>2, GoesOnHomes DEF At

LEMMA OwnerHomes ==
  ASSUME HomeInv, NEW c \in Clients, _owner(c)
  PROVE  HomeInv'
<1>1. /\ HandlerInv' /\ UNCHANGED <<sessions, owner, known>>
      /\ call[c].session \in known /\ call[c].session \in Sessions
  BY OwnerHandlers DEF HomeInv, HandlerInv, Types
<1>2. call[c].pc = "owner"
  BY DEF _owner, At
<1>3. CASE Becomes(c, NoCall)
  BY <1>1, <1>2, <1>3, ReplyHomes
<1>4. ASSUME NEW h \in CallRecords,
             Becomes(c, h), h.session = call[c].session, h.op = call[c].op,
             h.pc \in {"delete", "submit"},
             h.todo = <<owner[call[c].session]>>
      PROVE  HomeInv'
  <2>1. \A d \in Devices : h.session \in sessions[d] => d = Head(h.todo)
    BY <1>1, <1>4 DEF HomeInv, Homes
  <2> QED
    BY <1>1, <1>2, <1>4, <2>1, GoesOnHomes
<1> QED
  BY <1>3, <1>4, OwnerHandlers DEF HomeInv

LEMMA SubmitHomes ==
  ASSUME HomeInv, NEW c \in Clients, SubmitAt(c)
  PROVE  HomeInv'
<1>1. /\ HandlerInv' /\ UNCHANGED <<sessions, owner, known>>
  BY SubmitHandlers DEF HomeInv
<1>2. call[c].pc = "submit"
  BY DEF SubmitAt, At
<1>3. CASE Becomes(c, NoCall)
  BY <1>1, <1>2, <1>3, ReplyHomes
<1>4. ASSUME NEW h \in CallRecords, Becomes(c, h), h.pc = "wait", h.op = call[c].op
      PROVE  HomeInv'
  BY <1>1, <1>2, <1>4, GoesOnHomes
<1> QED
  BY <1>3, <1>4, SubmitHandlers DEF HomeInv

LEMMA FinishHomes ==
  ASSUME HomeInv, NEW c \in Clients, Finish(c)
  PROVE  HomeInv'
<1>1. /\ HandlerInv' /\ UNCHANGED <<sessions, owner, known>>
      /\ Becomes(c, NoCall) /\ At(c, "finish")
  BY FinishHandlers DEF HomeInv
<1> QED
  BY <1>1, ReplyHomes DEF At

\* A thread of the executor hands its handler what it waited for.  A handler
\* that was cut off notices nothing.
LEMMA SameErrand ==
  ASSUME HomeInv, HandlerInv', NEW c \in Clients, NEW h \in CallRecords,
         Becomes(c, h), UNCHANGED <<sessions, owner, known>>,
         h.op = call[c].op, h.session = call[c].session, h.todo = call[c].todo,
         h.pc = call[c].pc \/ {h.pc, call[c].pc} \subseteq {"wait", "finish"}
  PROVE  HomeInv'
<1>1. /\ call'[c] = h
      /\ \A k \in Clients \ {c} : call'[k] = call[k]
  BY OneCall DEF HomeInv, HandlerInv
<1>2. \A k \in Clients :
        /\ call'[k].op = call[k].op /\ call'[k].session = call[k].session
        /\ call'[k].todo = call[k].todo
        /\ \/ call'[k].pc = call[k].pc
           \/ {call'[k].pc, call[k].pc} \subseteq {"wait", "finish"}
  BY <1>1
<1>3. \A k \in Clients :
        /\ At(k, "register")' <=> At(k, "register")
        /\ At(k, "forget")' <=> At(k, "forget")
        /\ At(k, "delete")' <=> At(k, "delete")
        /\ At(k, "submit")' <=> At(k, "submit")
        /\ Device(k)' = Device(k)
  BY <1>2 DEF At, Device
<1>4. Cardinality(Creators') <= Cardinality(Sessions \ known')
  BY <1>2, CreatorsShrink
<1>5. Homes'
  BY <1>2, <1>3, <1>4 DEF HomeInv, Homes
<1>6. Errands'
  BY <1>2, <1>3 DEF HomeInv, Errands
<1> QED
  BY <1>5, <1>6 DEF HomeInv

LEMMA ExecutorHomes ==
  ASSUME HomeInv, NEW c \in Clients, Waited(c) \/ Got(c)
  PROVE  HomeInv'
<1>1. CASE Waited(c)
  <2>1. /\ HandlerInv' /\ UNCHANGED <<sessions, owner, known>>
    BY <1>1, WaitedHandlers DEF HomeInv
  <2>2. PICK h \in CallRecords :
          /\ Becomes(c, h) /\ h.op = call[c].op
          /\ h.session = call[c].session /\ h.todo = call[c].todo
          /\ h.pc = IF call[c].pc = "wait" THEN "finish" ELSE call[c].pc
    BY <1>1, WaitedHandlers DEF HomeInv
  <2> QED
    BY <2>1, <2>2, SameErrand
<1>2. CASE Got(c)
  <2>1. /\ HandlerInv' /\ UNCHANGED <<sessions, owner, known>>
    BY <1>2, GotHandlers DEF HomeInv
  <2>2. PICK h \in CallRecords :
          /\ Becomes(c, h) /\ h.op = call[c].op
          /\ h.session = call[c].session /\ h.todo = call[c].todo
          /\ \/ call[c].pc = "wait" /\ h.pc = "wait"
             \/ h.pc = IF call[c].pc = "wait" THEN "finish" ELSE call[c].pc
    BY <1>2, GotHandlers DEF HomeInv
  <2> QED
    BY <2>1, <2>2, SameErrand
<1> QED
  BY <1>1, <1>2

LEMMA CreateHomes ==
  ASSUME HomeInv, NEW c \in Clients, CreateAt(c)
  PROVE  HomeInv'
<1>1. /\ call[c].pc = "create" /\ call[c].op = "create" /\ Device(c) \in Devices
  BY CreateDevice DEF CreateAt, At, HomeInv, HandlerInv, Handlers, Progress
<1>2. /\ HandlerInv' /\ UNCHANGED <<owner, known>>
      /\ \/ UNCHANGED sessions /\ Becomes(c, NoCall)
         \/ UNCHANGED sessions /\ \E h \in CallRecords :
              Becomes(c, h) /\ h.pc = "create" /\ h.op = "create"
         \/ \E s \in Sessions \ known, h \in CallRecords :
              /\ \A d \in Devices : s \notin sessions[d]
              /\ sessions' = [sessions EXCEPT ![Device(c)] = @ \cup {s}]
              /\ Becomes(c, h) /\ h.pc = "register" /\ h.op = "create"
              /\ h.session = s /\ h.todo = call[c].todo
  BY CreateHandlers, FreeId DEF HomeInv, CreateAt
<1>3. CASE UNCHANGED sessions /\ Becomes(c, NoCall)
  BY <1>1, <1>2, <1>3, ReplyHomes
<1>4. ASSUME UNCHANGED sessions, NEW h \in CallRecords, Becomes(c, h),
             h.pc = "create", h.op = "create"
      PROVE  HomeInv'
  BY <1>1, <1>2, <1>4, GoesOnHomes
<1>5. ASSUME NEW s \in Sessions \ known, NEW h \in CallRecords,
             \A d \in Devices : s \notin sessions[d],
             sessions' = [sessions EXCEPT ![Device(c)] = @ \cup {s}],
             Becomes(c, h), h.pc = "register", h.op = "create",
             h.session = s, h.todo = call[c].todo
      PROVE  HomeInv'
  <2>1. /\ call'[c] = h
        /\ \A k \in Clients \ {c} : call'[k] = call[k]
    BY <1>5, OneCall DEF HomeInv, HandlerInv
  <2>2. \A k \in Clients : call'[k].op = "create" => call[k].op = "create"
    BY <1>1, <2>1
  <2>3. Cardinality(Creators') <= Cardinality(Sessions \ known')
    BY <1>2, <2>2, CreatorsShrink
  <2>4. /\ At(c, "register")' /\ call'[c].session = s
        /\ Device(c)' = Device(c)
    BY <1>5, <2>1 DEF At, Device
  <2>5. \A k \in Clients : call[k].pc \in {"register", "forget"} =>
                             k # c /\ call'[k] = call[k]
    BY <1>1, <2>1
  <2>6. \A x \in Sessions, d \in Devices :
          x \in sessions'[d] <=> x \in sessions[d] \/ (x = s /\ d = Device(c))
    BY <1>1, <1>5 DEF HomeInv, HandlerInv, Types
  <2>7. \A x \in Sessions, d \in Devices :
          x \in sessions'[d] =>
            /\ \A e \in Devices \ {d} : x \notin sessions'[e]
            /\ IF x \in known THEN owner[x] = d
               ELSE \E k \in Clients :
                      /\ At(k, "register")' /\ call'[k].session = x
                      /\ Device(k)' = d
    <3> SUFFICES ASSUME NEW x \in Sessions, NEW d \in Devices, x \in sessions'[d]
                 PROVE  /\ \A e \in Devices \ {d} : x \notin sessions'[e]
                        /\ IF x \in known THEN owner[x] = d
                           ELSE \E k \in Clients :
                                  /\ At(k, "register")' /\ call'[k].session = x
                                  /\ Device(k)' = d
      OBVIOUS
    <3>1. CASE x = s
      BY <1>5, <2>4, <2>6, <3>1
    <3>2. CASE x # s
      <4>1. x \in sessions[d] /\ \A e \in Devices \ {d} : x \notin sessions'[e]
        BY <2>6, <3>2 DEF HomeInv, Homes
      <4>2. x \in known => owner[x] = d
        BY <4>1 DEF HomeInv, Homes
      <4>3. x \notin known =>
              \E k \in Clients :
                At(k, "register") /\ call[k].session = x /\ Device(k) = d
        BY <4>1 DEF HomeInv, Homes
      <4>4. x \notin known =>
              \E k \in Clients :
                At(k, "register")' /\ call'[k].session = x /\ Device(k)' = d
        BY <2>5, <4>3 DEF At, Device
      <4> QED
        BY <4>1, <4>2, <4>4
    <3> QED
      BY <3>1, <3>2
  <2>8. Homes'
    <3>1. \A x \in Sessions \ known : owner[x] = NoDevice
      BY DEF HomeInv, Homes
    <3>2. \A x \in known, d \in Devices : owner[x] = d =>
            \/ x \in sessions'[d]
            \/ \E k \in Clients : At(k, "forget")' /\ call'[k].session = x
      <4> SUFFICES ASSUME NEW x \in known, NEW d \in Devices, owner[x] = d,
                          x \notin sessions'[d]
                   PROVE  \E k \in Clients : At(k, "forget")' /\ call'[k].session = x
        OBVIOUS
      <4>1. x \in Sessions /\ x \notin sessions[d]
        BY <2>6 DEF HomeInv, HandlerInv, Types
      <4>2. PICK k \in Clients : At(k, "forget") /\ call[k].session = x
        BY <4>1 DEF HomeInv, Homes
      <4> QED
        BY <2>5, <4>2 DEF At
    <3> QED
      BY <1>2, <2>3, <2>7, <3>1, <3>2 DEF Homes
  <2>9. ASSUME NEW k \in Clients
        PROVE  /\ At(k, "register")' =>
                    call'[k].session \in sessions'[Device(k)'] \ known'
               /\ At(k, "forget")' =>
                    \A d \in Devices : call'[k].session \notin sessions'[d]
               /\ At(k, "delete")' \/ (At(k, "submit")' /\ call'[k].session # NoSession) =>
                    \A d \in Devices : call'[k].session \in sessions'[d] => d = Device(k)'
    <3>1. CASE k = c
      BY <1>1, <1>2, <1>5, <2>4, <2>6, <3>1 DEF At
    <3>2. CASE k # c
      <4>1. call'[k] = call[k] /\ Device(k)' = Device(k)
        BY <2>1, <3>2 DEF Device
      <4>2. At(k, "register") => call[k].session \in sessions[Device(k)] \ known
        BY DEF HomeInv, Errands
      <4>3. At(k, "register") => Device(k) \in Devices /\ call[k].session \in Sessions
        BY CreateDevice DEF HomeInv, HandlerInv, Handlers, Progress, At
      <4>4. At(k, "register") => call[k].session \in sessions'[Device(k)] \ known
        BY <2>6, <4>2, <4>3
      <4>5. At(k, "forget") \/ At(k, "delete")
              \/ (At(k, "submit") /\ call[k].session # NoSession) =>
              /\ call[k].session \in known /\ call[k].session \in Sessions
              /\ \A d \in Devices :
                   call[k].session \in sessions'[d] <=> call[k].session \in sessions[d]
        <5>1. At(k, "forget") \/ At(k, "delete")
                \/ (At(k, "submit") /\ call[k].session # NoSession) =>
                call[k].session \in known
          BY DEF HomeInv, HandlerInv, Handlers, Progress, At
        <5>2. known \subseteq Sessions
          BY DEF HomeInv, HandlerInv, Types
        <5> QED
          BY <1>5, <2>6, <5>1, <5>2
      <4>6. /\ At(k, "forget") => \A d \in Devices : call[k].session \notin sessions[d]
            /\ At(k, "delete") \/ (At(k, "submit") /\ call[k].session # NoSession) =>
                 \A d \in Devices : call[k].session \in sessions[d] => d = Device(k)
        BY DEF HomeInv, Errands
      <4>7. \A pc \in {"register", "forget", "delete", "submit"} :
              At(k, pc)' <=> At(k, pc)
        BY <4>1 DEF At
      <4> QED
        BY <1>2, <4>1, <4>4, <4>5, <4>6, <4>7
    <3> QED
      BY <3>1, <3>2
  <2>10. ASSUME NEW j \in Clients, NEW k \in Clients, At(j, "register")',
                At(k, "register")', call'[j].session = call'[k].session
         PROVE  j = k
    <3>1. ASSUME NEW i \in Clients \ {c}, At(i, "register")'
          PROVE  call'[i].session # s /\ call'[i] = call[i] /\ At(i, "register")
      <4>1. call'[i] = call[i] /\ At(i, "register")
        BY <2>1, <3>1 DEF At
      <4>2. call[i].session \in sessions[Device(i)] /\ Device(i) \in Devices
        BY <4>1, CreateDevice DEF HomeInv, Errands, At
      <4> QED
        BY <1>5, <4>1, <4>2
    <3>2. CASE j # c /\ k # c
      BY <2>10, <3>1, <3>2 DEF HomeInv, Errands
    <3> QED
      BY <2>4, <2>10, <3>1, <3>2
  <2>11. Errands'
    BY <2>9, <2>10 DEF Errands
  <2> QED
    BY <1>2, <2>8, <2>11 DEF HomeInv
<1> QED
  BY <1>2, <1>3, <1>4, <1>5

LEMMA RegisterHomes ==
  ASSUME HomeInv, NEW c \in Clients, Register(c)
  PROVE  HomeInv'
<1> DEFINE s == call[c].session
           D == Device(c)
<1>1. /\ HandlerInv' /\ Becomes(c, NoCall) /\ UNCHANGED sessions
      /\ s \in Sessions /\ D \in Devices
      /\ owner' = [owner EXCEPT ![s] = D] /\ known' = known \cup {s}
  BY RegisterHandlers DEF HomeInv
<1>2. /\ At(c, "register") /\ c \in Creators /\ s \in sessions[D] /\ s \notin known
  BY DEF Register, At, HomeInv, HandlerInv, Handlers, Progress, Errands, Creators
<1>3. /\ call'[c].pc = "idle" /\ call'[c].op = "none"
      /\ \A k \in Clients \ {c} : call'[k] = call[k]
  BY <1>1, OneCall, NoCallIsIdle DEF HomeInv, HandlerInv
<1>4. \A k \in Clients \ {c} :
        /\ \A pc : At(k, pc)' <=> At(k, pc)
        /\ Device(k)' = Device(k)
  BY <1>3 DEF At, Device
<1>5. \A pc : pc # "idle" => ~At(c, pc)'
  BY <1>3 DEF At
<1>6. \A k \in Clients \ {c} : At(k, "register") => call[k].session # s
  BY <1>2 DEF HomeInv, Errands
<1>7. /\ owner'[s] = D /\ \A x \in Sessions \ {s} : owner'[x] = owner[x]
  BY <1>1 DEF HomeInv, HandlerInv, Types
<1>8. known \subseteq Sessions
  BY DEF HomeInv, HandlerInv, Types
<1> HIDE DEF s, D
<1>9. Cardinality(Creators') <= Cardinality(Sessions \ known')
  <2>1. Creators' = Creators \ {c} /\ Sessions \ known' = (Sessions \ known) \ {s}
    BY <1>1, <1>3 DEF Creators
  <2>2. IsFiniteSet(Creators) /\ Cardinality(Creators) \in Nat
    BY CreatorsAreFinite DEF Creators
  <2>3. Cardinality(Creators') = Cardinality(Creators) - 1
    BY <1>2, <2>1, <2>2, FS_RemoveElement
  <2>4. Cardinality(Sessions \ known') = Cardinality(Sessions \ known) - 1
    BY <1>1, <1>2, <2>1, IdsAreFinite, FS_RemoveElement
  <2>5. Cardinality(Creators) <= Cardinality(Sessions \ known)
    BY DEF HomeInv, Homes
  <2> QED
    BY <2>2, <2>3, <2>4, <2>5, IdsAreFinite
<1>10. Homes'
  <2>1. ASSUME NEW x \in Sessions, NEW d \in Devices, x \in sessions'[d]
        PROVE  /\ \A e \in Devices \ {d} : x \notin sessions'[e]
               /\ IF x \in known' THEN owner'[x] = d
                  ELSE \E k \in Clients :
                         At(k, "register")' /\ call'[k].session = x /\ Device(k)' = d
    <3>1. x \in sessions[d] /\ \A e \in Devices \ {d} : x \notin sessions'[e]
      BY <1>1, <2>1 DEF HomeInv, Homes
    <3>2. CASE x = s
      <4>1. d = D
        BY <1>1, <1>2, <3>1, <3>2 DEF HomeInv, Homes
      <4> QED
        BY <1>1, <1>7, <3>1, <3>2, <4>1
    <3>3. CASE x # s /\ x \in known
      BY <1>1, <1>7, <3>1, <3>3 DEF HomeInv, Homes
    <3>4. CASE x # s /\ x \notin known
      <4>1. PICK k \in Clients :
              At(k, "register") /\ call[k].session = x /\ Device(k) = d
        BY <3>1, <3>4 DEF HomeInv, Homes
      <4>2. k # c
        BY <3>4, <4>1 DEF s
      <4> QED
        BY <1>1, <1>3, <1>4, <3>1, <3>4, <4>1, <4>2
    <3> QED
      BY <3>2, <3>3, <3>4
  <2>2. \A x \in Sessions \ known' : owner'[x] = NoDevice
    BY <1>1, <1>7 DEF HomeInv, Homes
  <2>3. ASSUME NEW x \in known', NEW d \in Devices, owner'[x] = d
        PROVE  \/ x \in sessions'[d]
               \/ \E k \in Clients : At(k, "forget")' /\ call'[k].session = x
    <3>1. CASE x = s
      BY <1>1, <1>2, <1>7, <2>3, <3>1
    <3>2. CASE x # s
      <4>1. x \in known /\ owner[x] = d
        BY <1>1, <1>7, <1>8, <2>3, <3>2
      <4>2. x \in sessions[d] \/ \E k \in Clients : At(k, "forget") /\ call[k].session = x
        BY <4>1 DEF HomeInv, Homes
      <4> QED
        BY <1>1, <1>2, <1>3, <1>4, <4>2 DEF At
    <3> QED
      BY <3>1, <3>2
  <2> QED
    BY <1>9, <2>1, <2>2, <2>3 DEF Homes
<1>11. ASSUME NEW k \in Clients
       PROVE  /\ At(k, "register")' =>
                   call'[k].session \in sessions'[Device(k)'] \ known'
              /\ At(k, "forget")' =>
                   \A d \in Devices : call'[k].session \notin sessions'[d]
              /\ At(k, "delete")' \/ (At(k, "submit")' /\ call'[k].session # NoSession) =>
                   \A d \in Devices : call'[k].session \in sessions'[d] => d = Device(k)'
  <2>1. CASE k = c
    BY <1>5, <2>1
  <2>2. CASE k # c
    BY <1>1, <1>3, <1>4, <1>6, <2>2 DEF HomeInv, Errands
  <2> QED
    BY <2>1, <2>2
<1>12. ASSUME NEW j \in Clients, NEW k \in Clients, At(j, "register")',
              At(k, "register")', call'[j].session = call'[k].session
       PROVE  j = k
  <2>1. j # c /\ k # c
    BY <1>5, <1>12
  <2> QED
    BY <1>3, <1>4, <1>12, <2>1 DEF HomeInv, Errands
<1>13. Errands'
  BY <1>11, <1>12 DEF Errands
<1> QED
  BY <1>1, <1>10, <1>13 DEF HomeInv

LEMMA ForgetHomes ==
  ASSUME HomeInv, NEW c \in Clients, Forget(c)
  PROVE  HomeInv'
<1> DEFINE s == call[c].session
<1>1. /\ HandlerInv' /\ Becomes(c, NoCall) /\ UNCHANGED <<sessions, known>>
      /\ s \in known /\ s \in Sessions
      /\ owner' = [owner EXCEPT ![s] = NoDevice]
  BY ForgetHandlers DEF HomeInv, HandlerInv, Types
<1>2. At(c, "forget") /\ \A d \in Devices : s \notin sessions[d]
  BY DEF Forget, HomeInv, Errands
<1>3. /\ call'[c].pc = "idle" /\ call'[c].op = "none"
      /\ \A k \in Clients \ {c} : call'[k] = call[k]
  BY <1>1, OneCall, NoCallIsIdle DEF HomeInv, HandlerInv
<1>4. \A k \in Clients \ {c} :
        /\ \A pc : At(k, pc)' <=> At(k, pc)
        /\ Device(k)' = Device(k)
  BY <1>3 DEF At, Device
<1>5. \A pc : pc # "idle" => ~At(c, pc)'
  BY <1>3 DEF At
<1>6. /\ owner'[s] = NoDevice /\ \A x \in Sessions \ {s} : owner'[x] = owner[x]
  BY <1>1 DEF HomeInv, HandlerInv, Types
<1>7. known \subseteq Sessions /\ NoDevice \notin Devices
  BY Constants DEF HomeInv, HandlerInv, Types
<1>8. Cardinality(Creators') <= Cardinality(Sessions \ known')
  <2>1. \A k \in Clients : call'[k].op = "create" => call[k].op = "create"
    BY <1>3
  <2> QED
    BY <1>1, <2>1, CreatorsShrink
<1> HIDE DEF s
<1>9. Homes'
  <2>1. ASSUME NEW x \in Sessions, NEW d \in Devices, x \in sessions'[d]
        PROVE  /\ \A e \in Devices \ {d} : x \notin sessions'[e]
               /\ IF x \in known' THEN owner'[x] = d
                  ELSE \E k \in Clients :
                         At(k, "register")' /\ call'[k].session = x /\ Device(k)' = d
    <3>1. x \in sessions[d] /\ x # s /\ \A e \in Devices \ {d} : x \notin sessions'[e]
      BY <1>1, <1>2, <2>1 DEF HomeInv, Homes
    <3>2. CASE x \in known
      BY <1>1, <1>6, <3>1, <3>2 DEF HomeInv, Homes
    <3>3. CASE x \notin known
      <4>1. PICK k \in Clients :
              At(k, "register") /\ call[k].session = x /\ Device(k) = d
        BY <3>1, <3>3 DEF HomeInv, Homes
      <4>2. k # c
        BY <3>1, <4>1 DEF s
      <4> QED
        BY <1>1, <1>3, <1>4, <3>1, <3>3, <4>1, <4>2
    <3> QED
      BY <3>2, <3>3
  <2>2. \A x \in Sessions \ known' : owner'[x] = NoDevice
    BY <1>1, <1>6 DEF HomeInv, Homes
  <2>3. ASSUME NEW x \in known', NEW d \in Devices, owner'[x] = d
        PROVE  \/ x \in sessions'[d]
               \/ \E k \in Clients : At(k, "forget")' /\ call'[k].session = x
    <3>1. x \in known /\ x # s /\ owner[x] = d
      BY <1>1, <1>6, <1>7, <2>3
    <3>2. CASE x \in sessions[d]
      BY <1>1, <3>2
    <3>3. CASE \E k \in Clients : At(k, "forget") /\ call[k].session = x
      <4>1. PICK k \in Clients : At(k, "forget") /\ call[k].session = x
        BY <3>3
      <4>2. k # c
        BY <3>1, <4>1 DEF s
      <4> QED
        BY <1>3, <1>4, <4>1, <4>2
    <3> QED
      BY <3>1, <3>2, <3>3 DEF HomeInv, Homes
  <2> QED
    BY <1>8, <2>1, <2>2, <2>3 DEF Homes
<1>10. ASSUME NEW k \in Clients
       PROVE  /\ At(k, "register")' =>
                   call'[k].session \in sessions'[Device(k)'] \ known'
              /\ At(k, "forget")' =>
                   \A d \in Devices : call'[k].session \notin sessions'[d]
              /\ At(k, "delete")' \/ (At(k, "submit")' /\ call'[k].session # NoSession) =>
                   \A d \in Devices : call'[k].session \in sessions'[d] => d = Device(k)'
  <2>1. CASE k = c
    BY <1>5, <2>1
  <2>2. CASE k # c
    BY <1>1, <1>3, <1>4, <2>2 DEF HomeInv, Errands
  <2> QED
    BY <2>1, <2>2
<1>11. ASSUME NEW j \in Clients, NEW k \in Clients, At(j, "register")',
              At(k, "register")', call'[j].session = call'[k].session
       PROVE  j = k
  <2>1. j # c /\ k # c
    BY <1>5, <1>11
  <2> QED
    BY <1>3, <1>4, <1>11, <2>1 DEF HomeInv, Errands
<1>12. Errands'
  BY <1>10, <1>11 DEF Errands
<1> QED
  BY <1>1, <1>9, <1>12 DEF HomeInv

LEMMA DeleteHomes ==
  ASSUME HomeInv, NEW c \in Clients, DeleteAt(c)
  PROVE  HomeInv'
<1> DEFINE s == call[c].session
           D == Device(c)
<1>1. /\ HandlerInv' /\ UNCHANGED <<owner, known>>
      /\ s \in known /\ D \in Devices
      /\ \/ UNCHANGED sessions /\ Becomes(c, NoCall)
         \/ /\ s \in sessions[D]
            /\ sessions' = [sessions EXCEPT ![D] = @ \ {s}]
            /\ \E h \in CallRecords :
                 /\ Becomes(c, h) /\ h.pc = "forget" /\ h.op = "delete"
                 /\ h.session = s
  BY DeleteHandlers DEF HomeInv
<1>2. call[c].pc = "delete"
  BY DEF DeleteAt, At
<1>3. CASE UNCHANGED sessions /\ Becomes(c, NoCall)
  BY <1>1, <1>2, <1>3, ReplyHomes
<1>4. ASSUME s \in sessions[D], sessions' = [sessions EXCEPT ![D] = @ \ {s}],
             NEW h \in CallRecords, Becomes(c, h), h.pc = "forget",
             h.op = "delete", h.session = s
      PROVE  HomeInv'
  <2>1. /\ call'[c] = h
        /\ \A k \in Clients \ {c} : call'[k] = call[k]
    BY <1>4, OneCall DEF HomeInv, HandlerInv
  <2>2. /\ At(c, "forget")' /\ call'[c].session = s
        /\ \A pc : pc # "forget" => ~At(c, pc)'
    BY <1>4, <2>1 DEF At
  <2>3. \A k \in Clients \ {c} :
          /\ \A pc : At(k, pc)' <=> At(k, pc)
          /\ Device(k)' = Device(k)
    BY <2>1 DEF At, Device
  <2>4. s \in Sessions /\ \A e \in Devices \ {D} : s \notin sessions[e]
    BY <1>1, <1>4 DEF HomeInv, Homes, HandlerInv, Types
  <2>5. \A x \in Sessions, d \in Devices : x \in sessions'[d] <=> x \in sessions[d] /\ x # s
    BY <1>1, <1>4, <2>4 DEF HomeInv, HandlerInv, Types
  <2>6. \A k \in Clients : At(k, "register") \/ At(k, "forget") => k # c
    BY <1>2 DEF At
  <2>7. Cardinality(Creators') <= Cardinality(Sessions \ known')
    <3>1. \A k \in Clients : call'[k].op = "create" => call[k].op = "create"
      BY <1>4, <2>1
    <3> QED
      BY <1>1, <3>1, CreatorsShrink
  <2>8. \A k \in Clients :
          At(k, "register") => /\ call[k].session # s /\ call[k].session \in Sessions
                               /\ Device(k) \in Devices
    BY <1>1, CreateDevice DEF HomeInv, HandlerInv, Handlers, Progress, Errands, At
  <2>9. known \subseteq Sessions
    BY DEF HomeInv, HandlerInv, Types
  <2> HIDE DEF s, D
  <2>10. Homes'
    <3>1. ASSUME NEW x \in Sessions, NEW d \in Devices, x \in sessions'[d]
          PROVE  /\ \A e \in Devices \ {d} : x \notin sessions'[e]
                 /\ IF x \in known' THEN owner'[x] = d
                    ELSE \E k \in Clients :
                           At(k, "register")' /\ call'[k].session = x /\ Device(k)' = d
      <4>1. x \in sessions[d] /\ \A e \in Devices \ {d} : x \notin sessions'[e]
        BY <2>5, <3>1 DEF HomeInv, Homes
      <4>2. CASE x \in known
        BY <1>1, <4>1, <4>2 DEF HomeInv, Homes
      <4>3. CASE x \notin known
        <5>1. PICK k \in Clients :
                At(k, "register") /\ call[k].session = x /\ Device(k) = d
          BY <4>1, <4>3 DEF HomeInv, Homes
        <5> QED
          BY <1>1, <2>1, <2>3, <2>6, <4>1, <4>3, <5>1
      <4> QED
        BY <4>2, <4>3
    <3>2. ASSUME NEW x \in known', NEW d \in Devices, owner'[x] = d
          PROVE  \/ x \in sessions'[d]
                 \/ \E k \in Clients : At(k, "forget")' /\ call'[k].session = x
      <4>1. x \in Sessions /\ x \in known /\ owner[x] = d
        BY <1>1, <2>9, <3>2
      <4>2. CASE x = s
        BY <2>2, <4>2
      <4>3. CASE x # s
        <5>1. x \in sessions[d] \/ \E k \in Clients : At(k, "forget") /\ call[k].session = x
          BY <4>1 DEF HomeInv, Homes
        <5> QED
          BY <2>1, <2>3, <2>5, <2>6, <4>1, <4>3, <5>1
      <4> QED
        BY <4>2, <4>3
    <3>3. \A x \in Sessions \ known' : owner'[x] = NoDevice
      BY <1>1 DEF HomeInv, Homes
    <3> QED
      BY <2>7, <3>1, <3>2, <3>3 DEF Homes
  <2>11. ASSUME NEW k \in Clients
         PROVE  /\ At(k, "register")' =>
                     call'[k].session \in sessions'[Device(k)'] \ known'
                /\ At(k, "forget")' =>
                     \A d \in Devices : call'[k].session \notin sessions'[d]
                /\ At(k, "delete")' \/ (At(k, "submit")' /\ call'[k].session # NoSession) =>
                     \A d \in Devices : call'[k].session \in sessions'[d] => d = Device(k)'
    <3>1. CASE k = c
      BY <2>2, <2>4, <2>5, <3>1
    <3>2. CASE k # c
      <4>1. At(k, "register") =>
              call[k].session \in sessions'[Device(k)] \ known
        BY <2>5, <2>8 DEF HomeInv, Errands
      <4>2. \A d \in Devices : sessions'[d] \subseteq sessions[d]
        BY <1>1, <1>4 DEF HomeInv, HandlerInv, Types
      <4>3. /\ At(k, "forget") =>
                 \A d \in Devices : call[k].session \notin sessions'[d]
            /\ At(k, "delete") \/ (At(k, "submit") /\ call[k].session # NoSession) =>
                 \A d \in Devices : call[k].session \in sessions'[d] => d = Device(k)
        BY <4>2 DEF HomeInv, Errands
      <4> QED
        BY <1>1, <2>1, <2>3, <3>2, <4>1, <4>3
    <3> QED
      BY <3>1, <3>2
  <2>12. ASSUME NEW j \in Clients, NEW k \in Clients, At(j, "register")',
                At(k, "register")', call'[j].session = call'[k].session
         PROVE  j = k
    <3>1. j # c /\ k # c
      BY <2>2, <2>12
    <3> QED
      BY <2>1, <2>3, <2>12, <3>1 DEF HomeInv, Errands
  <2>13. Errands'
    BY <2>11, <2>12 DEF Errands
  <2> QED
    BY <1>1, <2>10, <2>13 DEF HomeInv
<1> QED
  BY <1>1, <1>3, <1>4

LEMMA CutHomes ==
  ASSUME HomeInv, Cut
  PROVE  HomeInv'
<1>1. /\ HandlerInv' /\ UNCHANGED <<sessions, owner, known>>
      /\ \A c \in Clients : At(c, "idle") \/ At(c, "wait")
      /\ \A c \in Clients : call'[c].pc = "idle" /\ call'[c].op = "none"
  BY CutHandlers DEF HomeInv
<1>2. Cardinality(Creators') <= Cardinality(Sessions \ known')
  BY <1>1, CreatorsShrink
<1>3. \A c \in Clients : ~At(c, "register") /\ ~At(c, "forget")
  BY <1>1 DEF At
<1>4. Homes'
  BY <1>1, <1>2, <1>3 DEF HomeInv, Homes
<1>5. Errands'
  BY <1>1 DEF Errands, At
<1> QED
  BY <1>1, <1>4, <1>5 DEF HomeInv

LEMMA StepHomes ==
  ASSUME HomeInv, [Next]_vars
  PROVE  HomeInv'
<1>1. CASE UNCHANGED vars
  BY <1>1, NothingHomes
<1>2. ASSUME NEW c \in Clients, Arrive(c) PROVE HomeInv'
  BY <1>2, ArriveHomes
<1>3. ASSUME NEW c \in Clients, Handler(c) PROVE HomeInv'
  BY <1>3, LoadsHomes, CreateHomes, RegisterHomes, OwnerHomes, DeleteHomes,
     ForgetHomes, SubmitHomes, FinishHomes DEF Handler
<1>4. ASSUME NEW c \in Clients, Waited(c) \/ Got(c) PROVE HomeInv'
  BY <1>4, ExecutorHomes
<1>5. CASE Take
  BY <1>5, TakeHandlers, HomeKept DEF HomeInv
<1>6. ASSUME NEW d \in Devices, Thread(d) PROVE HomeInv'
  <2>1. CASE Admit(d)
    BY <2>1, AdmitHandlers, HomeKept DEF HomeInv
  <2>2. ASSUME NEW r \in active[d], Step(d, r) PROVE HomeInv'
    BY <2>2, StepHandlers, HomeKept DEF HomeInv
  <2>3. ASSUME NEW r \in active[d], Fail(d, r) PROVE HomeInv'
    BY <2>3, FailHandlers, HomeKept DEF HomeInv
  <2>4. ASSUME NEW r \in active[d], SetDone(d, r) PROVE HomeInv'
    BY <2>4, DoneHandlers, HomeKept DEF HomeInv
  <2>5. ASSUME NEW r \in active[d], Leave(d, r) PROVE HomeInv'
    BY <2>5, LeaveHandlers, HomeKept DEF HomeInv
  <2> QED
    BY <1>6, <2>1, <2>2, <2>3, <2>4, <2>5 DEF Thread, Retire
<1>7. CASE Close \/ Returns
  BY <1>7, MainHandlers, HomeKept DEF HomeInv
<1>8. CASE Cut
  BY <1>8, CutHomes
<1>9. CASE Stop
  BY <1>9, StopHandlers, HomeKept DEF HomeInv
<1> QED
  BY <1>1, <1>2, <1>3, <1>4, <1>5, <1>6, <1>7, <1>8, <1>9 DEF Next

\* HomeInv is inductive.
LEMMA HomesHold == Spec => []HomeInv
BY InitHomes, StepHomes, PTL DEF Spec

\* MultiGpuScheduler._session_owner and the schedulers' own sessions: however
\* the calls that create, use and delete sessions interleave, the router and the
\* schedulers agree on where a session lives, and it lives once.
THEOREM RouterKnowsHomes == Spec => []OwnersAgree
<1>1. HomeInv => OwnersAgree
  <2> SUFFICES ASSUME HomeInv, NEW s \in Sessions, NEW d \in Devices
               PROVE  /\ s \in sessions[d] =>
                           \/ owner[s] = d
                           \/ \E c \in Clients : At(c, "register") /\ call[c].session = s
                      /\ owner[s] = d =>
                           \/ s \in sessions[d]
                           \/ \E c \in Clients : At(c, "forget") /\ call[c].session = s
                      /\ s \in sessions[d] => \A e \in Devices \ {d} : s \notin sessions[e]
    BY DEF OwnersAgree
  <2>1. NoDevice \notin Devices
    BY Constants
  <2> QED
    BY <2>1 DEF HomeInv, Homes
<1> QED
  BY <1>1, HomesHold, PTL

-----------------------------------------------------------------------------
(* Where a turn is until its scheduler is stopped *)

\* A request is with one scheduler, in one place.
Apart ==
  /\ \A d \in Devices : IsInjective(queue[d]) /\ active[d] \cap Range(queue[d]) = {}
  /\ \A d, e \in Devices : d # e => Placed(d) \cap Placed(e) = {}

\* How far a request is that a scheduler holds, and that it holds those which
\* are not done.
Staged ==
  /\ \A d \in Devices :
       /\ \A r \in Range(queue[d]) : req[r].stage = "live"
       /\ \A r \in active[d] : req[r].stage \in {"live", "ended", "done"}
  /\ \A r \in Requests :
       req[r].stage \in {"live", "ended"} => \E d \in Devices : r \in Placed(d)

\* No scheduler holds a request that is yet to be made.
Counted ==
  /\ \A d \in Devices : \A r \in Placed(d) : r[2] <= calls[r[1]]
  /\ \A c \in Clients : call[c].pc \notin {"idle", "wait", "finish"} =>
       \A d \in Devices : Own(c) \notin Placed(d)

\* A turn is where its session is; the session is busy, and with it alone.
Turns ==
  \A d \in Devices : \A r \in Placed(d) :
    req[r].session # NoSession =>
      /\ req[r].session \in sessions[d] \cap busy[d] \cap known
      /\ \A e \in Devices : \A q \in Placed(e) :
           q # r => req[q].session # req[r].session

\* From the cut on no handler runs; a stopped scheduler has nothing left.
Shutdown ==
  /\ main \in {"cut", "stopping", "stopped"} => \A c \in Clients : At(c, "idle")
  /\ \A d \in Devices : d <= stopped => active[d] = {} /\ queue[d] = <<>>

TurnInv == HomeInv /\ Apart /\ Staged /\ Counted /\ Turns /\ Shutdown

LEMMA PlacedAreRequests ==
  ASSUME HandlerInv, NEW d \in Devices
  PROVE  /\ queue[d] \in Seq(Requests) /\ active[d] \subseteq Requests
         /\ Range(queue[d]) \subseteq Requests /\ Placed(d) \subseteq Requests
<1>1. queue[d] \in Seq(Requests) /\ active[d] \subseteq Requests
  BY DEF HandlerInv, Types
<1>2. \A i \in DOMAIN queue[d] : queue[d][i] \in Requests
  BY <1>1, ElementOfSeq, LenProperties
<1> QED
  BY <1>1, <1>2 DEF Placed, Range

LEMMA InitTurns == Init => TurnInv
<1> SUFFICES ASSUME Init PROVE TurnInv
  OBVIOUS
<1>1. HomeInv
  BY InitHomes
<1>2. \A d \in Devices : active[d] = {} /\ queue[d] = <<>> /\ Range(queue[d]) = {}
  BY DEF Init, Range
<1>3. IsInjective(<<>>)
  BY DEF IsInjective
<1>4. \A d \in Devices : Placed(d) = {}
  BY <1>2 DEF Placed
<1>5. \A r \in Requests : req[r].stage = "none"
  BY DEF Init, NoRequest
<1>6. \A c \in Clients : call[c].pc = "idle"
  BY NoCallIsIdle DEF Init
<1>7. Apart /\ Turns
  BY <1>2, <1>3, <1>4 DEF Apart, Turns
<1>8. Staged /\ Counted /\ Shutdown
  BY <1>2, <1>4, <1>5, <1>6 DEF Staged, Counted, Shutdown, At
<1> QED
  BY <1>1, <1>7, <1>8 DEF TurnInv

\* No request moves or gets further.
LEMMA TurnsKept ==
  ASSUME TurnInv, HomeInv', UNCHANGED <<queue, active>>,
         \A r \in Requests : /\ req'[r].stage = req[r].stage
                             /\ req'[r].session = req[r].session,
         \A d \in Devices : /\ sessions[d] \cap busy[d] \subseteq sessions'[d]
                            /\ busy[d] \subseteq busy'[d],
         known \subseteq known',
         Counted', Shutdown'
  PROVE  TurnInv'
<1>1. \A d \in Devices : Placed(d)' = Placed(d)
  BY DEF Placed
<1>2. \A d \in Devices :
        /\ active[d] \subseteq Requests /\ Range(queue[d]) \subseteq Requests
        /\ Placed(d) \subseteq Requests
  BY PlacedAreRequests DEF TurnInv, HomeInv
<1>3. Apart'
  BY <1>1 DEF TurnInv, Apart
<1>4. Staged'
  BY <1>1, <1>2 DEF TurnInv, Staged
<1>5. Turns'
  <2> SUFFICES ASSUME NEW d \in Devices, NEW r \in Placed(d),
                      req[r].session # NoSession
               PROVE  /\ req[r].session \in sessions'[d] \cap busy'[d] \cap known'
                      /\ \A e \in Devices : \A q \in Placed(e) :
                           q # r => req[q].session # req[r].session
    BY <1>1, <1>2 DEF Turns
  <2> QED
    BY DEF TurnInv, Turns
<1> QED
  BY <1>3, <1>4, <1>5 DEF TurnInv

\* A handler goes on, at the request it had.
LEMMA GoesOnTurns ==
  ASSUME TurnInv, HomeInv', NEW c \in Clients, NEW h \in CallRecords,
         Becomes(c, h), UNCHANGED <<main, stopped, queue, active, busy, calls>>,
         \A r \in Requests : /\ req'[r].stage = req[r].stage
                             /\ req'[r].session = req[r].session,
         \A d \in Devices : sessions[d] \cap busy[d] \subseteq sessions'[d],
         known \subseteq known',
         h.pc \in {"idle", "wait", "finish"} \/ call[c].pc \notin {"idle", "wait", "finish"},
         At(c, "idle") => h.pc = "idle"
  PROVE  TurnInv'
<1>1. /\ call'[c] = h
      /\ \A k \in Clients \ {c} : call'[k] = call[k]
  BY OneCall DEF TurnInv, HomeInv, HandlerInv
<1>2. \A d \in Devices : Placed(d)' = Placed(d)
  BY DEF Placed
<1>3. \A k \in Clients : Own(k)' = Own(k)
  BY DEF Own
<1>4. Counted'
  <2>1. \A k \in Clients : call'[k].pc \notin {"idle", "wait", "finish"} =>
                             call[k].pc \notin {"idle", "wait", "finish"}
    BY <1>1
  <2> QED
    BY <1>2, <1>3, <2>1 DEF TurnInv, Counted
<1>5. Shutdown'
  <2>1. \A k \in Clients : At(k, "idle") => At(k, "idle")'
    BY <1>1 DEF At
  <2> QED
    BY <2>1 DEF TurnInv, Shutdown
<1> QED
  BY <1>4, <1>5, TurnsKept

LEMMA ReplyTurns ==
  ASSUME TurnInv, HomeInv', NEW c \in Clients, Becomes(c, NoCall),
         UNCHANGED <<main, stopped, queue, active, busy, calls, req>>,
         \A d \in Devices : sessions[d] \cap busy[d] \subseteq sessions'[d],
         known \subseteq known'
  PROVE  TurnInv'
BY NoCallIsIdle, GoesOnTurns

\* Between arrival and answer, a call that submits nothing.
LEMMA CallTurns ==
  ASSUME TurnInv, NEW c \in Clients, HomeInv',
         _by_load(c) \/ CreateAt(c) \/ Register(c) \/ _owner(c) \/ DeleteAt(c) \/ Forget(c)
  PROVE  TurnInv'
<1> USE DEF TurnInv, HomeInv
<1>1. CASE _by_load(c)
  BY <1>1, LoadsHandlers, GoesOnTurns DEF At
<1>2. CASE CreateAt(c)
  <2>1. call[c].pc = "create" /\ Device(c) \in Devices
    BY <1>2, CreateDevice DEF CreateAt, At
  <2>2. /\ UNCHANGED <<main, stopped, busy, queue, active, known, req, calls>>
        /\ \/ UNCHANGED sessions /\ Becomes(c, NoCall)
           \/ /\ \A d \in Devices : sessions[d] \subseteq sessions'[d]
              /\ \E h \in CallRecords : Becomes(c, h) /\ h.pc \in {"create", "register"}
    <3>1. ASSUME NEW s, sessions' = [sessions EXCEPT ![Device(c)] = @ \cup {s}]
          PROVE  \A d \in Devices : sessions[d] \subseteq sessions'[d]
      BY <2>1, <3>1 DEF HandlerInv, Types
    <3> QED
      BY <1>2, <3>1, CreateHandlers, FreeId DEF CreateAt
  <2> QED
    BY <2>1, <2>2, ReplyTurns, GoesOnTurns DEF At
<1>3. CASE Register(c)
  BY <1>3, RegisterHandlers, ReplyTurns
<1>4. CASE _owner(c)
  <2>1. call[c].pc = "owner"
    BY <1>4 DEF _owner, At
  <2>2. /\ UNCHANGED <<main, stopped, sessions, busy, queue, active, known, req, calls>>
        /\ \/ Becomes(c, NoCall)
           \/ \E h \in CallRecords : Becomes(c, h) /\ h.pc \in {"delete", "submit"}
    BY <1>4, OwnerHandlers
  <2> QED
    BY <2>1, <2>2, ReplyTurns, GoesOnTurns DEF At
<1>5. CASE DeleteAt(c)
  <2>1. call[c].pc = "delete" /\ Device(c) \in Devices
    BY <1>5, CreateDevice DEF DeleteAt, At
  <2>2. /\ UNCHANGED <<main, stopped, busy, queue, active, known, req, calls>>
        /\ \A d \in Devices : sessions[d] \cap busy[d] \subseteq sessions'[d]
        /\ \/ Becomes(c, NoCall)
           \/ \E h \in CallRecords : Becomes(c, h) /\ h.pc = "forget"
    <3>1. ASSUME NEW s, s \notin busy[Device(c)],
                 sessions' = [sessions EXCEPT ![Device(c)] = @ \ {s}]
          PROVE  \A d \in Devices : sessions[d] \cap busy[d] \subseteq sessions'[d]
      BY <2>1, <3>1 DEF HandlerInv, Types
    <3> QED
      BY <1>5, <3>1, DeleteHandlers
  <2> QED
    BY <2>1, <2>2, ReplyTurns, GoesOnTurns DEF At
<1>6. CASE Forget(c)
  BY <1>6, ForgetHandlers, ReplyTurns
<1> QED
  BY <1>1, <1>2, <1>3, <1>4, <1>5, <1>6

LEMMA ArriveTurns ==
  ASSUME TurnInv, NEW c \in Clients, Arrive(c)
  PROVE  TurnInv'
<1>1. HomeInv'
  BY ArriveHomes DEF TurnInv
<1>2. /\ main = "serving" /\ At(c, "idle")
      /\ calls' = [calls EXCEPT ![c] = @ + 1]
      /\ UNCHANGED <<main, stopped, sessions, busy, queue, active, owner, known,
                     req, waiting, running>>
      /\ \E h \in CallRecords : Becomes(c, h)
  BY ArriveOpens DEF TurnInv, HomeInv, HandlerInv
<1>3. \A k \in Clients \ {c} : call'[k] = call[k]
  BY <1>2, OneCall DEF TurnInv, HomeInv, HandlerInv
<1>4. /\ \A k \in Clients : calls[k] \in Nat /\ calls'[k] >= calls[k]
      /\ calls'[c] = calls[c] + 1
      /\ \A k \in Clients \ {c} : calls'[k] = calls[k]
  BY <1>2, Constants DEF TurnInv, HomeInv, HandlerInv, Types
<1>5. \A d \in Devices : Placed(d)' = Placed(d) /\ Placed(d) \subseteq Requests
  BY <1>2, PlacedAreRequests DEF Placed, TurnInv, HomeInv
<1>6. \A d \in Devices : \A r \in Placed(d) :
        r[2] <= calls[r[1]] /\ r[1] \in Clients /\ r[2] \in Nat
  BY <1>5, Constants DEF TurnInv, Counted, Requests
<1>7. \A d \in Devices : \A r \in Placed(d) : r[2] <= calls'[r[1]]
  BY <1>4, <1>6
<1>8. \A d \in Devices : Own(c)' \notin Placed(d)
  <2> SUFFICES ASSUME NEW d \in Devices, Own(c)' \in Placed(d) PROVE FALSE
    OBVIOUS
  <2>1. calls[c] + 1 <= calls[c]
    BY <1>4, <1>6 DEF Own
  <2> QED
    BY <1>4, <2>1
<1>9. \A k \in Clients \ {c} : Own(k)' = Own(k)
  BY <1>4 DEF Own
<1>10. Counted'
  <2>1. ASSUME NEW k \in Clients, call'[k].pc \notin {"idle", "wait", "finish"}
        PROVE  \A d \in Devices : Own(k)' \notin Placed(d)
    BY <1>3, <1>8, <1>9, <2>1 DEF TurnInv, Counted
  <2> QED
    BY <1>5, <1>7, <2>1 DEF Counted
<1>11. Shutdown'
  BY <1>2 DEF TurnInv, Shutdown
<1> QED
  BY <1>1, <1>2, <1>10, <1>11, TurnsKept

\* A handler under way finds the server open and no scheduler stopped.
LEMMA UnderWay ==
  ASSUME TurnInv, NEW c \in Clients, ~At(c, "idle")
  PROVE  main \in {"serving", "closing"} /\ stopped = 0
BY DEF TurnInv, HomeInv, HandlerInv, Types, Phases, Shutdown

LEMMA SubmitTurns ==
  ASSUME TurnInv, NEW c \in Clients, SubmitAt(c)
  PROVE  TurnInv'
<1> DEFINE s == call[c].session
<1>1. HomeInv' /\ HandlerInv
  BY SubmitHomes DEF TurnInv, HomeInv
<1>2. /\ call[c].pc = "submit" /\ ~At(c, "idle") /\ calls[c] > 0
      /\ Own(c) \in Requests
  BY <1>1, OwnIsRequest DEF SubmitAt, At, HandlerInv, Handlers, Progress
<1>3. /\ UNCHANGED <<main, stopped, sessions, active, owner, known, running, calls>>
      /\ Device(c) \in Devices /\ s \in known \cup {NoSession}
  BY <1>1, SubmitHandlers
<1>4. CASE UNCHANGED <<busy, queue, req, waiting>> /\ Becomes(c, NoCall)
  BY <1>1, <1>3, <1>4, ReplyTurns
<1>5. CASE /\ s # NoSession => s \in sessions[Device(c)] \ busy[Device(c)]
           /\ busy' = [busy EXCEPT ![Device(c)] = @ \cup ({s} \ {NoSession})]
           /\ queue' = [queue EXCEPT ![Device(c)] = Append(@, Own(c))]
           /\ req' = [req EXCEPT ![Own(c)] =
                        [NoRequest EXCEPT !.session = s, !.stage = "live"]]
           /\ \E h \in CallRecords : Becomes(c, h) /\ h.pc = "wait"
  <2>1. PICK D : D = Device(c)
    OBVIOUS
  <2>2. PICK r : r = Own(c)
    OBVIOUS
  <2>3. PICK x : x = s
    OBVIOUS
  <2>4. /\ D \in Devices /\ r \in Requests
        /\ x # NoSession => x \in sessions[D] /\ x \notin busy[D] /\ x \in known
                             /\ x \in Sessions
    <3>1. known \subseteq Sessions
      BY <1>1 DEF HandlerInv, Types
    <3> QED
      BY <1>2, <1>3, <1>5, <2>1, <2>2, <2>3, <3>1
  <2>5. \A d \in Devices : r \notin Placed(d)
    BY <1>2, <2>2 DEF TurnInv, Counted
  <2>6. /\ req'[r].session = x /\ req'[r].stage = "live"
        /\ \A q \in Requests \ {r} : req'[q] = req[q]
    BY <1>1, <1>5, <2>2, <2>3, <2>4 DEF HandlerInv, Types, NoRequest
  <2>7. /\ queue'[D] = Append(queue[D], r)
        /\ \A d \in Devices \ {D} : queue'[d] = queue[d]
    BY <1>1, <1>5, <2>1, <2>2, <2>4 DEF HandlerInv, Types
  <2>8. \A d \in Devices :
          /\ queue[d] \in Seq(Requests) /\ Range(queue[d]) \subseteq Requests
          /\ active[d] \subseteq Requests /\ Placed(d) \subseteq Requests
    BY <1>1, PlacedAreRequests
  <2>9. /\ Range(queue'[D]) = Range(queue[D]) \cup {r} /\ IsInjective(queue'[D])
    BY <2>4, <2>5, <2>7, <2>8, AppendRange DEF Placed, TurnInv, Apart
  <2>10. /\ Placed(D)' = Placed(D) \cup {r}
         /\ \A d \in Devices \ {D} : Placed(d)' = Placed(d)
    BY <1>3, <2>7, <2>9 DEF Placed
  <2>11. /\ \A k \in Clients \ {c} : call'[k] = call[k]
         /\ call'[c].pc = "wait"
    BY <1>1, <1>5, OneCall DEF HandlerInv
  <2>12. /\ busy'[D] = busy[D] \cup ({x} \ {NoSession})
         /\ \A d \in Devices \ {D} : busy'[d] = busy[d]
    BY <1>1, <1>5, <2>1, <2>3, <2>4 DEF HandlerInv, Types
  <2>13. Apart'
    <3>1. ASSUME NEW d \in Devices
          PROVE  IsInjective(queue'[d]) /\ active'[d] \cap Range(queue'[d]) = {}
      <4>1. IsInjective(queue[d]) /\ active[d] \cap Range(queue[d]) = {}
        BY DEF TurnInv, Apart
      <4>2. CASE d = D
        <5>1. r \notin active[D]
          BY <2>4, <2>5 DEF Placed
        <5> QED
          BY <1>3, <2>9, <4>1, <4>2, <5>1
      <4>3. CASE d # D
        <5>1. queue'[d] = queue[d]
          BY <2>7, <4>3
        <5> QED
          BY <1>3, <4>1, <5>1
      <4> QED
        BY <4>2, <4>3
    <3>2. \A d, e \in Devices : d # e => Placed(d)' \cap Placed(e)' = {}
      BY <2>5, <2>10 DEF TurnInv, Apart
    <3> QED
      BY <3>1, <3>2 DEF Apart
  <2>14. Staged'
    <3>1. ASSUME NEW d \in Devices
          PROVE  /\ \A q \in Range(queue'[d]) : req'[q].stage = "live"
                 /\ \A q \in active'[d] : req'[q].stage \in {"live", "ended", "done"}
      <4>1. Range(queue'[d]) \subseteq Range(queue[d]) \cup {r}
        <5>1. CASE d = D
          BY <2>9, <5>1
        <5>2. CASE d # D
          <6>1. queue'[d] = queue[d]
            BY <2>7, <5>2
          <6> QED
            BY <6>1
        <5> QED
          BY <5>1, <5>2
      <4> QED
        BY <1>3, <2>6, <2>8, <4>1 DEF TurnInv, Staged
    <3>2. \A q \in Requests : req'[q].stage \in {"live", "ended"} =>
                                \E d \in Devices : q \in Placed(d)'
      BY <2>4, <2>6, <2>10 DEF TurnInv, Staged
    <3> QED
      BY <3>1, <3>2 DEF Staged
  <2>15. Counted'
    <3>1. \A k \in Clients : Own(k)' = Own(k)
      BY <1>3 DEF Own
    <3>2. r[1] = c /\ r[2] = calls[c] /\ calls[c] \in Nat
      BY <1>1, <2>2, Constants DEF Own, HandlerInv, Types
    <3>3. \A d \in Devices : \A q \in Placed(d)' : q[2] <= calls'[q[1]]
      BY <1>3, <2>10, <3>2 DEF TurnInv, Counted
    <3>4. ASSUME NEW k \in Clients, call'[k].pc \notin {"idle", "wait", "finish"}
          PROVE  \A d \in Devices : Own(k)' \notin Placed(d)'
      <4>1. k # c /\ call'[k] = call[k]
        BY <2>11, <3>4
      <4>2. Own(k) # r
        BY <2>2, <4>1, OwnIsDistinct
      <4> QED
        BY <2>10, <3>1, <3>4, <4>1, <4>2 DEF TurnInv, Counted
    <3> QED
      BY <3>3, <3>4 DEF Counted
  <2>16. Turns'
    <3> SUFFICES ASSUME NEW d \in Devices, NEW p \in Placed(d)',
                        req'[p].session # NoSession
                 PROVE  /\ req'[p].session \in sessions'[d] \cap busy'[d] \cap known'
                        /\ \A e \in Devices : \A q \in Placed(e)' :
                             q # p => req'[q].session # req'[p].session
      BY DEF Turns
    <3>1. ASSUME NEW e \in Devices, NEW q \in Placed(e), x # NoSession
          PROVE  req[q].session # x
      <4> SUFFICES ASSUME req[q].session = x PROVE FALSE
        OBVIOUS
      <4>1. x \in sessions[e] \cap busy[e]
        BY <3>1 DEF TurnInv, Turns
      <4>2. e = D
        BY <2>4, <3>1, <4>1 DEF TurnInv, HomeInv, Homes
      <4> QED
        BY <2>4, <3>1, <4>1, <4>2
    <3>2. CASE p = r
      <4>1. d = D
        BY <2>5, <2>10, <3>2
      <4> QED
        BY <1>3, <2>4, <2>5, <2>6, <2>8, <2>10, <2>12, <3>1, <3>2, <4>1
    <3>3. CASE p # r
      <4>1. p \in Placed(d) /\ req'[p] = req[p]
        BY <2>6, <2>8, <2>10, <3>3
      <4>2. req[p].session \in sessions[d] \cap busy[d] \cap known
        BY <4>1 DEF TurnInv, Turns
      <4>3. req[p].session \in sessions'[d] \cap busy'[d] \cap known'
        BY <1>3, <2>12, <4>2
      <4>4. ASSUME NEW e \in Devices, NEW q \in Placed(e)', q # p
            PROVE  req'[q].session # req'[p].session
        <5>1. CASE q = r
          BY <2>6, <3>1, <4>1, <5>1
        <5>2. CASE q # r
          <6>1. q \in Placed(e) /\ req'[q] = req[q]
            BY <2>6, <2>8, <2>10, <5>2
          <6> QED
            BY <4>1, <4>4, <6>1 DEF TurnInv, Turns
        <5> QED
          BY <5>1, <5>2
      <4> QED
        BY <4>1, <4>3, <4>4
    <3> QED
      BY <3>2, <3>3
  <2>17. Shutdown'
    <3>1. main' \in {"serving", "closing"} /\ stopped' = 0
      BY <1>2, <1>3, UnderWay
    <3>2. \A d \in Devices : ~(d <= 0)
      BY Constants DEF Devices
    <3> QED
      BY <3>1, <3>2 DEF Shutdown
  <2> QED
    BY <1>1, <2>13, <2>14, <2>15, <2>16, <2>17 DEF TurnInv
<1> QED
  BY <1>1, <1>4, <1>5, SubmitHandlers

LEMMA FinishTurns ==
  ASSUME TurnInv, NEW c \in Clients, Finish(c)
  PROVE  TurnInv'
<1>1. HomeInv' /\ HandlerInv
  BY FinishHomes DEF TurnInv, HomeInv
<1>2. /\ At(c, "finish") /\ Becomes(c, NoCall)
      /\ UNCHANGED <<main, stopped, sessions, busy, queue, active, owner, known,
                     waiting, running, calls>>
      /\ req' = [req EXCEPT ![Own(c)] =
                   IF req[Own(c)].stage = "over" THEN NoRequest ELSE req[Own(c)]]
  BY <1>1, FinishHandlers
<1>3. Own(c) \in Requests
  BY <1>1, <1>2, OwnIsRequest DEF HandlerInv, Handlers, Progress, At
<1>4. CASE req[Own(c)].stage # "over"
  <2>1. req' = req
    BY <1>1, <1>2, <1>4 DEF HandlerInv, Types
  <2> QED
    BY <1>1, <1>2, <2>1, ReplyTurns
<1>5. CASE req[Own(c)].stage = "over"
  <2>1. PICK r : r = Own(c)
    OBVIOUS
  <2>2. /\ req'[r].stage = "none"
        /\ \A q \in Requests \ {r} : req'[q] = req[q]
    BY <1>1, <1>2, <1>3, <1>5, <2>1 DEF HandlerInv, Types, NoRequest
  <2>3. \A d \in Devices : /\ Placed(d) \subseteq Requests
                           /\ active[d] \subseteq Requests
                           /\ Range(queue[d]) \subseteq Requests
    BY <1>1, PlacedAreRequests
  <2>4. \A d \in Devices : r \notin Placed(d)
    BY <1>5, <2>1 DEF TurnInv, Staged, Placed
  <2>5. \A d \in Devices : Placed(d)' = Placed(d)
    BY <1>2 DEF Placed
  <2>6. \A d \in Devices : \A q \in Placed(d) : req'[q] = req[q]
    BY <2>2, <2>3, <2>4
  <2>7. /\ call'[c].pc = "idle"
        /\ \A k \in Clients \ {c} : call'[k] = call[k]
    BY <1>1, <1>2, OneCall, NoCallIsIdle
    DEF HandlerInv
  <2>8. Apart'
    BY <1>2, <2>5 DEF TurnInv, Apart
  <2>9. Staged'
    <3>1. ASSUME NEW d \in Devices
          PROVE  /\ \A q \in Range(queue'[d]) : req'[q].stage = "live"
                 /\ \A q \in active'[d] : req'[q].stage \in {"live", "ended", "done"}
      BY <1>2, <2>6 DEF TurnInv, Staged, Placed
    <3>2. \A q \in Requests : req'[q].stage \in {"live", "ended"} =>
                                \E d \in Devices : q \in Placed(d)'
      BY <2>2, <2>5 DEF TurnInv, Staged
    <3> QED
      BY <3>1, <3>2 DEF Staged
  <2>10. Turns'
    BY <1>2, <2>5, <2>6 DEF TurnInv, Turns
  <2>11. Counted'
    <3>1. \A k \in Clients : Own(k)' = Own(k)
      BY <1>2 DEF Own
    <3> QED
      BY <1>2, <2>5, <2>7, <3>1 DEF TurnInv, Counted
  <2>12. Shutdown'
    BY <1>2, <2>7 DEF TurnInv, Shutdown, At
  <2> QED
    BY <1>1, <2>8, <2>9, <2>10, <2>11, <2>12 DEF TurnInv
<1> QED
  BY <1>4, <1>5

\* output_queue.get only shortens a queue.
LEMMA GotKeeps ==
  ASSUME HandlerInv, NEW c \in Clients, Own(c) \in Requests,
         req' = [req EXCEPT ![Own(c)].out = Tail(@)]
  PROVE  /\ \A r \in Requests \ {Own(c)} : req'[r] = req[r]
         /\ req'[Own(c)].out = Tail(req[Own(c)].out)
         /\ \A r \in Requests :
              /\ req'[r].stage = req[r].stage /\ req'[r].session = req[r].session
              /\ req'[r].made = req[r].made /\ req'[r].failed = req[r].failed
<1>1. req[Own(c)] \in RequestRecords
  BY DEF HandlerInv, Types
<1>2. PICK q : q = [req[Own(c)] EXCEPT !.out = Tail(@)]
  OBVIOUS
<1>3. /\ q.out = Tail(req[Own(c)].out) /\ q.stage = req[Own(c)].stage
      /\ q.session = req[Own(c)].session /\ q.made = req[Own(c)].made
      /\ q.failed = req[Own(c)].failed
  BY <1>1, <1>2 DEF RequestRecords
<1>4. req'[Own(c)] = q /\ \A r \in Requests \ {Own(c)} : req'[r] = req[r]
  BY <1>2 DEF HandlerInv, Types
<1> QED
  BY <1>3, <1>4

LEMMA ExecutorTurns ==
  ASSUME TurnInv, NEW c \in Clients, Waited(c) \/ Got(c)
  PROVE  TurnInv'
<1>1. HomeInv' /\ HandlerInv
  BY ExecutorHomes DEF TurnInv, HomeInv
<1>2. CASE Waited(c)
  <2>1. UNCHANGED <<main, stopped, sessions, busy, queue, active, known, req, calls>>
    BY <1>1, <1>2, WaitedHandlers
  <2>2. PICK h \in CallRecords :
          /\ Becomes(c, h)
          /\ h.pc = IF call[c].pc = "wait" THEN "finish" ELSE call[c].pc
    BY <1>1, <1>2, WaitedHandlers
  <2>3. At(c, "idle") => h.pc = "idle"
    BY <2>2 DEF At
  <2>4. h.pc \in {"idle", "wait", "finish"} \/ call[c].pc \notin {"idle", "wait", "finish"}
    BY <2>2
  <2> QED
    BY <1>1, <2>1, <2>2, <2>3, <2>4, GoesOnTurns
<1>3. CASE Got(c)
  <2>1. /\ UNCHANGED <<main, stopped, sessions, busy, queue, active, known, calls>>
        /\ req' = [req EXCEPT ![Own(c)].out = Tail(@)] /\ Own(c) \in Requests
    BY <1>1, <1>3, GotHandlers
  <2>2. PICK h \in CallRecords :
          /\ Becomes(c, h)
          /\ \/ call[c].pc = "wait" /\ h.pc = "wait"
             \/ h.pc = IF call[c].pc = "wait" THEN "finish" ELSE call[c].pc
    BY <1>1, <1>3, GotHandlers
  <2>3. At(c, "idle") => h.pc = "idle"
    BY <2>2 DEF At
  <2>4. h.pc \in {"idle", "wait", "finish"} \/ call[c].pc \notin {"idle", "wait", "finish"}
    BY <2>2
  <2>5. \A r \in Requests : /\ req'[r].stage = req[r].stage
                            /\ req'[r].session = req[r].session
    BY <1>1, <2>1, GotKeeps
  <2> QED
    BY <1>1, <2>1, <2>2, <2>3, <2>4, <2>5, GoesOnTurns
<1> QED
  BY <1>2, <1>3

LEMMA TakeTurns ==
  ASSUME TurnInv, Take
  PROVE  TurnInv'
<1>1. UNCHANGED <<main, stopped, sessions, busy, queue, active, owner, known, req,
                  call, calls>>
  BY TakeHandlers DEF TurnInv, HomeInv
<1>2. HomeInv'
  BY StepHomes DEF TurnInv, Next
<1>3. Counted' /\ Shutdown'
  BY <1>1 DEF TurnInv, Counted, Shutdown, Placed, Own, At
<1> QED
  BY <1>1, <1>2, <1>3, TurnsKept

LEMMA AdmitTurns ==
  ASSUME TurnInv, NEW d \in Devices, Admit(d)
  PROVE  TurnInv'
<1>1. HandlerInv /\ HomeInv'
  BY StepHomes DEF TurnInv, HomeInv, Next, Thread
<1>2. /\ UNCHANGED <<main, stopped, sessions, busy, owner, known, req, call,
                     waiting, running, calls>>
      /\ d > stopped /\ queue[d] # <<>>
      /\ active' = [active EXCEPT ![d] = @ \cup {Head(queue[d])}]
      /\ queue' = [queue EXCEPT ![d] = Tail(@)]
  BY <1>1, AdmitHandlers
<1>3. PICK r : r = Head(queue[d])
  OBVIOUS
<1>4. \A e \in Devices :
        /\ queue[e] \in Seq(Requests) /\ Range(queue[e]) \subseteq Requests
        /\ active[e] \subseteq Requests /\ Placed(e) \subseteq Requests
  BY <1>1, PlacedAreRequests
<1>5. IsInjective(queue[d]) /\ active[d] \cap Range(queue[d]) = {}
  BY DEF TurnInv, Apart
<1>6. /\ Range(queue[d]) = Range(Tail(queue[d])) \cup {r}
      /\ r \notin Range(Tail(queue[d])) /\ IsInjective(Tail(queue[d]))
  BY <1>2, <1>3, <1>4, <1>5, HeadTailRange
<1>7. /\ queue'[d] = Tail(queue[d]) /\ active'[d] = active[d] \cup {r}
      /\ \A e \in Devices \ {d} : queue'[e] = queue[e] /\ active'[e] = active[e]
  BY <1>1, <1>2, <1>3 DEF HandlerInv, Types
<1>8. Range(queue'[d]) = Range(Tail(queue[d]))
  BY <1>7
<1>9. \A e \in Devices : Placed(e)' = Placed(e)
  <2> SUFFICES ASSUME NEW e \in Devices PROVE Placed(e)' = Placed(e)
    OBVIOUS
  <2>1. CASE e = d
    BY <1>6, <1>7, <1>8, <2>1 DEF Placed
  <2>2. CASE e # d
    <3>1. queue'[e] = queue[e] /\ active'[e] = active[e]
      BY <1>7, <2>2
    <3> QED
      BY <3>1 DEF Placed
  <2> QED
    BY <2>1, <2>2
<1>10. Apart'
  <2>1. ASSUME NEW e \in Devices
        PROVE  IsInjective(queue'[e]) /\ active'[e] \cap Range(queue'[e]) = {}
    <3>1. CASE e = d
      BY <1>5, <1>6, <1>7, <1>8, <3>1
    <3>2. CASE e # d
      <4>1. queue'[e] = queue[e] /\ active'[e] = active[e]
        BY <1>7, <3>2
      <4> QED
        BY <4>1 DEF TurnInv, Apart
    <3> QED
      BY <3>1, <3>2
  <2>2. \A e, g \in Devices : e # g => Placed(e)' \cap Placed(g)' = {}
    BY <1>9 DEF TurnInv, Apart
  <2> QED
    BY <2>1, <2>2 DEF Apart
<1>11. Staged'
  <2>1. ASSUME NEW e \in Devices
        PROVE  /\ \A q \in Range(queue'[e]) : req'[q].stage = "live"
               /\ \A q \in active'[e] : req'[q].stage \in {"live", "ended", "done"}
    <3>1. CASE e = d
      <4>1. req[r].stage = "live"
        BY <1>6 DEF TurnInv, Staged
      <4> QED
        BY <1>2, <1>6, <1>7, <1>8, <3>1, <4>1 DEF TurnInv, Staged
    <3>2. CASE e # d
      <4>1. queue'[e] = queue[e] /\ active'[e] = active[e]
        BY <1>7, <3>2
      <4> QED
        BY <1>2, <4>1 DEF TurnInv, Staged
    <3> QED
      BY <3>1, <3>2
  <2> QED
    BY <1>2, <1>9, <2>1 DEF TurnInv, Staged
<1>12. Counted' /\ Turns'
  BY <1>2, <1>9 DEF TurnInv, Counted, Turns, Own
<1>13. Shutdown'
  <2>1. ~(d <= stopped)
    <3>1. stopped \in 0 .. Gpus /\ d > stopped /\ d \in 1 .. Gpus
      BY <1>1, <1>2 DEF Devices, HandlerInv, Types
    <3> QED
      BY <3>1, Constants
  <2> QED
    BY <1>2, <1>7, <2>1 DEF TurnInv, Shutdown, At
<1> QED
  BY <1>1, <1>10, <1>11, <1>12, <1>13 DEF TurnInv

\* A request in _active gets further: a step of it, or the first half of
\* _retire.
LEMMA FurtherTurns ==
  ASSUME TurnInv, HomeInv', NEW d \in Devices, NEW r \in active[d], r \in Requests,
         UNCHANGED <<main, stopped, sessions, busy, queue, active, owner, known,
                     call, calls>>,
         \A p \in Requests \ {r} : req'[p] = req[p],
         req'[r].session = req[r].session,
         req'[r].stage \in {"live", "ended", "done"}
  PROVE  TurnInv'
<1>1. \A e \in Devices : Placed(e)' = Placed(e)
  BY DEF Placed
<1>2. \A e \in Devices :
        /\ active[e] \subseteq Requests /\ Range(queue[e]) \subseteq Requests
        /\ Placed(e) \subseteq Requests
  BY PlacedAreRequests DEF TurnInv, HomeInv
<1>3. /\ r \in Placed(d)
      /\ \A e \in Devices : r \notin Range(queue[e])
  BY DEF TurnInv, Apart, Placed
<1>4. Staged'
  <2>1. ASSUME NEW e \in Devices
        PROVE  /\ \A q \in Range(queue'[e]) : req'[q].stage = "live"
               /\ \A q \in active'[e] : req'[q].stage \in {"live", "ended", "done"}
    BY <1>2, <1>3 DEF TurnInv, Staged
  <2>2. \A q \in Requests : req'[q].stage \in {"live", "ended"} =>
                              \E e \in Devices : q \in Placed(e)'
    BY <1>1, <1>3 DEF TurnInv, Staged
  <2> QED
    BY <2>1, <2>2 DEF Staged
<1>5. \A q \in Requests : req'[q].session = req[q].session
  OBVIOUS
<1>6. Turns'
  <2> SUFFICES ASSUME NEW e \in Devices, NEW p \in Placed(e),
                      req[p].session # NoSession
               PROVE  /\ req[p].session \in sessions[e] \cap busy[e] \cap known
                      /\ \A g \in Devices : \A q \in Placed(g) :
                           q # p => req[q].session # req[p].session
    BY <1>1, <1>2, <1>5 DEF Turns
  <2> QED
    BY DEF TurnInv, Turns
<1>7. Apart' /\ Counted' /\ Shutdown'
  BY <1>1 DEF TurnInv, Apart, Counted, Shutdown, Own, At
<1> QED
  BY <1>4, <1>6, <1>7 DEF TurnInv

LEMMA LeaveTurns ==
  ASSUME TurnInv, NEW d \in Devices, NEW r \in active[d], Leave(d, r)
  PROVE  TurnInv'
<1>1. HandlerInv /\ HomeInv'
  BY StepHomes DEF TurnInv, HomeInv, Next, Thread, Retire
<1>2. /\ r \in Requests
      /\ UNCHANGED <<main, stopped, sessions, queue, owner, known, call, waiting,
                     running, calls>>
      /\ active' = [active EXCEPT ![d] = @ \ {r}]
      /\ busy' = [busy EXCEPT ![d] = @ \ {req[r].session}]
      /\ \A p \in Requests \ {r} : req'[p] = req[p]
      /\ req'[r].stage \notin {"live", "ended"}
  <2>1. NoRequest.stage = "none"
    BY DEF NoRequest
  <2> QED
    BY <1>1, <2>1, LeaveHandlers
<1>3. /\ active'[d] = active[d] \ {r} /\ busy'[d] = busy[d] \ {req[r].session}
      /\ \A e \in Devices \ {d} : active'[e] = active[e] /\ busy'[e] = busy[e]
  BY <1>1, <1>2 DEF HandlerInv, Types
<1>4. \A e \in Devices :
        /\ active[e] \subseteq Requests /\ Range(queue[e]) \subseteq Requests
        /\ Placed(e) \subseteq Requests
  BY <1>1, PlacedAreRequests
<1>5. /\ r \in Placed(d) /\ r \notin Range(queue[d])
      /\ \A e \in Devices \ {d} : r \notin Placed(e)
  BY DEF TurnInv, Apart, Placed
<1>6. \A e \in Devices : Placed(e)' = Placed(e) \ {r}
  <2> SUFFICES ASSUME NEW e \in Devices PROVE Placed(e)' = Placed(e) \ {r}
    OBVIOUS
  <2>1. CASE e = d
    BY <1>2, <1>3, <1>5, <2>1 DEF Placed
  <2>2. CASE e # d
    BY <1>2, <1>3, <1>5, <2>2 DEF Placed
  <2> QED
    BY <2>1, <2>2
<1>7. \A e \in Devices : active'[e] \subseteq active[e] \ {r}
  BY <1>3, <1>5 DEF Placed
<1>8. Apart'
  BY <1>2, <1>6, <1>7 DEF TurnInv, Apart
<1>9. Staged'
  <2>1. ASSUME NEW e \in Devices
        PROVE  /\ \A q \in Range(queue'[e]) : req'[q].stage = "live"
               /\ \A q \in active'[e] : req'[q].stage \in {"live", "ended", "done"}
    <3>1. r \notin Range(queue[e])
      BY <1>5 DEF Placed
    <3> QED
      BY <1>2, <1>4, <1>7, <3>1 DEF TurnInv, Staged
  <2>2. \A q \in Requests : req'[q].stage \in {"live", "ended"} =>
                              \E e \in Devices : q \in Placed(e)'
    BY <1>2, <1>6 DEF TurnInv, Staged
  <2> QED
    BY <2>1, <2>2 DEF Staged
<1>10. Turns'
  <2> SUFFICES ASSUME NEW e \in Devices, NEW p \in Placed(e), p # r,
                      req[p].session # NoSession
               PROVE  /\ req[p].session \in sessions[e] \cap busy'[e] \cap known
                      /\ \A g \in Devices : \A q \in Placed(g) :
                           q # r /\ q # p => req[q].session # req[p].session
    BY <1>2, <1>4, <1>6 DEF Turns
  <2>1. /\ req[p].session \in sessions[e] \cap busy[e] \cap known
        /\ \A g \in Devices : \A q \in Placed(g) :
             q # p => req[q].session # req[p].session
    BY DEF TurnInv, Turns
  <2>2. req[r].session # req[p].session
    BY <1>5, <2>1
  <2>3. req[p].session \in busy'[e]
    <3>1. CASE e = d
      BY <1>3, <2>1, <2>2, <3>1
    <3>2. CASE e # d
      BY <1>3, <2>1, <3>2
    <3> QED
      BY <3>1, <3>2
  <2> QED
    BY <2>1, <2>3
<1>11. Counted'
  BY <1>2, <1>6 DEF TurnInv, Counted, Own
<1>12. Shutdown'
  BY <1>2, <1>7 DEF TurnInv, Shutdown, At
<1> QED
  BY <1>1, <1>8, <1>9, <1>10, <1>11, <1>12 DEF TurnInv

LEMMA MainTurns ==
  ASSUME TurnInv, Close \/ Returns \/ Cut
  PROVE  TurnInv'
<1>1. HandlerInv /\ HomeInv'
  BY StepHomes DEF TurnInv, HomeInv, Next
<1>2. /\ UNCHANGED <<stopped, sessions, busy, queue, active, owner, known, req,
                     calls>>
      /\ \/ UNCHANGED call /\ main' = "closing"
         \/ UNCHANGED call /\ \A c \in Clients : At(c, "idle")
         \/ \A c \in Clients : call'[c].pc = "idle"
  BY <1>1, MainHandlers, CutHandlers
<1>3. \A d \in Devices : Placed(d)' = Placed(d)
  BY <1>2 DEF Placed
<1>4. Counted'
  BY <1>2, <1>3 DEF TurnInv, Counted, Own
<1>5. Shutdown'
  BY <1>2 DEF TurnInv, Shutdown, At
<1> QED
  BY <1>1, <1>2, <1>4, <1>5, TurnsKept

LEMMA StopTurns ==
  ASSUME TurnInv, Stop
  PROVE  TurnInv'
<1>1. HandlerInv /\ HomeInv'
  BY StepHomes DEF TurnInv, HomeInv, Next
<1>2. PICK d : d = stopped + 1
  OBVIOUS
<1>3. /\ main = "stopping" /\ main' \in {"stopped", "stopping"}
      /\ d \in Devices /\ stopped' = d
      /\ UNCHANGED <<sessions, owner, known, call, calls>>
      /\ active' = [active EXCEPT ![d] = {}] /\ queue' = [queue EXCEPT ![d] = <<>>]
      /\ busy' = [busy EXCEPT ![d] = @ \ {req[r].session : r \in active[d]}]
  BY <1>1, <1>2, StopHandlers
<1>4. ASSUME NEW r \in Requests
      PROVE  IF r \in Placed(d) THEN req'[r].stage \in {"over", "done"}
             ELSE req'[r] = req[r]
  BY <1>1, <1>2, StopHandlers DEF Placed
<1>5. /\ active'[d] = {} /\ queue'[d] = <<>>
      /\ \A e \in Devices \ {d} :
           active'[e] = active[e] /\ queue'[e] = queue[e] /\ busy'[e] = busy[e]
  BY <1>1, <1>3 DEF HandlerInv, Types
<1>6. Range(queue'[d]) = {} /\ IsInjective(queue'[d])
  BY <1>5 DEF Range, IsInjective
<1>7. \A e \in Devices :
        /\ active[e] \subseteq Requests /\ Range(queue[e]) \subseteq Requests
        /\ Placed(e) \subseteq Requests
  BY <1>1, PlacedAreRequests
<1>8. /\ Placed(d)' = {}
      /\ \A e \in Devices \ {d} : Placed(e)' = Placed(e)
  BY <1>5, <1>6 DEF Placed
<1>9. \A e \in Devices \ {d} : \A q \in Placed(e) : req'[q] = req[q]
  BY <1>3, <1>4, <1>7 DEF TurnInv, Apart
<1>10. Apart'
  <2>1. ASSUME NEW e \in Devices
        PROVE  IsInjective(queue'[e]) /\ active'[e] \cap Range(queue'[e]) = {}
    <3>1. CASE e = d
      BY <1>5, <1>6, <3>1
    <3>2. CASE e # d
      <4>1. queue'[e] = queue[e] /\ active'[e] = active[e]
        BY <1>5, <3>2
      <4> QED
        BY <4>1 DEF TurnInv, Apart
    <3> QED
      BY <3>1, <3>2
  <2>2. \A e, g \in Devices : e # g => Placed(e)' \cap Placed(g)' = {}
    BY <1>8 DEF TurnInv, Apart
  <2> QED
    BY <2>1, <2>2 DEF Apart
<1>11. Staged'
  <2>1. ASSUME NEW e \in Devices
        PROVE  /\ \A q \in Range(queue'[e]) : req'[q].stage = "live"
               /\ \A q \in active'[e] : req'[q].stage \in {"live", "ended", "done"}
    <3>1. CASE e = d
      BY <1>5, <1>6, <3>1
    <3>2. CASE e # d
      <4>1. queue'[e] = queue[e] /\ active'[e] = active[e]
        BY <1>5, <3>2
      <4> QED
        BY <1>9, <3>2, <4>1 DEF TurnInv, Staged, Placed
    <3> QED
      BY <3>1, <3>2
  <2>2. ASSUME NEW q \in Requests, req'[q].stage \in {"live", "ended"}
        PROVE  \E e \in Devices : q \in Placed(e)'
    <3>1. q \notin Placed(d) /\ req'[q] = req[q]
      BY <1>4, <2>2
    <3>2. PICK e \in Devices : q \in Placed(e)
      BY <2>2, <3>1 DEF TurnInv, Staged
    <3> QED
      BY <1>8, <3>1, <3>2
  <2> QED
    BY <2>1, <2>2 DEF Staged
<1>12. Turns'
  <2> SUFFICES ASSUME NEW e \in Devices \ {d}, NEW p \in Placed(e),
                      req[p].session # NoSession
               PROVE  /\ req[p].session \in sessions[e] \cap busy[e] \cap known
                      /\ \A g \in Devices \ {d} : \A q \in Placed(g) :
                           q # p => req[q].session # req[p].session
    BY <1>3, <1>5, <1>8, <1>9 DEF Turns
  <2> QED
    BY DEF TurnInv, Turns
<1>13. Counted'
  <2>1. \A e \in Devices : Placed(e)' \subseteq Placed(e)
    BY <1>8
  <2> QED
    BY <1>3, <2>1 DEF TurnInv, Counted, Own
<1>14. Shutdown'
  <2>1. \A e \in Devices : e <= d => e = d \/ e <= stopped
    BY <1>1, <1>2, Constants DEF Devices, HandlerInv, Types
  <2>2. \A c \in Clients : At(c, "idle")'
    BY <1>3 DEF TurnInv, Shutdown, At
  <2> QED
    BY <1>3, <1>5, <2>1, <2>2 DEF TurnInv, Shutdown
<1> QED
  BY <1>1, <1>10, <1>11, <1>12, <1>13, <1>14 DEF TurnInv

LEMMA StepTurns ==
  ASSUME TurnInv, [Next]_vars
  PROVE  TurnInv'
<1>1. HandlerInv /\ HomeInv'
  BY StepHomes DEF TurnInv, HomeInv
<1>2. CASE UNCHANGED vars
  <2>1. UNCHANGED <<main, stopped, sessions, busy, queue, active, owner, known,
                    req, call, calls>>
    BY <1>2 DEF vars
  <2>2. Counted' /\ Shutdown'
    BY <2>1 DEF TurnInv, Counted, Shutdown, Placed, Own, At
  <2> QED
    BY <1>1, <2>1, <2>2, TurnsKept
<1>3. ASSUME NEW c \in Clients, Arrive(c) PROVE TurnInv'
  BY <1>3, ArriveTurns
<1>4. ASSUME NEW c \in Clients, Handler(c) PROVE TurnInv'
  BY <1>1, <1>4, CallTurns, SubmitTurns, FinishTurns DEF Handler
<1>5. ASSUME NEW c \in Clients, Waited(c) \/ Got(c) PROVE TurnInv'
  BY <1>5, ExecutorTurns
<1>6. CASE Take
  BY <1>6, TakeTurns
<1>7. ASSUME NEW d \in Devices, Thread(d) PROVE TurnInv'
  <2>1. CASE Admit(d)
    BY <2>1, AdmitTurns
  <2>2. ASSUME NEW r \in active[d], Step(d, r) PROVE TurnInv'
    BY <1>1, <2>2, StepHandlers, FurtherTurns
  <2>3. ASSUME NEW r \in active[d], Fail(d, r) PROVE TurnInv'
    BY <1>1, <2>3, FailHandlers, FurtherTurns
  <2>4. ASSUME NEW r \in active[d], SetDone(d, r) PROVE TurnInv'
    BY <1>1, <2>4, DoneHandlers, FurtherTurns
  <2>5. ASSUME NEW r \in active[d], Leave(d, r) PROVE TurnInv'
    BY <2>5, LeaveTurns
  <2> QED
    BY <1>7, <2>1, <2>2, <2>3, <2>4, <2>5 DEF Thread, Retire
<1>8. CASE Close \/ Returns \/ Cut
  BY <1>8, MainTurns
<1>9. CASE Stop
  BY <1>9, StopTurns
<1> QED
  BY <1>2, <1>3, <1>4, <1>5, <1>6, <1>7, <1>8, <1>9 DEF Next

\* TurnInv is inductive.
LEMMA TurnsHold == Spec => []TurnInv
BY InitTurns, StepTurns, PTL DEF Spec

\* submit_turn through the router: until _retire a turn is on the device where
\* its session's PagedModel is, the session is busy there, no other turn of it
\* is anywhere, and it is not deleted meanwhile.
THEOREM TurnsRunAtHome == Spec => []TurnsAtHome
<1>1. TurnInv => TurnsAtHome
  <2> SUFFICES ASSUME TurnInv, NEW d \in Devices, NEW r \in Placed(d),
                      req[r].session # NoSession
               PROVE  /\ req[r].session \in sessions[d] \cap busy[d]
                      /\ owner[req[r].session] = d
                      /\ \A e \in Devices : \A q \in Placed(e) :
                           q # r => req[q].session # req[r].session
    BY DEF TurnsAtHome, Placed
  <2>1. /\ req[r].session \in sessions[d] \cap busy[d] \cap known
        /\ \A e \in Devices : \A q \in Placed(e) :
             q # r => req[q].session # req[r].session
    BY DEF TurnInv, Turns
  <2>2. req[r].session \in Sessions
    BY <2>1 DEF TurnInv, HomeInv, HandlerInv, Types
  <2>3. owner[req[r].session] = d
    BY <2>1, <2>2 DEF TurnInv, HomeInv, Homes
  <2> QED
    BY <2>1, <2>3
<1> QED
  BY <1>1, TurnsHold, PTL

\* MultiGpuScheduler.stop(), one scheduler after the other: at the end no
\* request is left without its done event and no scheduler holds one.
THEOREM StopLeavesNobody == Spec => []StoppedAnswersAll
<1>1. TurnInv => StoppedAnswersAll
  <2> SUFFICES ASSUME TurnInv, main = "stopped"
               PROVE  /\ \A r \in Requests : req[r].stage \in {"none", "done", "over"}
                      /\ \A d \in Devices : queue[d] = <<>> /\ active[d] = {}
    BY DEF StoppedAnswersAll
  <2>1. stopped = Gpus
    BY DEF TurnInv, HomeInv, HandlerInv, Phases
  <2>2. \A d \in Devices : d <= stopped
    BY <2>1, Constants DEF Devices
  <2>3. \A d \in Devices : queue[d] = <<>> /\ active[d] = {}
    BY <2>2 DEF TurnInv, Shutdown
  <2>4. \A d \in Devices : Placed(d) = {}
    BY <2>3 DEF Placed, Range
  <2>5. \A r \in Requests : req[r] \in RequestRecords
    BY DEF TurnInv, HomeInv, HandlerInv, Types
  <2>6. \A r \in Requests :
          req[r].stage \in {"none", "live", "ended", "done", "over"}
    BY <2>5 DEF RequestRecords
  <2> QED
    BY <2>3, <2>4, <2>6 DEF TurnInv, Staged
<1> QED
  BY <1>1, TurnsHold, PTL

-----------------------------------------------------------------------------
(* What an answer is worth *)

\* What a stream under way has sent and what it will take from its queue next:
\* the tokens in order from the first one, and then at most one end.
Streamed(c) ==
  LET q == req[Own(c)]
      sent == Len(call[c].got)
  IN
  /\ sent <= q.made
  /\ \A i \in 1 .. sent : call[c].got[i] = i
  /\ \A i \in 1 .. Len(q.out) :
       q.out[i] = IF sent + i <= q.made THEN sent + i ELSE End
  /\ \/ sent + Len(q.out) = q.made
     \/ sent + Len(q.out) = q.made + 1 /\ q.stage \in {"ended", "done", "over"}

\* What a handler waits for, and what it has got at the end.
Answer(c) ==
  LET q == req[Own(c)] IN
  /\ At(c, "wait") => q.stage # "none" /\ (call[c].stream => Streamed(c))
  /\ At(c, "finish") =>
       /\ q.stage \in {"ended", "done", "over"}
       /\ call[c].stream => /\ Len(call[c].got) = q.made
                            /\ \A i \in 1 .. q.made : call[c].got[i] = i

\* A request ends with all its tokens or with an error.
Result(r) ==
  /\ req[r].stage = "live" => req[r].made < MaxTokens
  /\ req[r].stage \in {"ended", "done", "over"} =>
       req[r].failed \/ req[r].made = MaxTokens

AnswerInv ==
  /\ TurnInv
  /\ \A r \in Requests : Result(r)
  /\ \A c \in Clients : Answer(c)

LEMMA InitAnswers == Init => AnswerInv
<1> SUFFICES ASSUME Init PROVE AnswerInv
  OBVIOUS
<1>1. TurnInv
  BY InitTurns
<1>2. \A r \in Requests : req[r].stage = "none"
  BY DEF Init, NoRequest
<1>3. \A c \in Clients : call[c].pc = "idle"
  BY NoCallIsIdle DEF Init
<1> QED
  BY <1>1, <1>2, <1>3 DEF AnswerInv, Result, Answer, At

\* The request of a handler that waits for it.
LEMMA AnswerRequest ==
  ASSUME TurnInv, NEW c \in Clients, At(c, "wait") \/ At(c, "finish")
  PROVE  /\ Own(c) \in Requests /\ req[Own(c)] \in RequestRecords
         /\ req[Own(c)].made \in Nat /\ req[Own(c)].out \in Seq(Nat)
         /\ call[c] \in CallRecords /\ call[c].got \in Seq(Nat)
<1>1. HandlerInv /\ calls[c] > 0
  BY DEF TurnInv, HomeInv, HandlerInv, Handlers, Progress, At
<1>2. Own(c) \in Requests /\ req[Own(c)] \in RequestRecords
  BY <1>1, OwnIsRequest DEF HandlerInv
<1>3. call[c] \in CallRecords
  BY <1>1 DEF HandlerInv, Types
<1> QED
  BY <1>2, <1>3 DEF RequestRecords, CallRecords

\* Nothing changes for a handler.
LEMMA AnswerKept ==
  ASSUME AnswerInv, NEW c \in Clients, call'[c] = call[c], calls'[c] = calls[c],
         At(c, "wait") \/ At(c, "finish") => req'[Own(c)] = req[Own(c)]
  PROVE  Answer(c)'
<1>1. Own(c)' = Own(c)
  BY DEF Own
<1>2. Answer(c)
  BY DEF AnswerInv
<1>3. /\ At(c, "wait")' <=> At(c, "wait")
      /\ At(c, "finish")' <=> At(c, "finish")
  BY DEF At
<1>4. CASE At(c, "wait") \/ At(c, "finish")
  <2>1. req'[Own(c)'] = req[Own(c)]
    BY <1>1, <1>4
  <2>2. Streamed(c)' <=> Streamed(c)
    BY <2>1 DEF Streamed
  <2> QED
    BY <1>2, <1>3, <2>1, <2>2 DEF Answer
<1>5. CASE ~(At(c, "wait") \/ At(c, "finish"))
  BY <1>3, <1>5 DEF Answer
<1> QED
  BY <1>4, <1>5

LEMMA AnswersKept ==
  ASSUME AnswerInv, TurnInv', UNCHANGED <<req, call, calls>>
  PROVE  AnswerInv'
<1>1. \A c \in Clients : Answer(c)'
  BY AnswerKept
<1> QED
  BY <1>1 DEF AnswerInv, Result

\* A handler gets to where it does not wait for a request.
LEMMA CallAnswers ==
  ASSUME AnswerInv, TurnInv', NEW c \in Clients, NEW h \in CallRecords,
         Becomes(c, h), h.pc \notin {"wait", "finish"}, UNCHANGED req,
         \A k \in Clients \ {c} : calls'[k] = calls[k]
  PROVE  AnswerInv'
<1>1. /\ call'[c] = h
      /\ \A k \in Clients \ {c} : call'[k] = call[k]
  BY OneCall DEF AnswerInv, TurnInv, HomeInv, HandlerInv
<1>2. \A k \in Clients \ {c} : Answer(k)'
  BY <1>1, AnswerKept
<1>3. Answer(c)'
  BY <1>1 DEF Answer, At
<1> QED
  BY <1>2, <1>3 DEF AnswerInv, Result

\* One request gets further.
LEMMA FurtherAnswers ==
  ASSUME AnswerInv, TurnInv', NEW r \in Requests,
         \A p \in Requests \ {r} : req'[p] = req[p],
         UNCHANGED <<call, calls>>, Result(r)',
         \A c \in Clients : Own(c) = r /\ ~At(c, "idle") => Answer(c)'
  PROVE  AnswerInv'
<1>1. \A p \in Requests : Result(p)'
  BY DEF AnswerInv, Result
<1>2. ASSUME NEW c \in Clients PROVE Answer(c)'
  <2>1. CASE Own(c) = r /\ ~At(c, "idle")
    BY <2>1
  <2>2. CASE Own(c) # r
    <3>1. At(c, "wait") \/ At(c, "finish") => req'[Own(c)] = req[Own(c)]
      BY <2>2, AnswerRequest DEF AnswerInv
    <3> QED
      BY <3>1, AnswerKept
  <2>3. CASE At(c, "idle")
    <3>1. call'[c].pc = "idle"
      BY <2>3 DEF At
    <3> QED
      BY <3>1 DEF Answer, At
  <2> QED
    BY <2>1, <2>2, <2>3
<1> QED
  BY <1>1, <1>2 DEF AnswerInv

LEMMA ArriveAnswers ==
  ASSUME AnswerInv, NEW c \in Clients, Arrive(c)
  PROVE  AnswerInv'
<1>1. TurnInv' /\ HandlerInv
  BY ArriveTurns DEF AnswerInv, TurnInv, HomeInv
<1>2. /\ UNCHANGED req /\ calls' = [calls EXCEPT ![c] = @ + 1]
      /\ \E h \in CallRecords : Becomes(c, h) /\ Opening(h)
  BY <1>1, ArriveOpens DEF HandlerInv
<1>3. PICK h \in CallRecords : Becomes(c, h) /\ h.pc \in {"idle", "by_load", "owner"}
  BY <1>2 DEF Opening
<1>4. \A k \in Clients \ {c} : calls'[k] = calls[k]
  BY <1>1, <1>2 DEF HandlerInv, Types
<1> QED
  BY <1>1, <1>2, <1>3, <1>4, CallAnswers

LEMMA HandlerAnswers ==
  ASSUME AnswerInv, TurnInv', NEW c \in Clients,
         _by_load(c) \/ CreateAt(c) \/ Register(c) \/ _owner(c) \/ DeleteAt(c) \/ Forget(c)
  PROVE  AnswerInv'
<1>1. HandlerInv /\ HomeInv
  BY DEF AnswerInv, TurnInv, HomeInv
<1>2. NoCall \in CallRecords /\ NoCall.pc = "idle"
  BY NoCallIsIdle
<1>3. /\ UNCHANGED <<req, calls>>
      /\ \E h \in CallRecords : Becomes(c, h) /\ h.pc \notin {"wait", "finish"}
  <2>1. CASE _by_load(c)
    BY <1>1, <2>1, LoadsHandlers
  <2>2. CASE CreateAt(c)
    BY <1>1, <1>2, <2>2, CreateHandlers, FreeId DEF CreateAt
  <2>3. CASE Register(c)
    BY <1>1, <1>2, <2>3, RegisterHandlers
  <2>4. CASE _owner(c)
    BY <1>1, <1>2, <2>4, OwnerHandlers
  <2>5. CASE DeleteAt(c)
    BY <1>1, <1>2, <2>5, DeleteHandlers
  <2>6. CASE Forget(c)
    BY <1>1, <1>2, <2>6, ForgetHandlers
  <2> QED
    BY <2>1, <2>2, <2>3, <2>4, <2>5, <2>6
<1> QED
  BY <1>3, CallAnswers

LEMMA SubmitAnswers ==
  ASSUME AnswerInv, NEW c \in Clients, SubmitAt(c)
  PROVE  AnswerInv'
<1>1. TurnInv' /\ HandlerInv
  BY SubmitTurns DEF AnswerInv, TurnInv, HomeInv
<1>2. UNCHANGED calls /\ MaxTokens > 0 /\ ~At(c, "idle")
  BY <1>1, SubmitHandlers
<1>3. CASE UNCHANGED req /\ Becomes(c, NoCall)
  BY <1>1, <1>2, <1>3, NoCallIsIdle, CallAnswers
<1>4. CASE /\ req' = [req EXCEPT ![Own(c)] =
                        [NoRequest EXCEPT !.session = call[c].session,
                                          !.stage = "live"]]
           /\ \E h \in CallRecords : Becomes(c, h) /\ h.pc = "wait" /\ h.got = <<>>
  <2>1. PICK h \in CallRecords : Becomes(c, h) /\ h.pc = "wait" /\ h.got = <<>>
    BY <1>4
  <2>2. /\ call'[c] = h
        /\ \A k \in Clients \ {c} : call'[k] = call[k]
    BY <1>1, <2>1, OneCall DEF HandlerInv
  <2>3. calls[c] > 0 /\ Own(c) \in Requests
    BY <1>1, <1>2, OwnIsRequest DEF HandlerInv, Handlers, Progress, At
  <2>4. /\ req'[Own(c)].stage = "live" /\ req'[Own(c)].made = 0
        /\ req'[Own(c)].out = <<>>
        /\ \A r \in Requests \ {Own(c)} : req'[r] = req[r]
    BY <1>1, <1>4, <2>3 DEF HandlerInv, Types, NoRequest
  <2>5. Own(c)' = Own(c)
    BY <1>2 DEF Own
  <2>6. Len(<<>>) = 0
    BY EmptySeq
  <2>7. Answer(c)'
    <3>1. /\ call'[c].pc = "wait" /\ Len(call'[c].got) = 0
          /\ req'[Own(c)'].stage = "live" /\ req'[Own(c)'].made = 0
          /\ Len(req'[Own(c)'].out) = 0
      BY <2>1, <2>2, <2>4, <2>5, <2>6
    <3>2. Streamed(c)'
      BY <3>1 DEF Streamed
    <3> QED
      BY <3>1, <3>2 DEF Answer, At
  <2>8. ASSUME NEW k \in Clients \ {c} PROVE Answer(k)'
    <3>1. Own(k) # Own(c)
      BY OwnIsDistinct
    <3>2. At(k, "wait") \/ At(k, "finish") => req'[Own(k)] = req[Own(k)]
      BY <2>4, <3>1, AnswerRequest DEF AnswerInv
    <3> QED
      BY <1>2, <2>2, <3>2, AnswerKept
  <2>9. ASSUME NEW r \in Requests PROVE Result(r)'
    <3>1. CASE r = Own(c)
      BY <1>2, <2>4, <3>1 DEF Result
    <3>2. CASE r # Own(c)
      BY <2>4, <3>2 DEF AnswerInv, Result
    <3> QED
      BY <3>1, <3>2
  <2> QED
    BY <1>1, <2>7, <2>8, <2>9 DEF AnswerInv
<1> QED
  BY <1>1, <1>3, <1>4, SubmitHandlers

LEMMA FinishAnswers ==
  ASSUME AnswerInv, NEW c \in Clients, Finish(c)
  PROVE  AnswerInv'
<1>1. TurnInv' /\ HandlerInv
  BY FinishTurns DEF AnswerInv, TurnInv, HomeInv
<1>2. /\ At(c, "finish") /\ Becomes(c, NoCall) /\ UNCHANGED calls
      /\ req' = [req EXCEPT ![Own(c)] =
                   IF req[Own(c)].stage = "over" THEN NoRequest ELSE req[Own(c)]]
  BY <1>1, FinishHandlers
<1>3. Own(c) \in Requests
  BY <1>2, AnswerRequest DEF AnswerInv
<1>4. /\ req'[Own(c)] \in {NoRequest, req[Own(c)]}
      /\ \A r \in Requests \ {Own(c)} : req'[r] = req[r]
  BY <1>1, <1>2, <1>3 DEF HandlerInv, Types
<1>5. /\ call'[c].pc = "idle"
      /\ \A k \in Clients \ {c} : call'[k] = call[k]
  BY <1>1, <1>2, OneCall, NoCallIsIdle DEF HandlerInv
<1>6. Answer(c)'
  BY <1>5 DEF Answer, At
<1>7. ASSUME NEW k \in Clients \ {c} PROVE Answer(k)'
  <2>1. Own(k) # Own(c)
    BY OwnIsDistinct
  <2>2. At(k, "wait") \/ At(k, "finish") => req'[Own(k)] = req[Own(k)]
    BY <1>4, <2>1, AnswerRequest DEF AnswerInv
  <2> QED
    BY <1>2, <1>5, <2>2, AnswerKept
<1>8. ASSUME NEW r \in Requests PROVE Result(r)'
  <2>1. NoRequest.stage = "none"
    BY DEF NoRequest
  <2>2. req'[r] \in {NoRequest, req[r]}
    BY <1>4
  <2> QED
    BY <2>1, <2>2 DEF AnswerInv, Result
<1> QED
  BY <1>1, <1>6, <1>7, <1>8 DEF AnswerInv

LEMMA WaitedAnswers ==
  ASSUME AnswerInv, NEW c \in Clients, Waited(c)
  PROVE  AnswerInv'
<1>1. TurnInv' /\ HandlerInv
  BY ExecutorTurns DEF AnswerInv, TurnInv, HomeInv
<1>2. UNCHANGED <<req, calls>> /\ ~call[c].stream /\ IsDone(Own(c))
  BY <1>1, WaitedHandlers
<1>3. PICK h \in CallRecords :
        /\ Becomes(c, h) /\ h.stream = call[c].stream
        /\ h.pc = IF call[c].pc = "wait" THEN "finish" ELSE call[c].pc
  BY <1>1, WaitedHandlers
<1>4. /\ call'[c] = h
      /\ \A k \in Clients \ {c} : call'[k] = call[k]
  BY <1>1, <1>3, OneCall DEF HandlerInv
<1>5. \A k \in Clients \ {c} : Answer(k)'
  BY <1>2, <1>4, AnswerKept
<1>6. Own(c)' = Own(c)
  BY <1>2 DEF Own
<1>7. Answer(c)'
  BY <1>2, <1>3, <1>4, <1>6 DEF Answer, At, IsDone
<1> QED
  BY <1>1, <1>2, <1>5, <1>7 DEF AnswerInv, Result

LEMMA GotAnswers ==
  ASSUME AnswerInv, NEW c \in Clients, Got(c)
  PROVE  AnswerInv'
<1>1. TurnInv' /\ HandlerInv
  BY ExecutorTurns DEF AnswerInv, TurnInv, HomeInv
<1>2. /\ UNCHANGED calls /\ call[c].stream /\ Own(c) \in Requests
      /\ req[Own(c)].out # <<>> /\ req[Own(c)].out \in Seq(Nat)
      /\ req' = [req EXCEPT ![Own(c)].out = Tail(@)]
  BY <1>1, GotHandlers
<1>3. PICK out : out = req[Own(c)].out
  OBVIOUS
<1>4. PICK got : got = call[c].got
  OBVIOUS
<1>5. PICK h \in CallRecords :
        /\ Becomes(c, h) /\ h.stream = call[c].stream
        /\ \/ /\ call[c].pc = "wait" /\ Head(out) # End
              /\ h.pc = "wait" /\ h.got = Append(got, Head(out))
           \/ /\ call[c].pc = "wait" => Head(out) = End
              /\ h.got = got
              /\ h.pc = IF call[c].pc = "wait" THEN "finish" ELSE call[c].pc
  BY <1>1, <1>3, <1>4, GotHandlers
<1>6. /\ call'[c] = h
      /\ \A k \in Clients \ {c} : call'[k] = call[k]
  BY <1>1, <1>5, OneCall DEF HandlerInv
<1>7. /\ \A r \in Requests \ {Own(c)} : req'[r] = req[r]
      /\ req'[Own(c)].out = Tail(out)
      /\ \A r \in Requests :
           /\ req'[r].stage = req[r].stage /\ req'[r].session = req[r].session
           /\ req'[r].made = req[r].made /\ req'[r].failed = req[r].failed
  BY <1>1, <1>2, <1>3, GotKeeps
<1>8. \A r \in Requests : Result(r)'
  BY <1>7 DEF AnswerInv, Result
<1>9. ASSUME NEW k \in Clients \ {c} PROVE Answer(k)'
  <2>1. Own(k) # Own(c)
    BY OwnIsDistinct
  <2>2. At(k, "wait") \/ At(k, "finish") => req'[Own(k)] = req[Own(k)]
    BY <1>7, <2>1, AnswerRequest DEF AnswerInv
  <2> QED
    BY <1>2, <1>6, <2>2, AnswerKept
<1>10. Own(c)' = Own(c)
  BY <1>2 DEF Own
<1>11. Answer(c)
  BY DEF AnswerInv
<1>12. Answer(c)'
  <2>1. CASE ~At(c, "wait")
    <3>1. h.got = got /\ h.pc = call[c].pc /\ h.pc # "wait"
      BY <1>5, <2>1 DEF At
    <3>2. CASE At(c, "finish")
      BY <1>2, <1>4, <1>6, <1>7, <1>10, <1>11, <3>1, <3>2 DEF Answer, At
    <3>3. CASE ~At(c, "finish")
      BY <1>6, <3>1, <3>3 DEF Answer, At
    <3> QED
      BY <3>2, <3>3
  <2>2. CASE At(c, "wait")
    <3>1. PICK n : n = Len(got)
      OBVIOUS
    <3>2. PICK m : m = req[Own(c)].made
      OBVIOUS
    <3>3. PICK l : l = Len(out)
      OBVIOUS
    <3>4. /\ got \in Seq(Nat) /\ out \in Seq(Nat) /\ n \in Nat /\ m \in Nat
          /\ l \in Nat /\ l >= 1
      BY <1>2, <1>3, <1>4, <2>2, <3>1, <3>2, <3>3, AnswerRequest, LenProperties,
         EmptySeq DEF AnswerInv
    <3>5. /\ n <= m /\ \A i \in 1 .. n : got[i] = i
          /\ \A i \in 1 .. l : out[i] = IF n + i <= m THEN n + i ELSE End
          /\ \/ n + l = m
             \/ n + l = m + 1 /\ req[Own(c)].stage \in {"ended", "done", "over"}
          /\ req[Own(c)].stage # "none"
      BY <1>2, <1>3, <1>4, <1>11, <2>2, <3>1, <3>2, <3>3 DEF Answer, Streamed
    <3>6. /\ Head(out) = out[1] /\ Tail(out) \in Seq(Nat) /\ Len(Tail(out)) = l - 1
          /\ \A i \in 1 .. l - 1 : Tail(out)[i] = out[i + 1]
      BY <1>2, <1>3, <3>3, <3>4, HeadTailProperties
    <3>7. CASE Head(out) # End
      <4>1. n + 1 <= m /\ Head(out) = n + 1
        <5>1. out[1] = IF n + 1 <= m THEN n + 1 ELSE End
          BY <3>4, <3>5
        <5> QED
          BY <3>6, <3>7, <5>1
      <4>2. PICK g : g = Append(got, n + 1)
        OBVIOUS
      <4>3. h.got = g /\ h.pc = "wait"
        BY <1>5, <2>2, <3>7, <4>1, <4>2 DEF At
      <4>4. Len(g) = n + 1 /\ \A i \in 1 .. n + 1 : g[i] = i
        <5>1. /\ Len(g) = n + 1 /\ g[n + 1] = n + 1
              /\ \A i \in 1 .. n : g[i] = got[i]
          BY <3>1, <3>4, <4>2, AppendProperties
        <5>2. ASSUME NEW i \in 1 .. n + 1 PROVE g[i] = i
          <6>1. CASE i = n + 1
            BY <5>1, <6>1
          <6>2. CASE i # n + 1
            <7>1. i \in 1 .. n
              BY <3>4, <6>2
            <7> QED
              BY <3>5, <5>1, <7>1
          <6> QED
            BY <6>1, <6>2
        <5> QED
          BY <5>1, <5>2
      <4>5. ASSUME NEW i \in 1 .. l - 1
            PROVE  Tail(out)[i] = IF (n + 1) + i <= m THEN (n + 1) + i ELSE End
        <5>1. i + 1 \in 1 .. l /\ n + (i + 1) = (n + 1) + i
          BY <3>4
        <5>2. out[i + 1] = IF n + (i + 1) <= m THEN n + (i + 1) ELSE End
          BY <3>5, <5>1
        <5> QED
          BY <3>6, <5>1, <5>2
      <4>6. (n + 1) + (l - 1) = n + l
        BY <3>4
      <4>7. /\ call'[c].got = g /\ call'[c].pc = "wait"
            /\ req'[Own(c)'].out = Tail(out) /\ req'[Own(c)'].made = m
            /\ req'[Own(c)'].stage = req[Own(c)].stage
        BY <1>2, <1>6, <1>7, <1>10, <3>2, <4>3
      <4>8. Streamed(c)'
        <5>1. /\ n + 1 <= m /\ \A i \in 1 .. n + 1 : g[i] = i
              /\ \A i \in 1 .. l - 1 :
                   Tail(out)[i] = IF (n + 1) + i <= m THEN (n + 1) + i ELSE End
              /\ \/ (n + 1) + (l - 1) = m
                 \/ /\ (n + 1) + (l - 1) = m + 1
                    /\ req[Own(c)].stage \in {"ended", "done", "over"}
          BY <3>5, <4>1, <4>4, <4>5, <4>6
        <5> QED
          BY <3>6, <4>4, <4>7, <5>1 DEF Streamed
      <4> QED
        BY <3>5, <4>7, <4>8 DEF Answer, At
    <3>8. CASE Head(out) = End
      <4>1. n = m
        <5>1. out[1] = IF n + 1 <= m THEN n + 1 ELSE End
          BY <3>4, <3>5
        <5>2. ~(n + 1 <= m)
          BY <3>4, <3>6, <3>8, <5>1 DEF End
        <5> QED
          BY <3>4, <3>5, <5>2
      <4>2. req[Own(c)].stage \in {"ended", "done", "over"}
        <5>1. n + l # m
          BY <3>4, <4>1
        <5> QED
          BY <3>5, <5>1
      <4>3. h.got = got /\ h.pc = "finish"
        BY <1>5, <2>2, <3>8 DEF At
      <4>4. /\ call'[c].got = got /\ call'[c].pc = "finish"
            /\ req'[Own(c)'].made = m
            /\ req'[Own(c)'].stage = req[Own(c)].stage
        BY <1>2, <1>6, <1>7, <1>10, <3>2, <4>3
      <4> QED
        BY <3>1, <3>5, <4>1, <4>2, <4>4 DEF Answer, At
    <3> QED
      BY <3>7, <3>8
  <2> QED
    BY <2>1, <2>2
<1> QED
  BY <1>1, <1>8, <1>9, <1>12 DEF AnswerInv

\* A token, and for the last one the end.
LEMMA StepAnswers ==
  ASSUME AnswerInv, NEW d \in Devices, NEW r \in active[d], Step(d, r)
  PROVE  AnswerInv'
<1>1. TurnInv' /\ HandlerInv
  BY StepTurns DEF AnswerInv, TurnInv, HomeInv, Next, Thread
<1>2. /\ r \in Requests /\ UNCHANGED <<call, calls>>
      /\ req[r].stage = "live"
      /\ \A p \in Requests \ {r} : req'[p] = req[p]
      /\ req'[r].failed = req[r].failed /\ req'[r].made = req[r].made + 1
      /\ \/ /\ req[r].made + 1 < MaxTokens /\ req'[r].stage = "live"
            /\ req'[r].out = req[r].out \o <<req[r].made + 1>>
         \/ /\ ~(req[r].made + 1 < MaxTokens) /\ req'[r].stage = "ended"
            /\ req'[r].out = req[r].out \o <<req[r].made + 1, End>>
  BY <1>1, StepHandlers
<1>3. PICK m : m = req[r].made
  OBVIOUS
<1>4. PICK out : out = req[r].out
  OBVIOUS
<1>5. PICK tail : tail = IF m + 1 < MaxTokens THEN <<m + 1>> ELSE <<m + 1, End>>
  OBVIOUS
<1>6. m \in Nat /\ out \in Seq(Nat)
  BY <1>1, <1>2, <1>3, <1>4 DEF HandlerInv, Types, RequestRecords
<1>7. m < MaxTokens
  BY <1>2, <1>3 DEF AnswerInv, Result
<1>8. Result(r)'
  <2>1. CASE m + 1 < MaxTokens
    BY <1>2, <1>3, <2>1 DEF Result
  <2>2. CASE ~(m + 1 < MaxTokens)
    <3>1. m + 1 = MaxTokens
      BY <1>6, <1>7, <2>2, Constants
    <3> QED
      BY <1>2, <1>3, <2>2, <3>1 DEF Result
  <2> QED
    BY <2>1, <2>2
<1>9. /\ tail \in Seq(Nat) /\ tail[1] = m + 1
      /\ \/ m + 1 < MaxTokens /\ Len(tail) = 1
         \/ ~(m + 1 < MaxTokens) /\ Len(tail) = 2 /\ tail[2] = End
  BY <1>5, <1>6 DEF End
<1>10. ASSUME NEW c \in Clients, Own(c) = r, ~At(c, "idle")
       PROVE  Answer(c)'
  <2>1. Answer(c) /\ Own(c)' = r
    BY <1>2, <1>10 DEF AnswerInv, Own
  <2>2. ~At(c, "finish")
    BY <1>2, <1>10, <2>1 DEF Answer
  <2>3. ASSUME At(c, "wait"), call[c].stream PROVE Streamed(c)'
    <3>1. PICK got : got = call[c].got
      OBVIOUS
    <3>2. PICK n : n = Len(got)
      OBVIOUS
    <3>3. PICK l : l = Len(out)
      OBVIOUS
    <3>4. n \in Nat /\ l \in Nat
      BY <1>6, <2>3, <3>1, <3>2, <3>3, AnswerRequest, LenProperties DEF AnswerInv
    <3>5. /\ n <= m /\ \A i \in 1 .. n : got[i] = i
          /\ \A i \in 1 .. l : out[i] = IF n + i <= m THEN n + i ELSE End
          /\ n + l = m
      BY <1>2, <1>3, <1>4, <1>10, <2>1, <2>3, <3>1, <3>2, <3>3
      DEF Answer, Streamed
    <3>6. PICK new : new = out \o tail
      OBVIOUS
    <3>7. /\ Len(new) = l + Len(tail)
          /\ \A i \in 1 .. l + Len(tail) :
               new[i] = IF i <= l THEN out[i] ELSE tail[i - l]
      BY <1>6, <1>9, <3>3, <3>6, ConcatProperties
    <3>8. ASSUME NEW i \in 1 .. Len(new)
          PROVE  new[i] = IF n + i <= m + 1 THEN n + i ELSE End
      <4>1. i \in 1 .. l + Len(tail) /\ i \in Nat /\ i >= 1
        BY <1>9, <3>4, <3>7
      <4>2. CASE i <= l
        <5>1. i \in 1 .. l /\ n + i <= m /\ n + i <= m + 1
          BY <1>6, <3>4, <3>5, <4>1, <4>2
        <5> QED
          BY <3>5, <3>7, <4>1, <4>2, <5>1
      <4>3. CASE i = l + 1
        <5>1. i - l = 1 /\ ~(i <= l) /\ n + i = m + 1
          BY <3>4, <3>5, <4>3
        <5>2. new[i] = tail[1]
          BY <3>7, <4>1, <5>1
        <5> QED
          BY <1>6, <1>9, <5>1, <5>2
      <4>4. CASE i # l + 1 /\ ~(i <= l)
        <5>1. Len(tail) = 2 /\ i = l + 2
          <6>1. CASE Len(tail) = 1
            <7>1. i \in 1 .. l + 1
              BY <4>1, <6>1
            <7> QED
              BY ONLY <3>4, <4>4, <7>1
          <6>2. CASE Len(tail) = 2
            <7>1. i \in 1 .. l + 2
              BY <4>1, <6>2
            <7>2. i = l + 2
              BY ONLY <3>4, <4>4, <7>1
            <7> QED
              BY <6>2, <7>2
          <6> QED
            BY <1>9, <6>1, <6>2
        <5>2. i - l = 2 /\ n + i = m + 2
          BY <3>4, <3>5, <5>1
        <5>3. new[i] = tail[2]
          BY <3>7, <4>1, <4>4, <5>2
        <5>4. tail[2] = End /\ ~(n + i <= m + 1)
          BY <1>6, <1>9, <5>1, <5>2
        <5> QED
          BY <5>3, <5>4
      <4> QED
        BY <4>2, <4>3, <4>4
    <3>9. /\ req'[r].out = new /\ req'[r].made = m + 1
          /\ call'[c].got = got
          /\ req'[r].stage = IF m + 1 < MaxTokens THEN "live" ELSE "ended"
      BY <1>2, <1>3, <1>4, <1>5, <3>1, <3>6
    <3>10. \/ n + Len(new) = m + 1
           \/ n + Len(new) = (m + 1) + 1 /\ req'[r].stage = "ended"
      <4>1. CASE m + 1 < MaxTokens
        <5>1. Len(new) = l + 1
          BY <1>9, <3>7, <4>1
        <5> QED
          BY <1>6, <3>4, <3>5, <5>1
      <4>2. CASE ~(m + 1 < MaxTokens)
        <5>1. Len(new) = l + 2 /\ req'[r].stage = "ended"
          BY <1>9, <3>7, <3>9, <4>2
        <5>2. n + Len(new) = (m + 1) + 1
          BY <1>6, <3>4, <3>5, <5>1
        <5> QED
          BY <5>1, <5>2
      <4> QED
        BY <4>1, <4>2
    <3>11. n <= m + 1
      BY <1>6, <3>4, <3>5
    <3> QED
      BY <2>1, <3>2, <3>5, <3>8, <3>9, <3>10, <3>11 DEF Streamed
  <2>4. /\ call'[c] = call[c]
        /\ req'[r].stage # "none"
    BY <1>2
  <2> QED
    BY <2>1, <2>2, <2>3, <2>4 DEF Answer, At
<1> QED
  BY <1>1, <1>2, <1>8, <1>10, FurtherAnswers

\* An error: the stream ends where it is.
LEMMA FailAnswers ==
  ASSUME AnswerInv, NEW d \in Devices, NEW r \in active[d], Fail(d, r)
  PROVE  AnswerInv'
<1>1. TurnInv' /\ HandlerInv
  BY StepTurns DEF AnswerInv, TurnInv, HomeInv, Next, Thread
<1>2. /\ r \in Requests /\ UNCHANGED <<call, calls>>
      /\ req[r].stage = "live"
      /\ \A p \in Requests \ {r} : req'[p] = req[p]
      /\ req'[r].failed /\ req'[r].made = req[r].made /\ req'[r].stage = "ended"
      /\ req'[r].out = Append(req[r].out, End)
  BY <1>1, FailHandlers
<1>3. PICK m : m = req[r].made
  OBVIOUS
<1>4. PICK out : out = req[r].out
  OBVIOUS
<1>5. m \in Nat /\ out \in Seq(Nat)
  BY <1>1, <1>2, <1>3, <1>4 DEF HandlerInv, Types, RequestRecords
<1>6. Result(r)'
  BY <1>2 DEF Result
<1>7. ASSUME NEW c \in Clients, Own(c) = r, ~At(c, "idle")
      PROVE  Answer(c)'
  <2>1. Answer(c) /\ Own(c)' = r
    BY <1>2, <1>7 DEF AnswerInv, Own
  <2>2. ~At(c, "finish")
    BY <1>2, <1>7, <2>1 DEF Answer
  <2>3. ASSUME At(c, "wait"), call[c].stream PROVE Streamed(c)'
    <3>1. PICK got : got = call[c].got
      OBVIOUS
    <3>2. PICK n : n = Len(got)
      OBVIOUS
    <3>3. PICK l : l = Len(out)
      OBVIOUS
    <3>4. n \in Nat /\ l \in Nat
      BY <1>5, <2>3, <3>1, <3>2, <3>3, AnswerRequest, LenProperties DEF AnswerInv
    <3>5. /\ n <= m /\ \A i \in 1 .. n : got[i] = i
          /\ \A i \in 1 .. l : out[i] = IF n + i <= m THEN n + i ELSE End
          /\ n + l = m
      BY <1>2, <1>3, <1>4, <1>7, <2>1, <2>3, <3>1, <3>2, <3>3
      DEF Answer, Streamed
    <3>6. PICK new : new = Append(out, End)
      OBVIOUS
    <3>7. /\ Len(new) = l + 1 /\ new[l + 1] = End
          /\ \A i \in 1 .. l : new[i] = out[i]
      <4>1. End \in Nat
        BY DEF End
      <4> QED
        BY <1>5, <3>3, <3>6, <4>1, AppendProperties
    <3>8. ASSUME NEW i \in 1 .. Len(new)
          PROVE  new[i] = IF n + i <= m THEN n + i ELSE End
      <4>1. i \in 1 .. l + 1
        BY <3>7
      <4>2. CASE i = l + 1
        <5>1. ~(n + i <= m)
          BY <1>5, <3>4, <3>5, <4>2
        <5> QED
          BY <3>7, <4>2, <5>1
      <4>3. CASE i # l + 1
        <5>1. i \in 1 .. l
          BY <3>4, <4>1, <4>3
        <5> QED
          BY <3>5, <3>7, <5>1
      <4> QED
        BY <4>2, <4>3
    <3>9. /\ req'[r].out = new /\ req'[r].made = m
          /\ call'[c].got = got /\ req'[r].stage = "ended"
      BY <1>2, <1>3, <1>4, <3>1, <3>6
    <3>10. n + Len(new) = m + 1
      <4>1. Len(new) = l + 1 /\ n + l = m
        BY <3>5, <3>7
      <4> QED
        BY ONLY <1>5, <3>4, <4>1
    <3> QED
      BY <2>1, <3>2, <3>5, <3>8, <3>9, <3>10 DEF Streamed
  <2>4. /\ call'[c] = call[c]
        /\ req'[r].stage # "none"
    BY <1>2
  <2> QED
    BY <2>1, <2>2, <2>3, <2>4 DEF Answer, At
<1> QED
  BY <1>1, <1>2, <1>6, <1>7, FurtherAnswers

\* The done event, or the end of _retire: the request keeps what it has.
LEMMA RetireAnswers ==
  ASSUME AnswerInv, NEW d \in Devices, NEW r \in active[d], Retire(d, r)
  PROVE  AnswerInv'
<1>1. TurnInv' /\ HandlerInv
  BY StepTurns DEF AnswerInv, TurnInv, HomeInv, Next, Thread
<1>2. /\ r \in Requests /\ UNCHANGED <<call, calls>>
      /\ req[r].stage \in {"ended", "done"}
      /\ \A p \in Requests \ {r} : req'[p] = req[p]
      /\ \/ /\ req'[r].failed = req[r].failed /\ req'[r].made = req[r].made
            /\ req'[r].out = req[r].out /\ req'[r].stage \in {"done", "over"}
         \/ /\ req'[r] = NoRequest
            /\ \A c \in Clients : Own(c) = r => At(c, "idle")
  BY <1>1, DoneHandlers, LeaveHandlers DEF Retire
<1>3. NoRequest.stage = "none"
  BY DEF NoRequest
<1>4. Result(r)'
  BY <1>2, <1>3 DEF AnswerInv, Result
<1>5. ASSUME NEW c \in Clients, Own(c) = r, ~At(c, "idle")
      PROVE  Answer(c)'
  <2>1. Answer(c) /\ Own(c)' = r
    BY <1>2, <1>5 DEF AnswerInv, Own
  <2>2. /\ req'[r].failed = req[r].failed /\ req'[r].made = req[r].made
        /\ req'[r].out = req[r].out /\ req'[r].stage \in {"done", "over"}
    BY <1>2, <1>5
  <2>3. Streamed(c) => Streamed(c)'
    BY <1>2, <1>5, <2>1, <2>2 DEF Streamed
  <2> QED
    BY <1>2, <1>5, <2>1, <2>2, <2>3 DEF Answer, At
<1> QED
  BY <1>1, <1>2, <1>4, <1>5, FurtherAnswers

LEMMA StopAnswers ==
  ASSUME AnswerInv, Stop
  PROVE  AnswerInv'
<1>1. TurnInv' /\ HandlerInv
  BY StepTurns DEF AnswerInv, TurnInv, HomeInv, Next
<1>2. /\ main = "stopping" /\ UNCHANGED call
      /\ \A r \in Requests :
           /\ req'[r].made = req[r].made
           /\ \/ req'[r].failed /\ req'[r].stage \in {"over", "done"}
              \/ req'[r] = req[r]
  BY <1>1, StopHandlers
<1>3. \A r \in Requests : Result(r)'
  BY <1>2 DEF AnswerInv, Result
<1>4. \A c \in Clients : call'[c].pc = "idle"
  BY <1>2 DEF AnswerInv, TurnInv, Shutdown, At
<1> QED
  BY <1>1, <1>3, <1>4 DEF AnswerInv, Answer, At

LEMMA CutAnswers ==
  ASSUME AnswerInv, Cut
  PROVE  AnswerInv'
<1>1. TurnInv' /\ HandlerInv
  BY StepTurns DEF AnswerInv, TurnInv, HomeInv, Next
<1>2. UNCHANGED req /\ \A c \in Clients : call'[c].pc = "idle"
  BY <1>1, CutHandlers
<1> QED
  BY <1>1, <1>2 DEF AnswerInv, Answer, Result, At

LEMMA StepsAnswers ==
  ASSUME AnswerInv, [Next]_vars
  PROVE  AnswerInv'
<1>1. HandlerInv /\ TurnInv'
  BY StepTurns DEF AnswerInv, TurnInv, HomeInv
<1>2. CASE UNCHANGED vars
  BY <1>1, <1>2, AnswersKept DEF vars
<1>3. ASSUME NEW c \in Clients, Arrive(c) PROVE AnswerInv'
  BY <1>3, ArriveAnswers
<1>4. ASSUME NEW c \in Clients, Handler(c) PROVE AnswerInv'
  BY <1>1, <1>4, HandlerAnswers, SubmitAnswers, FinishAnswers DEF Handler
<1>5. ASSUME NEW c \in Clients, Waited(c) \/ Got(c) PROVE AnswerInv'
  BY <1>5, WaitedAnswers, GotAnswers
<1>6. CASE Take
  BY <1>1, <1>6, TakeHandlers, AnswersKept
<1>7. ASSUME NEW d \in Devices, Thread(d) PROVE AnswerInv'
  <2>1. CASE Admit(d)
    BY <1>1, <2>1, AdmitHandlers, AnswersKept
  <2> QED
    BY <1>7, <2>1, StepAnswers, FailAnswers, RetireAnswers DEF Thread
<1>8. CASE Close \/ Returns
  BY <1>1, <1>8, MainHandlers, AnswersKept
<1>9. CASE Cut
  BY <1>9, CutAnswers
<1>10. CASE Stop
  BY <1>10, StopAnswers
<1> QED
  BY <1>2, <1>3, <1>4, <1>5, <1>6, <1>7, <1>8, <1>9, <1>10 DEF Next

\* AnswerInv is inductive.
LEMMA AnswersHold == Spec => []AnswerInv
BY InitAnswers, StepsAnswers, PTL DEF Spec

\* No KeyError about a session that lives.
LEMMA NoSessionMissed ==
  ASSUME HomeInv
  PROVE  NoFalse404
<1> SUFFICES ASSUME NEW c \in Clients, KeyError(c), NEW d \in Devices,
                    call[c].session \in sessions[d]
             PROVE  FALSE
  BY DEF NoFalse404
<1> DEFINE s == call[c].session
<1>1. known \subseteq Sessions /\ NoDevice \notin Devices /\ NoSession \notin Sessions
  BY Constants DEF HomeInv, HandlerInv, Types
<1>2. CASE At(c, "owner") /\ owner[s] = NoDevice
  <2>1. s \in known
    BY <1>2 DEF HomeInv, HandlerInv, Handlers, Progress, At
  <2> QED
    BY <1>1, <1>2, <2>1 DEF HomeInv, Homes
<1>3. CASE At(c, "delete") /\ s \notin sessions[Device(c)]
  BY <1>3 DEF HomeInv, Errands
<1>4. CASE At(c, "submit") /\ s # NoSession /\ s \notin sessions[Device(c)]
  BY <1>4 DEF HomeInv, Errands
<1> QED
  BY <1>2, <1>3, <1>4 DEF KeyError

\* What a stream has sent, and what its queue holds but for the end, are the
\* tokens made.
LEMMA StreamIsWhole ==
  ASSUME AnswerInv, NEW c \in Clients, At(c, "wait"), call[c].stream
  PROVE  LET r == req[Own(c)]
             ended == r.out # <<>> /\ Last(r.out) = End
         IN  call[c].got \o (IF ended THEN Front(r.out) ELSE r.out)
               = [i \in 1 .. r.made |-> i]
<1>1. PICK m : m = req[Own(c)].made
  OBVIOUS
<1>2. PICK out : out = req[Own(c)].out
  OBVIOUS
<1>3. PICK got : got = call[c].got
  OBVIOUS
<1>4. PICK n : n = Len(got)
  OBVIOUS
<1>5. PICK l : l = Len(out)
  OBVIOUS
<1>6. /\ m \in Nat /\ out \in Seq(Nat) /\ got \in Seq(Nat) /\ n \in Nat /\ l \in Nat
  BY <1>1, <1>2, <1>3, <1>4, <1>5, AnswerRequest, LenProperties DEF AnswerInv
<1>7. /\ n <= m /\ \A i \in 1 .. n : got[i] = i
      /\ \A i \in 1 .. l : out[i] = IF n + i <= m THEN n + i ELSE End
      /\ n + l = m \/ n + l = m + 1
  BY <1>1, <1>2, <1>3, <1>4, <1>5 DEF AnswerInv, Answer, Streamed
<1>8. PICK rest : rest = IF out # <<>> /\ Last(out) = End THEN Front(out) ELSE out
  OBVIOUS
<1>9. /\ rest \in Seq(Nat) /\ Len(rest) = m - n
      /\ \A i \in 1 .. m - n : rest[i] = out[i]
  <2>1. CASE n + l = m
    <3>1. ~(out # <<>> /\ Last(out) = End)
      <4> SUFFICES ASSUME out # <<>>, Last(out) = End PROVE FALSE
        OBVIOUS
      <4>1. l \in 1 .. l
        BY <1>5, <1>6, EmptySeq
      <4>2. out[l] = n + l
        BY <1>6, <1>7, <2>1, <4>1
      <4>3. Last(out) = out[l]
        BY <1>5 DEF Last
      <4> QED
        BY <1>6, <4>1, <4>2, <4>3 DEF End
    <3>2. rest = out
      BY <1>8, <3>1
    <3>3. l = m - n
      BY <1>6, <2>1
    <3> QED
      BY <1>5, <1>6, <3>2, <3>3
  <2>2. CASE n + l = m + 1
    <3>1. l \in 1 .. l /\ ~(n + l <= m) /\ l >= 1 /\ l - 1 = m - n
      BY <1>6, <1>7, <2>2
    <3>2. out # <<>>
      BY <1>5, <3>1, EmptySeq
    <3>3. Last(out) = End
      <4>1. out[l] = End
        BY <1>7, <3>1
      <4> QED
        BY <1>5, <4>1 DEF Last
    <3>4. rest = SubSeq(out, 1, l - 1)
      BY <1>5, <1>8, <3>2, <3>3 DEF Front
    <3>5. /\ rest \in Seq(Nat) /\ Len(rest) = l - 1
          /\ \A i \in 1 .. l - 1 : rest[i] = out[i]
      BY <1>5, <1>6, <3>1, <3>4
    <3> QED
      BY <3>1, <3>5
  <2> QED
    BY <1>7, <2>1, <2>2
<1>10. PICK s : s = got \o rest
  OBVIOUS
<1>11. /\ s \in Seq(Nat) /\ Len(s) = n + (m - n)
       /\ \A i \in 1 .. n + (m - n) : s[i] = IF i <= n THEN got[i] ELSE rest[i - n]
  BY <1>4, <1>6, <1>9, <1>10, ConcatProperties
<1>12. n + (m - n) = m
  BY <1>6
<1>13. ASSUME NEW i \in 1 .. m PROVE s[i] = i
  <2>1. CASE i <= n
    BY <1>6, <1>7, <1>11, <1>12, <2>1
  <2>2. CASE ~(i <= n)
    <3>1. i - n \in 1 .. m - n /\ i - n \in 1 .. l /\ n + (i - n) = i /\ i <= m
      BY <1>6, <1>7, <2>2
    <3>2. s[i] = out[i - n]
      BY <1>9, <1>11, <1>12, <2>2, <3>1
    <3>3. out[i - n] = IF n + (i - n) <= m THEN n + (i - n) ELSE End
      BY <1>7, <3>1
    <3> QED
      BY <3>1, <3>2, <3>3
  <2> QED
    BY <2>1, <2>2
<1>14. s \in [1 .. m -> Nat]
  BY <1>11, <1>12, LenProperties
<1>15. s = [i \in 1 .. m |-> i]
  BY <1>13, <1>14
<1> QED
  BY <1>1, <1>2, <1>3, <1>8, <1>10, <1>15

\* create_completion and the streams of app.py: a 404 is about a session that
\* does not live, a 200 or the end of a stream without an error event comes with
\* every token of the request, once and in order, and a stream under way is a
\* prefix of that; whatever else the server does meanwhile, shutdown included.
THEOREM AnswersAreGood == Spec => []AnswersAreTrue
<1>1. AnswerInv => AnswersAreTrue
  <2> SUFFICES ASSUME AnswerInv PROVE AnswersAreTrue
    OBVIOUS
  <2>1. NoFalse404
    BY NoSessionMissed DEF AnswerInv, TurnInv
  <2>2. ASSUME NEW c \in Clients, At(c, "finish"), ~req[Own(c)].failed
        PROVE  /\ call[c].stream => call[c].got = [i \in 1 .. req[Own(c)].made |-> i]
               /\ req[Own(c)].made = MaxTokens
    <3>1. /\ Own(c) \in Requests /\ req[Own(c)].made \in Nat /\ call[c].got \in Seq(Nat)
      BY <2>2, AnswerRequest DEF AnswerInv
    <3>2. /\ req[Own(c)].stage \in {"ended", "done", "over"}
          /\ call[c].stream =>
               /\ Len(call[c].got) = req[Own(c)].made
               /\ \A i \in 1 .. req[Own(c)].made : call[c].got[i] = i
      BY <2>2 DEF AnswerInv, Answer
    <3>3. req[Own(c)].made = MaxTokens
      BY <2>2, <3>1, <3>2 DEF AnswerInv, Result
    <3>4. ASSUME call[c].stream
          PROVE  call[c].got = [i \in 1 .. req[Own(c)].made |-> i]
      <4>1. DOMAIN call[c].got = 1 .. req[Own(c)].made
        BY <3>1, <3>2, <3>4, LenProperties
      <4>2. PICK got \in Seq(Nat) : got = call[c].got
        BY <3>1
      <4> QED
        BY <3>2, <3>4, <4>1, <4>2
    <3> QED
      BY <3>3, <3>4
  <2>3. AnswersAreWhole
    BY <2>2, StreamIsWhole DEF AnswersAreWhole
  <2> QED
    BY <2>1, <2>3 DEF AnswersAreTrue
<1> QED
  BY <1>1, AnswersHold, PTL
=============================================================================
