-------------------------- MODULE Scheduler_proofs --------------------------
(***************************************************************************)
(* Proofs about Scheduler, for every number of callers, requests, sessions *)
(* and slots: where a request is (HomeInv), how far the queue overshoots   *)
(* (Reserved), what _retire leaves between its statements (RetireInv); who *)
(* holds a session (Turns), the history a turn extends (HistoryInv), that  *)
(* the two make Scheduler a TurnService (ServiceInv).                      *)
(***************************************************************************)
EXTENDS Scheduler, FiniteSetTheorems, SequenceTheorems, WellFoundedInduction,
        TLAPS

\* The requests _retire or stop() has begun to answer.
Answered == ({retiring} \ {None}) \cup sentinel \cup done

\* The requests that were put: waiting, in a snapshot, or answered.
Known == ToSet(Pipeline) \cup ToSet(snapshot) \cup Answered

\* A caller inside a call has a request of its own, which was not put yet.
OwnRequests ==
  /\ \A c \in Callers :
       pc[c] # "ready" => /\ arg[c] \in Requests \ Known
                          /\ session[arg[c]] # None
  /\ \A c, d \in Callers :
       pc[c] # "ready" /\ pc[d] # "ready" /\ arg[c] = arg[d] => c = d
  /\ \A r \in Known : session[r] # None

\* Outside its rounds the scheduler thread has no snapshot.
RoundLocals ==
  tpc \notin {"round", "dead"} =>
    snapshot = <<>> /\ fresh = {} /\ ready = {} /\ group = {}
-----------------------------------------------------------------------------
(* Sequences *)

\* A set of natural numbers has a least element.
LEMMA NatMin ==
  ASSUME NEW S \in SUBSET Nat, S # {}
  PROVE  Min(S) \in S /\ \A x \in S : Min(S) <= x
<1> DEFINE R == OpToRel(<, Nat)
<1>1. IsWellFoundedOn(R, Nat)
  BY NatLessThanWellFounded, Zenon
<1>2. ASSUME NEW x \in Nat, NEW y \in Nat, <<y, x>> \notin R
      PROVE  x <= y
  <2>1. <<y, x>> \in Nat \X Nat /\ ~(y < x)
    BY <1>2, Zenon DEF OpToRel
  <2> QED
    BY <2>1
<1> HIDE DEF R
<1>3. PICK x \in S : \A y \in S : <<y, x>> \notin R
  BY <1>1, WFMin
<1>4. \A y \in S : x <= y
  BY <1>2, <1>3
<1> QED
  BY <1>4, Zenon DEF Min

\* RemoveFirst removes one position, which holds e.
LEMMA RemoveFirstIsRemoveAt ==
  ASSUME NEW S, NEW s \in Seq(S), NEW e, e \in ToSet(s)
  PROVE  \E i \in 1 .. Len(s) : s[i] = e /\ RemoveFirst(s, e) = RemoveAt(s, i)
<1> DEFINE I == {i \in 1 .. Len(s) : s[i] = e}
<1>1. I # {} /\ I \in SUBSET Nat
  BY DEF ToSet
<1>2. Min(I) \in I
  <2> HIDE DEF I
  <2> QED
    BY <1>1, NatMin
<1>3. \E i \in 1 .. Len(s) : s[i] = e
  BY <1>1
<1>4. RemoveFirst(s, e) = RemoveAt(s, Min(I))
  BY <1>1, <1>3 DEF RemoveFirst, SelectInSeq
<1> QED
  BY <1>2, <1>4

\* Removing a position leaves a sequence of the other elements, in their order.
LEMMA RemoveAtProperties ==
  ASSUME NEW S, NEW s \in Seq(S), NEW i \in 1 .. Len(s)
  PROVE  /\ RemoveAt(s, i) \in Seq(S)
         /\ Len(RemoveAt(s, i)) = Len(s) - 1
         /\ \A k \in 1 .. Len(s) - 1 :
              RemoveAt(s, i)[k] = IF k < i THEN s[k] ELSE s[k + 1]
<1> DEFINE a == SubSeq(s, 1, i - 1)
           b == SubSeq(s, i + 1, Len(s))
<1>1. a \in Seq(S) /\ Len(a) = i - 1 /\ \A k \in 1 .. i - 1 : a[k] = s[k]
  BY SubSeqProperties
<1>2. /\ b \in Seq(S) /\ Len(b) = Len(s) - i
      /\ \A k \in 1 .. Len(s) - i : b[k] = s[i + k]
  BY SubSeqProperties
<1>3. RemoveAt(s, i) = a \o b
  BY DEF RemoveAt
<1> HIDE DEF a, b
<1>4. /\ a \o b \in Seq(S)
      /\ Len(a \o b) = Len(a) + Len(b)
      /\ \A k \in 1 .. Len(a) + Len(b) :
           (a \o b)[k] = IF k <= Len(a) THEN a[k] ELSE b[k - Len(a)]
  BY <1>1, <1>2, ConcatProperties
<1>5. Len(a) + Len(b) = Len(s) - 1
  BY <1>1, <1>2
<1>6. ASSUME NEW k \in 1 .. Len(s) - 1
      PROVE  (a \o b)[k] = IF k < i THEN s[k] ELSE s[k + 1]
  <2>1. CASE k < i
    <3>1. (a \o b)[k] = a[k]
      BY <1>1, <1>4, <1>5, <2>1
    <3>2. a[k] = s[k]
      BY <1>1, <2>1
    <3> QED
      BY <2>1, <3>1, <3>2
  <2>2. CASE k >= i
    <3>1. (a \o b)[k] = b[k - (i - 1)]
      BY <1>1, <1>4, <1>5, <2>2
    <3>2. k - (i - 1) \in 1 .. Len(s) - i
      BY <2>2
    <3>3. b[k - (i - 1)] = s[i + (k - (i - 1))]
      BY <1>2, <3>2
    <3>4. i + (k - (i - 1)) = k + 1
      OBVIOUS
    <3> QED
      BY <2>2, <3>1, <3>3, <3>4
  <2>3. k < i \/ k >= i
    OBVIOUS
  <2> QED
    BY <2>1, <2>2, <2>3, Zenon
<1> QED
  BY <1>3, <1>4, <1>5, <1>6

\* What _active.remove does to a list without duplicates.
LEMMA RemoveFirstProperties ==
  ASSUME NEW S, NEW s \in Seq(S), NEW e
  PROVE  /\ RemoveFirst(s, e) \in Seq(S)
         /\ Len(RemoveFirst(s, e)) <= Len(s)
         /\ ToSet(s) \ {e} \subseteq ToSet(RemoveFirst(s, e))
         /\ ToSet(RemoveFirst(s, e)) \subseteq ToSet(s)
         /\ IsInjective(s) => /\ IsInjective(RemoveFirst(s, e))
                              /\ e \notin ToSet(RemoveFirst(s, e))
<1>1. CASE e \in ToSet(s)
  <2>1. PICK i \in 1 .. Len(s) : s[i] = e /\ RemoveFirst(s, e) = RemoveAt(s, i)
    BY <1>1, RemoveFirstIsRemoveAt
  <2> DEFINE t == RemoveFirst(s, e)
  <2>2. /\ t \in Seq(S)
        /\ Len(t) = Len(s) - 1
        /\ \A k \in 1 .. Len(s) - 1 : t[k] = IF k < i THEN s[k] ELSE s[k + 1]
    BY <2>1, RemoveAtProperties
  <2> HIDE DEF t
  <2>3. Len(t) <= Len(s)
    BY <2>2
  <2>4. ASSUME NEW k \in 1 .. Len(s), s[k] # e PROVE s[k] \in ToSet(t)
    <3>1. CASE k < i
      BY <2>2, <3>1 DEF ToSet
    <3>2. CASE k > i
      <4>1. k - 1 \in 1 .. Len(t) /\ t[k - 1] = s[k]
        BY <2>2, <3>2
      <4> QED
        BY <2>2, <4>1 DEF ToSet
    <3> QED
      BY <2>1, <2>4, <3>1, <3>2
  <2>5. ToSet(s) \ {e} \subseteq ToSet(t)
    BY <2>4 DEF ToSet
  <2>6. ToSet(t) \subseteq ToSet(s)
    BY <2>2 DEF ToSet
  <2>7. ASSUME IsInjective(s)
        PROVE  IsInjective(t) /\ e \notin ToSet(t)
    <3>1. \A j, k \in 1 .. Len(s) : s[j] = s[k] => j = k
      BY <2>7 DEF IsInjective
    <3>2. ASSUME NEW j \in 1 .. Len(t), NEW k \in 1 .. Len(t), t[j] = t[k]
          PROVE  j = k
      <4> DEFINE pos(n) == IF n < i THEN n ELSE n + 1
      <4>1. \A n \in 1 .. Len(t) : t[n] = s[pos(n)] /\ pos(n) \in 1 .. Len(s)
        BY <2>2
      <4>2. pos(j) = pos(k)
        <5> HIDE DEF pos
        <5> QED
          BY <3>1, <3>2, <4>1
      <4> QED
        BY <4>2
    <3>3. ASSUME NEW k \in 1 .. Len(t), t[k] = e
          PROVE  FALSE
      BY <2>1, <2>2, <3>1, <3>3
    <3> QED
      BY <2>2, <3>2, <3>3 DEF IsInjective, ToSet
  <2> QED
    BY <2>2, <2>3, <2>5, <2>6, <2>7 DEF t
<1>2. CASE e \notin ToSet(s)
  <2>1. RemoveFirst(s, e) = s
    BY <1>2 DEF RemoveFirst, ToSet
  <2> QED
    BY <1>2, <2>1
<1> QED
  BY <1>1, <1>2

\* Putting an element at the end of a sequence.
LEMMA AppendSet ==
  ASSUME NEW S, NEW s \in Seq(S), NEW e \in S
  PROVE  /\ ToSet(Append(s, e)) = ToSet(s) \cup {e}
         /\ IsInjective(s) /\ e \notin ToSet(s) => IsInjective(Append(s, e))
<1> DEFINE t == Append(s, e)
<1>1. /\ t \in Seq(S) /\ Len(t) = Len(s) + 1
      /\ \A i \in 1 .. Len(s) : t[i] = s[i]
      /\ t[Len(s) + 1] = e
  BY AppendProperties
<1>2. DOMAIN t = 1 .. Len(s) + 1 /\ DOMAIN s = 1 .. Len(s) /\ Len(s) \in Nat
  BY <1>1, LenProperties
<1> HIDE DEF t
<1>3. 1 .. Len(s) + 1 = (1 .. Len(s)) \cup {Len(s) + 1}
  BY <1>2
<1>4. ToSet(t) = ToSet(s) \cup {e}
  BY <1>1, <1>2, <1>3 DEF ToSet
<1>5. ASSUME IsInjective(s), e \notin ToSet(s) PROVE IsInjective(t)
  BY <1>1, <1>2, <1>3, <1>5 DEF ToSet, IsInjective
<1> QED
  BY <1>4, <1>5 DEF t

\* Taking the first element off a sequence.
LEMMA HeadTailSet ==
  ASSUME NEW S, NEW s \in Seq(S), s # <<>>
  PROVE  /\ Head(s) \in S /\ Tail(s) \in Seq(S)
         /\ Len(Tail(s)) = Len(s) - 1
         /\ ToSet(s) = ToSet(Tail(s)) \cup {Head(s)}
         /\ IsInjective(s) => /\ IsInjective(Tail(s))
                              /\ Head(s) \notin ToSet(Tail(s))
<1> DEFINE t == Tail(s)
<1>1. /\ Head(s) \in S /\ t \in Seq(S) /\ Len(t) = Len(s) - 1
      /\ \A i \in 1 .. Len(t) : t[i] = s[i + 1]
  BY HeadTailProperties
<1>2. Head(s) = s[1] /\ DOMAIN s = 1 .. Len(s) /\ Len(s) \in Nat \ {0}
      /\ DOMAIN t = 1 .. Len(t)
  BY <1>1, LenProperties, EmptySeq
<1> HIDE DEF t
<1>3. ASSUME NEW i \in 1 .. Len(s), i # 1 PROVE i - 1 \in 1 .. Len(t) /\ s[i] = t[i - 1]
  BY <1>1, <1>2, <1>3
<1>4. ToSet(s) \subseteq ToSet(t) \cup {Head(s)}
  BY <1>2, <1>3 DEF ToSet
<1>5. ToSet(t) \cup {Head(s)} \subseteq ToSet(s)
  <2>1. Head(s) \in ToSet(s)
    BY <1>2 DEF ToSet
  <2>2. \A i \in 1 .. Len(t) : i + 1 \in 1 .. Len(s)
    BY <1>1, <1>2
  <2>3. \A i \in 1 .. Len(t) : t[i] \in ToSet(s)
    BY <1>1, <1>2, <2>2 DEF ToSet
  <2>4. ToSet(t) \subseteq ToSet(s)
    BY <1>2, <2>3 DEF ToSet
  <2> QED
    BY <2>1, <2>4
<1>6. ASSUME IsInjective(s) PROVE IsInjective(t) /\ Head(s) \notin ToSet(t)
  <2>1. \A i \in 1 .. Len(t) : i + 1 \in 1 .. Len(s) /\ i + 1 # 1
    BY <1>1, <1>2
  <2>2. IsInjective(t)
    <3>1. SUFFICES ASSUME NEW i \in 1 .. Len(t), NEW j \in 1 .. Len(t), t[i] = t[j]
                   PROVE  i = j
      BY <1>2 DEF IsInjective
    <3>2. i + 1 = j + 1
      BY <1>1, <1>2, <1>6, <2>1, <3>1 DEF IsInjective
    <3> QED
      BY <3>2
  <2>3. ASSUME NEW i \in 1 .. Len(t) PROVE t[i] # Head(s)
    <3>1. t[i] = s[i + 1] /\ i + 1 \in DOMAIN s /\ i + 1 # 1 /\ 1 \in DOMAIN s
      BY <1>1, <1>2, <2>1
    <3> QED
      BY <1>2, <1>6, <3>1 DEF IsInjective
  <2> QED
    BY <1>2, <2>2, <2>3 DEF ToSet
<1> QED
  BY <1>1, <1>4, <1>5, <1>6 DEF t

\* A concatenation has no duplicates if its parts have none and are apart.
LEMMA ConcatSet ==
  ASSUME NEW S, NEW s \in Seq(S), NEW t \in Seq(S)
  PROVE  /\ ToSet(s \o t) = ToSet(s) \cup ToSet(t)
         /\ IsInjective(s \o t) <=> /\ IsInjective(s) /\ IsInjective(t)
                                    /\ ToSet(s) \cap ToSet(t) = {}
<1> DEFINE u == s \o t
           m == Len(s)
           n == Len(t)
<1>1. /\ u \in Seq(S) /\ Len(u) = m + n
      /\ \A i \in 1 .. m + n : u[i] = IF i <= m THEN s[i] ELSE t[i - m]
  BY ConcatProperties
<1>2. /\ m \in Nat /\ n \in Nat
      /\ DOMAIN s = 1 .. m /\ DOMAIN t = 1 .. n /\ DOMAIN u = 1 .. m + n
  BY <1>1, LenProperties
<1> HIDE DEF u, m, n
<1>3. \A i \in 1 .. m : i \in 1 .. m + n /\ u[i] = s[i]
  BY <1>1, <1>2
<1>4. \A i \in 1 .. n : m + i \in 1 .. m + n /\ u[m + i] = t[i]
  <2> SUFFICES ASSUME NEW i \in 1 .. n
               PROVE  m + i \in 1 .. m + n /\ u[m + i] = t[i]
    OBVIOUS
  <2>1. m + i \in 1 .. m + n /\ ~(m + i <= m) /\ (m + i) - m = i
    BY <1>2
  <2> QED
    BY <1>1, <2>1
<1>5. \A i \in 1 .. m + n : i \in 1 .. m \/ \E j \in 1 .. n : i = m + j
  <2> SUFFICES ASSUME NEW i \in 1 .. m + n, i \notin 1 .. m
               PROVE  \E j \in 1 .. n : i = m + j
    OBVIOUS
  <2>1. i - m \in 1 .. n /\ i = m + (i - m)
    BY <1>2
  <2> QED
    BY <2>1
<1>6. ToSet(u) = ToSet(s) \cup ToSet(t)
  <2>1. \A x \in ToSet(u) : x \in ToSet(s) \cup ToSet(t)
    <3> SUFFICES ASSUME NEW i \in 1 .. m + n
                 PROVE  u[i] \in ToSet(s) \cup ToSet(t)
      BY <1>2 DEF ToSet
    <3>1. CASE i \in 1 .. m
      BY <1>2, <1>3, <3>1 DEF ToSet
    <3>2. CASE \E j \in 1 .. n : i = m + j
      BY <1>2, <1>4, <3>2 DEF ToSet
    <3> QED
      BY <1>5, <3>1, <3>2
  <2>2. \A x \in ToSet(s) : x \in ToSet(u)
    BY <1>2, <1>3 DEF ToSet
  <2>3. \A x \in ToSet(t) : x \in ToSet(u)
    BY <1>2, <1>4 DEF ToSet
  <2> QED
    BY <2>1, <2>2, <2>3
<1>7. ASSUME IsInjective(u)
      PROVE  IsInjective(s) /\ IsInjective(t) /\ ToSet(s) \cap ToSet(t) = {}
  <2>1. IsInjective(s)
    BY <1>2, <1>3, <1>7 DEF IsInjective
  <2>2. IsInjective(t)
    <3> SUFFICES ASSUME NEW i \in 1 .. n, NEW j \in 1 .. n, t[i] = t[j]
                 PROVE  i = j
      BY <1>2 DEF IsInjective
    <3>1. m + i = m + j
      BY <1>2, <1>4, <1>7 DEF IsInjective
    <3> QED
      BY <1>2, <3>1
  <2>3. ASSUME NEW i \in 1 .. m, NEW j \in 1 .. n, s[i] = t[j] PROVE FALSE
    <3>1. i = m + j
      BY <1>2, <1>3, <1>4, <1>7, <2>3 DEF IsInjective
    <3> QED
      BY <1>2, <3>1
  <2> QED
    BY <1>2, <2>1, <2>2, <2>3 DEF ToSet
<1>8. ASSUME IsInjective(s), IsInjective(t), ToSet(s) \cap ToSet(t) = {}
      PROVE  IsInjective(u)
  <2>1. \A i \in 1 .. m, j \in 1 .. n : s[i] # t[j]
    BY <1>2, <1>8 DEF ToSet
  <2> SUFFICES ASSUME NEW i \in 1 .. m + n, NEW k \in 1 .. m + n, u[i] = u[k]
               PROVE  i = k
    BY <1>2 DEF IsInjective
  <2>2. CASE i \in 1 .. m /\ k \in 1 .. m
    BY <1>2, <1>3, <1>8, <2>2 DEF IsInjective
  <2>3. CASE i \in 1 .. m /\ \E j \in 1 .. n : k = m + j
    BY <1>3, <1>4, <2>1, <2>3
  <2>4. CASE k \in 1 .. m /\ \E j \in 1 .. n : i = m + j
    BY <1>3, <1>4, <2>1, <2>4
  <2>5. CASE (\E j \in 1 .. n : i = m + j) /\ (\E j \in 1 .. n : k = m + j)
    <3>1. PICK j \in 1 .. n, l \in 1 .. n : i = m + j /\ k = m + l
      BY <2>5
    <3>2. t[j] = t[l]
      BY <1>4, <3>1
    <3>3. j = l
      BY <1>2, <1>8, <3>2 DEF IsInjective
    <3> QED
      BY <3>1, <3>3
  <2> QED
    BY <1>5, <2>2, <2>3, <2>4, <2>5
<1> QED
  BY <1>6, <1>7, <1>8 DEF u
-----------------------------------------------------------------------------
(* Types *)

\* A part of the state that a step leaves alone keeps its type.
LEMMA TypesKept ==
  ASSUME TypeOK
  PROVE  /\ UNCHANGED callerVars => CallerTypes'
         /\ UNCHANGED requestVars => RequestTypes'
         /\ UNCHANGED <<incoming, active, stored>> => ListTypes'
         /\ UNCHANGED registryVars => RegistryTypes'
         /\ UNCHANGED <<tpc, hand>> => ThreadTypes'
         /\ UNCHANGED roundVars => RoundTypes'
         /\ UNCHANGED retireVars => RetireTypes'
         /\ UNCHANGED stopVars => StopTypes'
<1>1. UNCHANGED callerVars => CallerTypes'
  BY DEF TypeOK, callerVars, CallerTypes
<1>2. UNCHANGED requestVars => RequestTypes'
  BY DEF TypeOK, requestVars, RequestTypes
<1>3. UNCHANGED <<incoming, active, stored>> => ListTypes'
  BY DEF TypeOK, ListTypes
<1>4. UNCHANGED registryVars => RegistryTypes'
  BY DEF TypeOK, registryVars, RegistryTypes
<1>5. UNCHANGED <<tpc, hand>> => ThreadTypes'
  BY DEF TypeOK, ThreadTypes
<1>6. UNCHANGED roundVars => RoundTypes'
  BY DEF TypeOK, roundVars, RoundTypes
<1>7. UNCHANGED retireVars => RetireTypes'
  BY DEF TypeOK, retireVars, RetireTypes
<1>8. UNCHANGED stopVars => StopTypes'
  BY DEF TypeOK, stopVars, StopTypes
<1> QED
  BY <1>1, <1>2, <1>3, <1>4, <1>5, <1>6, <1>7, <1>8

\* A sequence of tokens with one token more.
LEMMA MoreTokens ==
  ASSUME NEW t \in Seq(Requests \X Nat), NEW r \in Requests, NEW n \in Nat
  PROVE  Append(t, <<r, n>>) \in Seq(Requests \X Nat)
<1>1. <<r, n>> \in Requests \X Nat
  OBVIOUS
<1> QED
  BY <1>1, AppendProperties

LEMMA InitType == Init => TypeOK
<1> SUFFICES ASSUME Init PROVE TypeOK
  OBVIOUS
<1>1. <<>> \in Seq(Requests \X Nat) /\ <<>> \in Seq(Requests)
  BY EmptySeq
<1>2. CallerTypes
  BY DEF Init, CallerTypes
<1>3. RequestTypes
  BY <1>1 DEF Init, RequestTypes
<1>4. ListTypes /\ RoundTypes
  BY <1>1 DEF Init, ListTypes, RoundTypes
<1>5. RegistryTypes
  BY <1>1 DEF Init, RegistryTypes
<1>6. ThreadTypes /\ RetireTypes /\ StopTypes
  BY DEF Init, ThreadTypes, RetireTypes, StopTypes
<1> QED
  BY <1>2, <1>3, <1>4, <1>5, <1>6 DEF TypeOK

LEMMA CallType ==
  ASSUME TypeOK, OwnRequests, NEW c \in Callers, Call(c) \/ InCall(c)
  PROVE  TypeOK'
<1>1. ASSUME NEW r \in Requests, NEW s \in Sessions \cup {OneShot},
             BeginSubmit(c, r, s)
      PROVE  TypeOK'
  <2>1. Len(active) \in Nat
    BY LenProperties DEF TypeOK, ListTypes
  <2>2. CallerTypes'
    BY <1>1, <2>1 DEF BeginSubmit, TypeOK, CallerTypes
  <2>3. RequestTypes'
    BY <1>1 DEF BeginSubmit, TypeOK, RequestTypes
  <2>4. UNCHANGED <<incoming, active, stored, registryVars, tpc, hand,
                      roundVars, retireVars, stopVars>>
    BY <1>1 DEF BeginSubmit
  <2> QED
    BY <2>2, <2>3, <2>4, TypesKept DEF TypeOK
<1>2. CASE CheckCapacity(c)
  <2>1. arg[c] \in Requests
    BY <1>2 DEF CheckCapacity, OwnRequests
  <2>2. <<<<arg[c], 0>>>> \in Seq(Requests \X Nat)
    BY <2>1
  <2>3. ids' \in [Requests -> Seq(Requests \X Nat)]
    BY <1>2, <2>2 DEF CheckCapacity, TypeOK, RequestTypes
  <2>4. UNCHANGED <<session, gen, sentinel, done, error>>
    BY <1>2 DEF CheckCapacity
  <2>5. CallerTypes'
    BY <1>2 DEF CheckCapacity, TypeOK, CallerTypes
  <2>6. RequestTypes'
    BY <2>3, <2>4 DEF TypeOK, RequestTypes
  <2>7. UNCHANGED <<incoming, active, stored, registryVars, tpc, hand,
                      roundVars, retireVars, stopVars>>
    BY <1>2 DEF CheckCapacity
  <2> QED
    BY <2>5, <2>6, <2>7, TypesKept DEF TypeOK
<1>3. CASE ClaimSession(c)
  <2> DEFINE r == arg[c]
             s == session[r]
  <2>1. UNCHANGED <<incoming, active, stored, tpc, hand, roundVars, retireVars,
                    stopVars>>
    BY <1>3 DEF ClaimSession
  <2>2. CASE s \in sessions /\ s \notin busy
    <3>1. r \in Requests /\ s \in Sessions
      BY <1>3, <2>2 DEF ClaimSession, OwnRequests, TypeOK, RegistryTypes
    <3>2. history[s] \in Seq(Requests \X Nat)
      BY <3>1 DEF TypeOK, RegistryTypes
    <3>3. Append(history[s], <<r, 0>>) \in Seq(Requests \X Nat)
      BY <3>1, <3>2, MoreTokens
    <3>4. /\ ids' = [ids EXCEPT ![r] = Append(history[s], <<r, 0>>)]
          /\ busy' = busy \cup {s}
          /\ UNCHANGED <<session, gen, sentinel, done, error, sessions, minted,
                         history>>
      BY <1>3, <2>2 DEF ClaimSession
    <3>5. pc' = [pc EXCEPT ![c] = "put"] /\ UNCHANGED <<arg, seen>>
      BY <1>3, <2>2 DEF ClaimSession
    <3> HIDE DEF r, s
    <3>6. RequestTypes'
      BY <3>1, <3>3, <3>4 DEF TypeOK, RequestTypes
    <3>7. RegistryTypes'
      BY <3>1, <3>4 DEF TypeOK, RegistryTypes
    <3>8. CallerTypes'
      BY <3>5 DEF TypeOK, CallerTypes
    <3> QED
      BY <2>1, <3>6, <3>7, <3>8, TypesKept DEF TypeOK
  <2>3. CASE ~(s \in sessions /\ s \notin busy)
    <3>1. UNCHANGED <<requestVars, registryVars>>
      BY <1>3, <2>3 DEF ClaimSession, requestVars, registryVars
    <3>2. CallerTypes'
      BY <1>3, <2>3 DEF ClaimSession, TypeOK, CallerTypes
    <3> QED
      BY <2>1, <3>1, <3>2, TypesKept DEF TypeOK
  <2> QED
    BY <2>2, <2>3
<1>4. CASE Enqueue(c)
  <2>1. arg[c] \in Requests
    BY <1>4 DEF Enqueue, OwnRequests
  <2>2. CallerTypes'
    BY <1>4 DEF Enqueue, TypeOK, CallerTypes
  <2>3. ListTypes'
    BY <1>4, <2>1, AppendProperties DEF Enqueue, TypeOK, ListTypes
  <2>4. UNCHANGED <<requestVars, registryVars, tpc, hand, roundVars, retireVars,
                      stopVars>>
    BY <1>4 DEF Enqueue
  <2> QED
    BY <2>2, <2>3, <2>4, TypesKept DEF TypeOK
<1>5. ASSUME NEW s \in Sessions,
             CreateSession(c, s)
      PROVE  TypeOK'
  <2>1. RegistryTypes'
    BY <1>5 DEF CreateSession, TypeOK, RegistryTypes
  <2>2. UNCHANGED <<callerVars, requestVars, incoming, active, stored, tpc,
                      hand, roundVars, retireVars, stopVars>>
    BY <1>5 DEF CreateSession
  <2> QED
    BY <2>1, <2>2, TypesKept DEF TypeOK
<1>6. ASSUME NEW s \in Sessions,
             DeleteSession(c, s)
      PROVE  TypeOK'
  <2>1. <<>> \in Seq(Requests \X Nat)
    BY EmptySeq
  <2>2. ListTypes'
    BY <1>6 DEF DeleteSession, TypeOK, ListTypes
  <2>3. RegistryTypes'
    BY <1>6, <2>1 DEF DeleteSession, TypeOK, RegistryTypes
  <2>4. UNCHANGED <<callerVars, requestVars, tpc, hand, roundVars, retireVars,
                      stopVars>>
    BY <1>6 DEF DeleteSession
  <2> QED
    BY <2>2, <2>3, <2>4, TypesKept DEF TypeOK
<1> QED
  BY <1>1, <1>2, <1>3, <1>4, <1>5, <1>6 DEF Call, InCall

LEMMA RetireType ==
  ASSUME TypeOK, Retire
  PROVE  TypeOK'
<1>1. CASE PutSentinel
  <2>1. retiring \in Requests
    BY <1>1 DEF PutSentinel, TypeOK, RetireTypes
  <2>2. RequestTypes'
    BY <1>1, <2>1 DEF PutSentinel, TypeOK, RequestTypes
  <2>3. RetireTypes'
    BY <1>1 DEF PutSentinel, TypeOK, RetireTypes
  <2>4. UNCHANGED <<callerVars, incoming, active, stored, registryVars, tpc,
                      hand, roundVars, stopVars>>
    BY <1>1 DEF PutSentinel
  <2> QED
    BY <2>2, <2>3, <2>4, TypesKept DEF TypeOK
<1>2. CASE SetDone
  <2>1. retiring \in Requests
    BY <1>2 DEF SetDone, TypeOK, RetireTypes
  <2>2. RequestTypes'
    BY <1>2, <2>1 DEF SetDone, TypeOK, RequestTypes
  <2>3. RetireTypes'
    BY <1>2 DEF SetDone, TypeOK, RetireTypes
  <2>4. UNCHANGED <<callerVars, incoming, active, stored, registryVars, tpc,
                      hand, roundVars, stopVars>>
    BY <1>2 DEF SetDone
  <2> QED
    BY <2>2, <2>3, <2>4, TypesKept DEF TypeOK
<1>3. CASE RemoveActive
  <2>1. ListTypes'
    BY <1>3, RemoveFirstProperties DEF RemoveActive, TypeOK, ListTypes
  <2>2. RetireTypes'
    BY <1>3 DEF RemoveActive, TypeOK, RetireTypes
  <2>3. UNCHANGED <<callerVars, requestVars, registryVars, tpc, hand, roundVars,
                      stopVars>>
    BY <1>3 DEF RemoveActive
  <2> QED
    BY <2>1, <2>2, <2>3, TypesKept DEF TypeOK
<1>4. CASE Release
  <2>1. ids[retiring] \in Seq(Requests \X Nat)
    BY <1>4 DEF Release, TypeOK, RequestTypes, RetireTypes
  <2>2. RegistryTypes'
    BY <1>4, <2>1 DEF Release, TypeOK, RegistryTypes
  <2>3. RetireTypes'
    BY <1>4 DEF Release, TypeOK, RetireTypes
  <2>4. UNCHANGED <<callerVars, requestVars, incoming, active, stored, tpc,
                      hand, roundVars, stopVars>>
    BY <1>4 DEF Release
  <2> QED
    BY <2>2, <2>3, <2>4, TypesKept DEF TypeOK
<1> QED
  BY <1>1, <1>2, <1>3, <1>4 DEF Retire

LEMMA AdmitType ==
  ASSUME TypeOK,
         Start \/ LoopTop \/ AdmitPop \/ AdmitAppend \/ AdmitEnd \/ NothingActive
  PROVE  TypeOK'
<1>1. CASE Start
  <2>1. ThreadTypes'
    BY <1>1 DEF Start, TypeOK, ThreadTypes
  <2>2. UNCHANGED <<callerVars, requestVars, incoming, active, stored,
                      registryVars, roundVars, retireVars, stopVars>>
    BY <1>1 DEF Start
  <2> QED
    BY <2>1, <2>2, TypesKept DEF TypeOK
<1>2. CASE LoopTop
  <2>1. ThreadTypes'
    BY <1>2 DEF LoopTop, TypeOK, ThreadTypes
  <2>2. UNCHANGED <<callerVars, requestVars, incoming, active, stored,
                      registryVars, roundVars, retireVars, stopVars>>
    BY <1>2 DEF LoopTop
  <2> QED
    BY <2>1, <2>2, TypesKept DEF TypeOK
<1>3. CASE AdmitPop
  <2>1. Head(incoming) \in Requests /\ Tail(incoming) \in Seq(Requests)
    BY <1>3, HeadTailProperties DEF AdmitPop, TypeOK, ListTypes
  <2>2. ListTypes'
    BY <1>3, <2>1 DEF AdmitPop, TypeOK, ListTypes
  <2>3. ThreadTypes'
    BY <1>3, <2>1 DEF AdmitPop, TypeOK, ThreadTypes
  <2>4. UNCHANGED <<callerVars, requestVars, registryVars, roundVars,
                      retireVars, stopVars>>
    BY <1>3 DEF AdmitPop
  <2> QED
    BY <2>2, <2>3, <2>4, TypesKept DEF TypeOK
<1>4. CASE AdmitAppend
  <2>1. hand \in Requests
    BY <1>4 DEF AdmitAppend, TypeOK, ThreadTypes
  <2>2. ListTypes'
    BY <1>4, <2>1, AppendProperties DEF AdmitAppend, TypeOK, ListTypes
  <2>3. ThreadTypes'
    BY <1>4 DEF AdmitAppend, TypeOK, ThreadTypes
  <2>4. UNCHANGED <<callerVars, requestVars, registryVars, roundVars,
                      retireVars, stopVars>>
    BY <1>4 DEF AdmitAppend
  <2> QED
    BY <2>2, <2>3, <2>4, TypesKept DEF TypeOK
<1>5. CASE AdmitEnd
  <2>1. ThreadTypes'
    BY <1>5 DEF AdmitEnd, TypeOK, ThreadTypes
  <2>2. UNCHANGED <<callerVars, requestVars, incoming, active, stored,
                      registryVars, roundVars, retireVars, stopVars>>
    BY <1>5 DEF AdmitEnd
  <2> QED
    BY <2>1, <2>2, TypesKept DEF TypeOK
<1>6. CASE NothingActive
  <2>1. ThreadTypes'
    BY <1>6 DEF NothingActive, TypeOK, ThreadTypes
  <2>2. UNCHANGED <<callerVars, requestVars, incoming, active, stored,
                      registryVars, roundVars, retireVars, stopVars>>
    BY <1>6 DEF NothingActive
  <2> QED
    BY <2>1, <2>2, TypesKept DEF TypeOK
<1> QED
  BY <1>1, <1>2, <1>3, <1>4, <1>5, <1>6

\* The part of the types that the step of one request changes.
SteppedTypes == RequestTypes /\ ListTypes /\ RetireTypes

LEMMA FinishType ==
  ASSUME TypeOK, NEW r \in Requests, FinishStep(r),
         UNCHANGED <<session, sentinel, done, error>>
  PROVE  RequestTypes' /\ RetireTypes'
<1>1. ids[r] \in Seq(Requests \X Nat) /\ gen[r] + 1 \in Nat
  BY DEF TypeOK, RequestTypes
<1>2. Append(ids[r], <<r, gen[r] + 1>>) \in Seq(Requests \X Nat)
  BY <1>1, MoreTokens
<1>3. /\ ids' \in [Requests -> Seq(Requests \X Nat)]
      /\ gen' \in [Requests -> Nat]
  BY <1>1, <1>2 DEF FinishStep, TypeOK, RequestTypes
<1>4. RequestTypes'
  BY <1>3 DEF TypeOK, RequestTypes
<1>5. RetireTypes'
  BY DEF FinishStep, BeginRetire, TypeOK, RetireTypes, retireVars
<1> QED
  BY <1>4, <1>5

LEMMA FailType ==
  ASSUME TypeOK, NEW r \in Requests, FailStep(r),
         UNCHANGED <<session, sentinel, done, gen, ids>>
  PROVE  RequestTypes' /\ RetireTypes'
<1>1. RequestTypes'
  BY DEF FailStep, TypeOK, RequestTypes
<1>2. RetireTypes'
  BY DEF FailStep, BeginRetire, RetireTypes
<1> QED
  BY <1>1, <1>2

LEMMA SingleType ==
  ASSUME TypeOK, OwnRequests, NEW i \in DOMAIN snapshot, StepSingle(snapshot[i]),
         UNCHANGED <<session, sentinel, done, incoming, active>>
  PROVE  SteppedTypes'
<1> DEFINE r == snapshot[i]
<1>1. r \in Requests
  BY DEF TypeOK, RoundTypes
<1>2. r \in Known
  BY DEF Known, ToSet
<1>3. PagedModel(r) \in Requests \cup Sessions
  BY <1>1, <1>2 DEF TypeOK, RequestTypes, OwnRequests, PagedModel
<1> HIDE DEF r
<1>4. stored' \in {stored, stored \cup {PagedModel(r)}}
  BY DEF StepSingle, r
<1>5. ListTypes'
  BY <1>3, <1>4 DEF TypeOK, ListTypes
<1>6. \/ FinishStep(r) /\ UNCHANGED error
      \/ FailStep(r) /\ UNCHANGED <<gen, ids>>
  BY DEF StepSingle, r
<1> QED
  BY <1>1, <1>5, <1>6, FinishType, FailType DEF SteppedTypes

LEMMA RoundType ==
  ASSUME TypeOK, OwnRequests, RoundLocals,
         BeginRound \/ StepFresh \/ StepAlone \/ StepBatched \/ HandleMember
           \/ SamplingCrash \/ EndRound
  PROVE  TypeOK'
<1>1. CASE BeginRound
  <2>1. /\ snapshot' = active /\ group' = {} /\ raised' = raised
        /\ fresh' \subseteq DOMAIN active /\ ready' \subseteq DOMAIN active
    BY <1>1 DEF BeginRound, RoundLocals, At
  <2>2. ThreadTypes'
    BY <1>1 DEF BeginRound, TypeOK, ThreadTypes
  <2>3. RoundTypes'
    BY <2>1 DEF TypeOK, ListTypes, RoundTypes
  <2>4. UNCHANGED <<callerVars, requestVars, incoming, active, stored,
                      registryVars, retireVars, stopVars>>
    BY <1>1 DEF BeginRound
  <2> QED
    BY <2>2, <2>3, <2>4, TypesKept DEF TypeOK
<1>2. CASE StepFresh
  <2>1. PICK i \in fresh : StepSingle(snapshot[i]) /\ fresh' = fresh \ {i}
    BY <1>2 DEF StepFresh
  <2>2. UNCHANGED <<session, sentinel, done, incoming, active, snapshot, ready,
                    group, raised>>
    BY <1>2 DEF StepFresh
  <2>3. SteppedTypes'
    BY <2>1, <2>2, SingleType DEF TypeOK, RoundTypes
  <2>4. RoundTypes'
    BY <2>1, <2>2 DEF TypeOK, RoundTypes
  <2>5. UNCHANGED <<callerVars, registryVars, tpc, hand, stopVars>>
    BY <1>2 DEF StepFresh
  <2> QED
    BY <2>3, <2>4, <2>5, TypesKept DEF TypeOK, SteppedTypes
<1>3. CASE StepAlone
  <2>1. PICK i \in ready : StepSingle(snapshot[i]) /\ ready' = ready \ {i}
    BY <1>3 DEF StepAlone
  <2>2. UNCHANGED <<session, sentinel, done, incoming, active, snapshot, fresh,
                    group, raised>>
    BY <1>3 DEF StepAlone
  <2>3. SteppedTypes'
    BY <2>1, <2>2, SingleType DEF TypeOK, RoundTypes
  <2>4. RoundTypes'
    BY <2>1, <2>2 DEF TypeOK, RoundTypes
  <2>5. UNCHANGED <<callerVars, registryVars, tpc, hand, stopVars>>
    BY <1>3 DEF StepAlone
  <2> QED
    BY <2>3, <2>4, <2>5, TypesKept DEF TypeOK, SteppedTypes
<1>4. CASE StepBatched
  <2>1. group' \subseteq ready /\ ready' \subseteq ready /\ raised' \in BOOLEAN
    BY <1>4, SchedulerAssumption DEF StepBatched
  <2>2. UNCHANGED <<snapshot, fresh>>
    BY <1>4 DEF StepBatched
  <2>3. RoundTypes'
    BY <2>1, <2>2 DEF TypeOK, RoundTypes
  <2>4. UNCHANGED <<callerVars, requestVars, incoming, active, stored,
                      registryVars, tpc, hand, retireVars, stopVars>>
    BY <1>4 DEF StepBatched
  <2> QED
    BY <2>3, <2>4, TypesKept DEF TypeOK
<1>5. CASE HandleMember
  <2>1. PICK i \in group :
          /\ group' = group \ {i}
          /\ \/ FailStep(snapshot[i]) /\ UNCHANGED <<gen, ids>>
             \/ FinishStep(snapshot[i]) /\ UNCHANGED error
    BY <1>5 DEF HandleMember
  <2>2. snapshot[i] \in Requests
    BY DEF TypeOK, RoundTypes
  <2>3. UNCHANGED <<session, sentinel, done, snapshot, fresh, ready>>
    BY <1>5 DEF HandleMember
  <2>4. RequestTypes' /\ RetireTypes'
    BY <2>1, <2>2, <2>3, FinishType, FailType
  <2>5. raised' \in BOOLEAN
    BY <1>5 DEF HandleMember
  <2>6. RoundTypes'
    BY <2>1, <2>3, <2>5 DEF TypeOK, RoundTypes
  <2>7. UNCHANGED <<callerVars, incoming, active, stored, registryVars, tpc,
                    hand, stopVars>>
    BY <1>5 DEF HandleMember
  <2> QED
    BY <2>4, <2>6, <2>7, TypesKept DEF TypeOK
<1>6. CASE SamplingCrash
  <2>1. ThreadTypes'
    BY <1>6 DEF SamplingCrash, TypeOK, ThreadTypes
  <2>2. UNCHANGED <<callerVars, requestVars, incoming, active, stored,
                      registryVars, roundVars, retireVars, stopVars>>
    BY <1>6 DEF SamplingCrash
  <2> QED
    BY <2>1, <2>2, TypesKept DEF TypeOK
<1>7. CASE EndRound
  <2>1. <<>> \in Seq(Requests)
    BY EmptySeq
  <2>2. ThreadTypes'
    BY <1>7 DEF EndRound, TypeOK, ThreadTypes
  <2>3. RoundTypes'
    BY <1>7, <2>1 DEF EndRound, TypeOK, RoundTypes
  <2>4. UNCHANGED <<callerVars, requestVars, incoming, active, stored,
                      registryVars, retireVars, stopVars>>
    BY <1>7 DEF EndRound
  <2> QED
    BY <2>2, <2>3, <2>4, TypesKept DEF TypeOK
<1> QED
  BY <1>1, <1>2, <1>3, <1>4, <1>5, <1>6, <1>7

LEMMA StopType ==
  ASSUME TypeOK, Stop
  PROVE  TypeOK'
<1>1. CASE BeginStop
  <2>1. StopTypes'
    BY <1>1 DEF BeginStop, TypeOK, StopTypes
  <2>2. UNCHANGED <<callerVars, requestVars, incoming, active, stored,
                      registryVars, tpc, hand, roundVars, retireVars>>
    BY <1>1 DEF BeginStop
  <2> QED
    BY <2>1, <2>2, TypesKept DEF TypeOK
<1>2. CASE JoinTimeout
  <2>1. StopTypes'
    BY <1>2 DEF JoinTimeout, TypeOK, StopTypes
  <2>2. UNCHANGED <<callerVars, requestVars, incoming, active, stored,
                      registryVars, tpc, hand, roundVars, retireVars>>
    BY <1>2 DEF JoinTimeout
  <2> QED
    BY <2>1, <2>2, TypesKept DEF TypeOK
<1>3. CASE Joined
  <2>1. StopTypes'
    BY <1>3 DEF Joined, TypeOK, StopTypes
  <2>2. UNCHANGED <<callerVars, requestVars, incoming, active, stored,
                      registryVars, tpc, hand, roundVars, retireVars>>
    BY <1>3 DEF Joined
  <2> QED
    BY <2>1, <2>2, TypesKept DEF TypeOK
<1>4. CASE RetireStuck
  <2>1. Head(active) \in Requests
    BY <1>4, HeadTailProperties DEF RetireStuck, TypeOK, ListTypes
  <2>2. /\ FailStep(Head(active))
        /\ UNCHANGED <<session, sentinel, done, gen, ids>>
    BY <1>4 DEF RetireStuck
  <2>3. RequestTypes' /\ RetireTypes'
    BY <2>1, <2>2, FailType
  <2>4. UNCHANGED <<callerVars, incoming, active, stored, registryVars, tpc,
                    hand, roundVars, stopVars>>
    BY <1>4 DEF RetireStuck
  <2> QED
    BY <2>3, <2>4, TypesKept DEF TypeOK
<1>5. CASE RetiredAll
  <2>1. StopTypes'
    BY <1>5 DEF RetiredAll, TypeOK, StopTypes
  <2>2. UNCHANGED <<callerVars, requestVars, incoming, active, stored,
                      registryVars, tpc, hand, roundVars, retireVars>>
    BY <1>5 DEF RetiredAll
  <2> QED
    BY <2>1, <2>2, TypesKept DEF TypeOK
<1>6. CASE DrainIncoming
  <2>1. Head(incoming) \in Requests /\ Tail(incoming) \in Seq(Requests)
    BY <1>6, HeadTailProperties DEF DrainIncoming, TypeOK, ListTypes
  <2>2. RequestTypes'
    BY <1>6, <2>1 DEF DrainIncoming, TypeOK, RequestTypes
  <2>3. ListTypes'
    BY <1>6, <2>1 DEF DrainIncoming, TypeOK, ListTypes
  <2>4. UNCHANGED <<callerVars, registryVars, tpc, hand, roundVars, retireVars,
                      stopVars>>
    BY <1>6 DEF DrainIncoming
  <2> QED
    BY <2>2, <2>3, <2>4, TypesKept DEF TypeOK
<1>7. CASE Stopped
  <2>1. StopTypes'
    BY <1>7 DEF Stopped, TypeOK, StopTypes
  <2>2. UNCHANGED <<callerVars, requestVars, incoming, active, stored,
                      registryVars, tpc, hand, roundVars, retireVars>>
    BY <1>7 DEF Stopped
  <2> QED
    BY <2>1, <2>2, TypesKept DEF TypeOK
<1> QED
  BY <1>1, <1>2, <1>3, <1>4, <1>5, <1>6, <1>7 DEF Stop, FinishStop
-----------------------------------------------------------------------------
(* Where a request is *)

\* The request between _incoming and _active, as a set.
Held == {hand} \ {None}

\* The three places of Pipeline, pairwise disjoint and without duplicates.
Apart ==
  /\ IsInjective(active) /\ IsInjective(incoming)
  /\ ToSet(active) \cap ToSet(incoming) = {}
  /\ Held \cap (ToSet(active) \cup ToSet(incoming)) = {}

\* The slots in use, with the one of the request being admitted.
Room == Len(active) + (IF hand = None THEN 0 ELSE 1) <= MaxConcurrent

HomeInv == TypeOK /\ OwnRequests /\ RoundLocals /\ Apart /\ Room

LEMMA ElementsAreIn ==
  ASSUME NEW S, NEW s \in Seq(S)
  PROVE  ToSet(s) \subseteq S
<1>1. \A i \in DOMAIN s : s[i] \in S
  BY ElementOfSeq, LenProperties
<1> QED
  BY <1>1 DEF ToSet

LEMMA PipelineParts ==
  ASSUME NEW a \in Seq(Requests), NEW h \in Requests \cup {None},
         NEW q \in Seq(Requests)
  PROVE  LET p == a \o (IF h = None THEN <<>> ELSE <<h>>) \o q
             held == {h} \ {None} IN
         /\ ToSet(p) = ToSet(a) \cup held \cup ToSet(q)
         /\ IsInjective(p) <=> /\ IsInjective(a) /\ IsInjective(q)
                               /\ ToSet(a) \cap ToSet(q) = {}
                               /\ held \cap (ToSet(a) \cup ToSet(q)) = {}
<1> DEFINE m == IF h = None THEN <<>> ELSE <<h>>
           held == {h} \ {None}
<1>1. m \in Seq(Requests) /\ ToSet(m) = held /\ IsInjective(m)
  <2>1. CASE h = None
    BY <2>1, EmptySeq DEF ToSet, IsInjective
  <2>2. CASE h # None
    <3>1. m = <<h>> /\ held = {h} /\ h \in Requests
      BY <2>2
    <3>2. DOMAIN <<h>> = {1} /\ <<h>>[1] = h /\ <<h>> \in Seq(Requests)
      BY <3>1
    <3> QED
      BY <3>1, <3>2 DEF ToSet, IsInjective
  <2> QED
    BY <2>1, <2>2
<1> HIDE DEF m, held
<1>2. /\ ToSet(a \o m) = ToSet(a) \cup held
      /\ IsInjective(a \o m) <=> IsInjective(a) /\ ToSet(a) \cap held = {}
  BY <1>1, ConcatSet
<1>3. a \o m \in Seq(Requests)
  BY <1>1, ConcatProperties
<1>4. /\ ToSet((a \o m) \o q) = ToSet(a \o m) \cup ToSet(q)
      /\ IsInjective((a \o m) \o q) <=>
           /\ IsInjective(a \o m) /\ IsInjective(q)
           /\ ToSet(a \o m) \cap ToSet(q) = {}
  BY <1>3, ConcatSet
<1>5. /\ ToSet((a \o m) \o q) = ToSet(a) \cup held \cup ToSet(q)
      /\ IsInjective((a \o m) \o q) <=>
           /\ IsInjective(a) /\ IsInjective(q)
           /\ ToSet(a) \cap ToSet(q) = {}
           /\ held \cap (ToSet(a) \cup ToSet(q)) = {}
  BY <1>2, <1>4, Zenon
<1> QED
  BY <1>5, Zenon DEF m, held

LEMMA PipelineSet ==
  ASSUME TypeOK
  PROVE  /\ ToSet(Pipeline) = ToSet(active) \cup Held \cup ToSet(incoming)
         /\ IsInjective(Pipeline) <=> Apart
<1>1. /\ active \in Seq(Requests) /\ incoming \in Seq(Requests)
      /\ hand \in Requests \cup {None}
  BY DEF TypeOK, ListTypes, ThreadTypes
<1> QED
  BY <1>1, PipelineParts, Zenon DEF Pipeline, Apart, Held

\* The same of the next state.
LEMMA PipelineSetNext ==
  ASSUME TypeOK'
  PROVE  ToSet(Pipeline)' = ToSet(active)' \cup Held' \cup ToSet(incoming)'
<1>1. /\ active' \in Seq(Requests) /\ incoming' \in Seq(Requests)
      /\ hand' \in Requests \cup {None}
  BY DEF TypeOK, ListTypes, ThreadTypes
<1>2. Pipeline' = active' \o (IF hand' = None THEN <<>> ELSE <<hand'>>) \o incoming'
  BY DEF Pipeline
<1>3. ToSet(active' \o (IF hand' = None THEN <<>> ELSE <<hand'>>) \o incoming')
        = ToSet(active') \cup ({hand'} \ {None}) \cup ToSet(incoming')
  BY <1>1, PipelineParts
<1> QED
  BY <1>2, <1>3 DEF Held

\* The requests known to the scheduler thread, place by place.
LEMMA KnownParts ==
  /\ TypeOK => Known = ToSet(active) \cup Held \cup ToSet(incoming)
                         \cup ToSet(snapshot) \cup Answered
  /\ TypeOK' => Known' = ToSet(active)' \cup Held' \cup ToSet(incoming)'
                           \cup ToSet(snapshot)' \cup Answered'
<1>1. ASSUME TypeOK
      PROVE  Known = ToSet(active) \cup Held \cup ToSet(incoming)
                       \cup ToSet(snapshot) \cup Answered
  BY <1>1, PipelineSet, Zenon DEF Known
<1>2. ASSUME TypeOK'
      PROVE  Known' = ToSet(active)' \cup Held' \cup ToSet(incoming)'
                        \cup ToSet(snapshot)' \cup Answered'
  BY <1>2, PipelineSetNext, Zenon DEF Known
<1> QED
  BY <1>1, <1>2

LEMMA KnownAreRequests == TypeOK => Known \subseteq Requests
<1> SUFFICES ASSUME TypeOK PROVE Known \subseteq Requests
  OBVIOUS
<1>1. /\ ToSet(active) \subseteq Requests /\ ToSet(incoming) \subseteq Requests
      /\ ToSet(snapshot) \subseteq Requests
  BY ElementsAreIn DEF TypeOK, ListTypes, RoundTypes
<1>2. Held \subseteq Requests /\ Answered \subseteq Requests
  BY DEF TypeOK, ThreadTypes, RequestTypes, RetireTypes, Held,
         Answered
<1> QED
  BY <1>1, <1>2, KnownParts, Zenon

LEMMA InitHome == Init => HomeInv
<1> SUFFICES ASSUME Init PROVE HomeInv
  OBVIOUS
<1>1. TypeOK
  BY InitType
<1>2. ToSet(<<>>) = {} /\ IsInjective(<<>>) /\ Len(<<>>) = 0
  BY DEF ToSet, IsInjective
<1>3. Known = {}
  BY <1>1, <1>2, KnownParts DEF Init, Held, Answered
<1>4. OwnRequests
  BY <1>3 DEF Init, OwnRequests
<1>5. RoundLocals
  BY DEF Init, RoundLocals
<1>6. Apart
  BY <1>2 DEF Init, Apart, Held
<1>7. Room
  BY <1>2, SchedulerAssumption DEF Init, Room
<1> QED
  BY <1>1, <1>4, <1>5, <1>6, <1>7 DEF HomeInv

\* What the scheduler thread forgets is no matter to the callers.
LEMMA OwnRequestsKept ==
  ASSUME OwnRequests, Known' \subseteq Known, UNCHANGED <<pc, arg, session>>
  PROVE  OwnRequests'
BY DEF OwnRequests

LEMMA PlacesKept ==
  ASSUME UNCHANGED <<active, incoming, hand>>
  PROVE  /\ Apart => Apart'
         /\ Room => Room'
         /\ UNCHANGED <<snapshot, retiring, sentinel, done>> => Known' = Known
BY DEF Apart, Room, Held, Known, Pipeline, Answered

LEMMA CallHome ==
  ASSUME HomeInv, TypeOK', NEW c \in Callers, Call(c) \/ InCall(c)
  PROVE  HomeInv'
<1>1. RoundLocals'
  <2>1. UNCHANGED <<tpc, snapshot, fresh, ready, group>>
    BY DEF Call, InCall, BeginSubmit, CheckCapacity, ClaimSession, Enqueue,
           CreateSession, DeleteSession, roundVars
  <2> QED
    BY <2>1 DEF HomeInv, RoundLocals
<1>2. ASSUME NEW r \in Requests, NEW s \in Sessions \cup {OneShot},
             BeginSubmit(c, r, s)
      PROVE  OwnRequests' /\ Apart' /\ Room'
  <2>1. UNCHANGED <<active, incoming, hand, snapshot, retiring, sentinel, done>>
    BY <1>2 DEF BeginSubmit, roundVars, retireVars
  <2>2. Known' = Known
    BY <2>1, PlacesKept
  <2>3. /\ session[r] = None /\ session' = [session EXCEPT ![r] = s]
        /\ arg' = [arg EXCEPT ![c] = r] /\ pc' = [pc EXCEPT ![c] = "depth"]
    BY <1>2 DEF BeginSubmit
  <2>4. s # None
    BY SchedulerAssumption
  <2>5. r \notin Known /\ \A d \in Callers : pc[d] # "ready" => arg[d] # r
    BY <2>3 DEF HomeInv, OwnRequests
  <2>6. /\ pc \in [Callers -> {"ready", "depth", "claim", "put"}]
        /\ arg \in [Callers -> Requests \cup {None}]
        /\ session \in [Requests -> Sessions \cup {OneShot, None}]
    BY DEF HomeInv, TypeOK, CallerTypes, RequestTypes
  <2>7. \A d \in Callers : d # c => pc'[d] = pc[d] /\ arg'[d] = arg[d]
    BY <2>3, <2>6
  <2>8. pc'[c] = "depth" /\ arg'[c] = r /\ session'[r] = s
    BY <2>3, <2>6
  <2>9. \A q \in Requests : session[q] # None => session'[q] # None
    BY <2>3, <2>4, <2>6
  <2>10. Known \subseteq Requests
    BY KnownAreRequests DEF HomeInv
  <2>11. OwnRequests'
    BY <2>2, <2>4, <2>5, <2>7, <2>8, <2>9, <2>10 DEF HomeInv, OwnRequests
  <2> QED
    BY <2>1, <2>11, PlacesKept DEF HomeInv
<1>3. CASE CheckCapacity(c)
  <2>1. UNCHANGED <<active, incoming, hand, snapshot, retiring, sentinel, done,
                    session>>
    BY <1>3 DEF CheckCapacity, roundVars, retireVars
  <2>2. Known' = Known
    BY <2>1, PlacesKept
  <2>3. /\ pc[c] # "ready"
        /\ \A d \in Callers : d # c => pc'[d] = pc[d] /\ arg'[d] = arg[d]
        /\ pc'[c] # "ready" => arg'[c] = arg[c]
    BY <1>3 DEF CheckCapacity, HomeInv, TypeOK, CallerTypes
  <2>4. OwnRequests'
    BY <2>1, <2>2, <2>3 DEF HomeInv, OwnRequests
  <2> QED
    BY <1>1, <2>1, <2>4, PlacesKept DEF HomeInv
<1>4. CASE ClaimSession(c)
  <2>1. UNCHANGED <<active, incoming, hand, snapshot, retiring, sentinel, done,
                    session>>
    BY <1>4 DEF ClaimSession, roundVars, retireVars
  <2>2. Known' = Known
    BY <2>1, PlacesKept
  <2>3. /\ pc[c] # "ready"
        /\ \A d \in Callers : d # c => pc'[d] = pc[d] /\ arg'[d] = arg[d]
        /\ pc'[c] # "ready" => arg'[c] = arg[c]
    BY <1>4 DEF ClaimSession, HomeInv, TypeOK, CallerTypes
  <2>4. OwnRequests'
    BY <2>1, <2>2, <2>3 DEF HomeInv, OwnRequests
  <2> QED
    BY <1>1, <2>1, <2>4, PlacesKept DEF HomeInv
<1>5. CASE Enqueue(c)
  <2> DEFINE r == arg[c]
  <2>1. /\ incoming' = Append(incoming, r)
        /\ UNCHANGED <<active, hand, snapshot, retiring, sentinel, done, session>>
    BY <1>5 DEF Enqueue, requestVars, roundVars, retireVars
  <2>2. r \in Requests /\ r \notin Known /\ session[r] # None /\ pc[c] # "ready"
    BY <1>5 DEF Enqueue, HomeInv, OwnRequests
  <2>3. incoming \in Seq(Requests)
    BY DEF HomeInv, TypeOK, ListTypes
  <2>4. /\ pc'[c] = "ready"
        /\ \A d \in Callers : d # c => pc'[d] = pc[d] /\ arg'[d] = arg[d]
    BY <1>5 DEF Enqueue, HomeInv, TypeOK, CallerTypes
  <2>5. \A d \in Callers : d # c /\ pc[d] # "ready" => arg[d] # r
    BY <2>2 DEF HomeInv, OwnRequests
  <2> HIDE DEF r
  <2>6. /\ ToSet(incoming') = ToSet(incoming) \cup {r}
        /\ IsInjective(incoming) /\ r \notin ToSet(incoming)
             => IsInjective(incoming')
    BY <2>1, <2>2, <2>3, AppendSet
  <2>7. Known' = Known \cup {r}
    BY <2>1, <2>6, KnownParts DEF HomeInv, Held, Answered
  <2>8. OwnRequests'
    BY <2>1, <2>2, <2>4, <2>5, <2>7 DEF HomeInv, OwnRequests
  <2>9. r \notin ToSet(active) \cup Held \cup ToSet(incoming)
    BY <2>2, KnownParts DEF HomeInv
  <2>10. Apart'
    BY <2>1, <2>6, <2>9 DEF HomeInv, Apart, Held
  <2>11. Room'
    BY <2>1 DEF HomeInv, Room
  <2> QED
    BY <1>1, <2>8, <2>10, <2>11 DEF HomeInv
<1>6. ASSUME NEW s \in Sessions, CreateSession(c, s) \/ DeleteSession(c, s)
      PROVE  OwnRequests' /\ Apart' /\ Room'
  <2>1. UNCHANGED <<active, incoming, hand, snapshot, retiring, sentinel, done,
                    pc, arg, session>>
    BY <1>6 DEF CreateSession, DeleteSession, callerVars, requestVars, roundVars,
                retireVars
  <2> QED
    BY <2>1, PlacesKept, OwnRequestsKept DEF HomeInv
<1> QED
  BY <1>1, <1>2, <1>3, <1>4, <1>5, <1>6 DEF Call, InCall, HomeInv

LEMMA RetireHome ==
  ASSUME HomeInv, TypeOK', Retire
  PROVE  HomeInv'
<1>1. UNCHANGED <<incoming, hand, snapshot, fresh, ready, group, tpc, pc, arg,
                  session>>
  BY DEF Retire, PutSentinel, SetDone, RemoveActive, Release, callerVars,
         requestVars, roundVars
<1>2. Answered' \subseteq Answered
  BY DEF Retire, PutSentinel, SetDone, RemoveActive, Release, requestVars,
         Answered
<1>3. UNCHANGED active \/ active' = RemoveFirst(active, retiring)
  BY DEF Retire, PutSentinel, SetDone, RemoveActive, Release
<1>4. active \in Seq(Requests)
  BY DEF HomeInv, TypeOK, ListTypes
<1>5. /\ Len(active') <= Len(active)
      /\ ToSet(active') \subseteq ToSet(active)
      /\ IsInjective(active) => IsInjective(active')
  BY <1>3, <1>4, RemoveFirstProperties, LenProperties
<1>6. RoundLocals'
  BY <1>1 DEF HomeInv, RoundLocals
<1>7. Apart'
  BY <1>1, <1>5 DEF HomeInv, Apart, Held
<1>8. Len(active) \in Nat /\ Len(active') \in Nat /\ MaxConcurrent \in Nat
  BY LenProperties, SchedulerAssumption DEF HomeInv, TypeOK, ListTypes
<1>9. Room'
  BY <1>1, <1>5, <1>8 DEF HomeInv, Room
<1>10. Known' \subseteq Known
  BY <1>1, <1>2, <1>5, KnownParts DEF HomeInv, Held
<1> QED
  BY <1>1, <1>6, <1>7, <1>9, <1>10, OwnRequestsKept DEF HomeInv

LEMMA AdmitHome ==
  ASSUME HomeInv, TypeOK',
         Start \/ LoopTop \/ AdmitPop \/ AdmitAppend \/ AdmitEnd \/ NothingActive
  PROVE  HomeInv'
<1>1. UNCHANGED <<snapshot, fresh, ready, group, retiring, sentinel, done, pc,
                  arg, session>>
  BY DEF Start, LoopTop, AdmitPop, AdmitAppend, AdmitEnd, NothingActive,
         callerVars, requestVars, roundVars, retireVars
<1>2. tpc \notin {"round", "dead"}
  BY DEF Start, LoopTop, AdmitPop, AdmitAppend, AdmitEnd, NothingActive, At
<1>3. RoundLocals'
  BY <1>1, <1>2 DEF HomeInv, RoundLocals
<1>4. CASE UNCHANGED <<active, incoming, hand>>
  BY <1>1, <1>3, <1>4, PlacesKept, OwnRequestsKept DEF HomeInv
<1>5. CASE AdmitPop
  <2>1. /\ incoming # <<>> /\ hand = None /\ Len(active) < MaxConcurrent
        /\ hand' = Head(incoming) /\ incoming' = Tail(incoming)
        /\ UNCHANGED active
    BY <1>5 DEF AdmitPop
  <2>2. incoming \in Seq(Requests)
    BY DEF HomeInv, TypeOK, ListTypes
  <2>3. /\ Head(incoming) \in Requests
        /\ ToSet(incoming) = ToSet(incoming') \cup {hand'}
        /\ IsInjective(incoming) => IsInjective(incoming') /\ hand' \notin ToSet(incoming')
    BY <2>1, <2>2, HeadTailSet
  <2>4. Held = {} /\ Held' = {hand'} /\ hand' # None
    BY <2>1, <2>3, SchedulerAssumption DEF Held
  <2>5. Apart'
    BY <2>1, <2>3, <2>4 DEF HomeInv, Apart
  <2>6. Len(active) \in Nat /\ MaxConcurrent \in Nat
    BY LenProperties, SchedulerAssumption DEF HomeInv, TypeOK, ListTypes
  <2>7. Room'
    BY <2>1, <2>4, <2>6 DEF Room
  <2>8. Known' = Known
    BY <1>1, <2>1, <2>3, <2>4, KnownParts DEF HomeInv, Answered
  <2> QED
    BY <1>1, <1>3, <2>5, <2>7, <2>8, OwnRequestsKept DEF HomeInv
<1>6. CASE AdmitAppend
  <2>1. /\ hand # None /\ hand' = None /\ active' = Append(active, hand)
        /\ UNCHANGED incoming
    BY <1>6 DEF AdmitAppend
  <2>2. active \in Seq(Requests) /\ hand \in Requests
    BY <2>1 DEF HomeInv, TypeOK, ListTypes, ThreadTypes
  <2>3. /\ ToSet(active') = ToSet(active) \cup {hand}
        /\ IsInjective(active) /\ hand \notin ToSet(active) => IsInjective(active')
    BY <2>1, <2>2, AppendSet
  <2>4. Held = {hand} /\ Held' = {}
    BY <2>1 DEF Held
  <2>5. Apart'
    BY <2>1, <2>3, <2>4 DEF HomeInv, Apart
  <2>6. Len(active) \in Nat /\ Len(active') = Len(active) + 1
    BY <2>1, <2>2, LenProperties, AppendProperties
  <2>7. Room'
    BY <2>1, <2>6 DEF HomeInv, Room
  <2>8. Known' = Known
    BY <1>1, <2>1, <2>3, <2>4, KnownParts DEF HomeInv, Answered
  <2> QED
    BY <1>1, <1>3, <2>5, <2>7, <2>8, OwnRequestsKept DEF HomeInv
<1>7. UNCHANGED <<active, incoming, hand>> \/ AdmitPop \/ AdmitAppend
  BY DEF Start, LoopTop, AdmitEnd, NothingActive
<1> QED
  BY <1>4, <1>5, <1>6, <1>7

LEMMA RoundHome ==
  ASSUME HomeInv, TypeOK',
         BeginRound \/ StepFresh \/ StepAlone \/ StepBatched \/ HandleMember
           \/ SamplingCrash \/ EndRound
  PROVE  HomeInv'
<1>1. UNCHANGED <<active, incoming, hand, pc, arg, session>>
  BY DEF BeginRound, StepFresh, StepAlone, StepBatched, HandleMember,
         SamplingCrash, EndRound, callerVars, requestVars
<1>2. Apart' /\ Room'
  BY <1>1, PlacesKept DEF HomeInv
<1> DEFINE Stepped == StepFresh \/ StepAlone \/ HandleMember
<1>8. ASSUME Stepped
      PROVE  /\ UNCHANGED <<snapshot, sentinel, done>> /\ tpc' = "round"
             /\ retiring' \in {retiring} \cup ToSet(snapshot)
  <2>1. UNCHANGED <<snapshot, sentinel, done>> /\ tpc' = "round"
    BY <1>8 DEF StepFresh, StepAlone, HandleMember, At
  <2>2. PICK i \in DOMAIN snapshot : \/ StepSingle(snapshot[i])
                                    \/ FinishStep(snapshot[i])
                                    \/ FailStep(snapshot[i])
    BY <1>8 DEF StepFresh, StepAlone, HandleMember, HomeInv, TypeOK, RoundTypes
  <2>3. retiring' \in {retiring, snapshot[i]}
    BY <2>2 DEF StepSingle, FinishStep, FailStep, BeginRetire, retireVars
  <2>4. snapshot[i] \in ToSet(snapshot)
    BY DEF ToSet
  <2> QED
    BY <2>1, <2>3, <2>4
<1>3. CASE BeginRound
  <2>1. snapshot' = active /\ tpc' = "round" /\ UNCHANGED <<sentinel, done, retiring>>
    BY <1>3 DEF BeginRound, requestVars, retireVars
  <2>2. Known' \subseteq Known
    BY <1>1, <2>1, KnownParts DEF HomeInv, Held, Answered
  <2>3. RoundLocals'
    BY <2>1 DEF RoundLocals
  <2> QED
    BY <1>1, <1>2, <2>2, <2>3, OwnRequestsKept DEF HomeInv
<1>4. CASE EndRound
  <2>1. /\ snapshot' = <<>> /\ fresh' = {} /\ ready' = {} /\ group' = {}
        /\ UNCHANGED <<sentinel, done, retiring>>
    BY <1>4 DEF EndRound, requestVars, retireVars
  <2>2. ToSet(<<>>) = {}
    BY DEF ToSet
  <2>3. Known' \subseteq Known
    BY <1>1, <2>1, <2>2, KnownParts DEF HomeInv, Held, Answered
  <2>4. RoundLocals'
    BY <2>1 DEF RoundLocals
  <2> QED
    BY <1>1, <1>2, <2>3, <2>4, OwnRequestsKept DEF HomeInv
<1>5. CASE Stepped
  <2>1. Known' \subseteq Known
    <3> HIDE DEF Stepped
    <3> QED
      BY <1>1, <1>5, <1>8, KnownParts DEF HomeInv, Held, Answered
  <2>2. RoundLocals'
    BY <1>5, <1>8 DEF RoundLocals
  <2> QED
    BY <1>1, <1>2, <2>1, <2>2, OwnRequestsKept DEF HomeInv
<1>6. CASE StepBatched \/ SamplingCrash
  <2>1. /\ UNCHANGED <<snapshot, retiring, sentinel, done>>
        /\ tpc' \in {"round", "dead"}
    BY <1>6 DEF StepBatched, SamplingCrash, At, requestVars, roundVars, retireVars
  <2>2. Known' = Known
    BY <1>1, <2>1, PlacesKept
  <2>3. RoundLocals'
    BY <2>1 DEF RoundLocals
  <2> QED
    BY <1>1, <1>2, <2>2, <2>3, OwnRequestsKept DEF HomeInv
<1> QED
  BY <1>3, <1>4, <1>5, <1>6

LEMMA StopHome ==
  ASSUME HomeInv, TypeOK', Stop
  PROVE  HomeInv'
<1>1. UNCHANGED <<active, hand, snapshot, fresh, ready, group, sentinel, tpc,
                  pc, arg, session>>
  BY DEF Stop, FinishStop, BeginStop, JoinTimeout, Joined, RetireStuck,
         RetiredAll, DrainIncoming, Stopped, callerVars, requestVars, roundVars
<1>2. RoundLocals'
  BY <1>1 DEF HomeInv, RoundLocals
<1>3. CASE UNCHANGED <<incoming, done, retiring>>
  BY <1>1, <1>2, <1>3, PlacesKept, OwnRequestsKept DEF HomeInv
<1>4. CASE RetireStuck
  <2>1. active # <<>> /\ retiring' = Head(active) /\ UNCHANGED <<incoming, done>>
    BY <1>4 DEF RetireStuck, FailStep, BeginRetire
  <2>2. Head(active) \in ToSet(active)
    BY <2>1, HeadTailSet DEF HomeInv, TypeOK, ListTypes
  <2>3. Known' \subseteq Known
    BY <1>1, <2>1, <2>2, KnownParts DEF HomeInv, Held, Answered
  <2> QED
    BY <1>1, <1>2, <2>1, <2>3, PlacesKept, OwnRequestsKept DEF HomeInv
<1>5. CASE DrainIncoming
  <2>1. /\ incoming # <<>> /\ incoming' = Tail(incoming)
        /\ done' = done \cup {Head(incoming)} /\ UNCHANGED retiring
    BY <1>5 DEF DrainIncoming, retireVars
  <2>2. incoming \in Seq(Requests)
    BY DEF HomeInv, TypeOK, ListTypes
  <2>3. /\ ToSet(incoming') \subseteq ToSet(incoming)
        /\ Head(incoming) \in ToSet(incoming)
        /\ IsInjective(incoming) => IsInjective(incoming')
    BY <2>1, <2>2, HeadTailSet
  <2>4. Apart'
    BY <1>1, <2>3 DEF HomeInv, Apart, Held
  <2>5. Room'
    BY <1>1 DEF HomeInv, Room
  <2>6. Known' \subseteq Known
    BY <1>1, <2>1, <2>3, KnownParts DEF HomeInv, Held, Answered
  <2> QED
    BY <1>1, <1>2, <2>4, <2>5, <2>6, OwnRequestsKept DEF HomeInv
<1>6. UNCHANGED <<incoming, done, retiring>> \/ RetireStuck \/ DrainIncoming
  BY DEF Stop, FinishStop, BeginStop, JoinTimeout, Joined, RetiredAll, Stopped,
         requestVars, retireVars
<1> QED
  BY <1>3, <1>4, <1>5, <1>6

LEMMA StepHome == HomeInv /\ [Next]_vars => HomeInv'
<1> SUFFICES ASSUME HomeInv, [Next]_vars PROVE HomeInv'
  OBVIOUS
<1> USE DEF HomeInv
<1>1. ASSUME NEW c \in Callers, Call(c) \/ InCall(c) PROVE HomeInv'
  BY <1>1, CallType, CallHome
<1>2. CASE Retire
  BY <1>2, RetireType, RetireHome
<1>3. CASE Start \/ LoopTop \/ AdmitPop \/ AdmitAppend \/ AdmitEnd \/ NothingActive
  BY <1>3, AdmitType, AdmitHome
<1>4. CASE BeginRound \/ StepFresh \/ StepAlone \/ StepBatched \/ HandleMember
             \/ SamplingCrash \/ EndRound
  BY <1>4, RoundType, RoundHome
<1>5. CASE Stop
  BY <1>5, StopType, StopHome
<1>6. CASE UNCHANGED vars
  <2>1. TypeOK'
    BY <1>6, TypesKept DEF vars, TypeOK
  <2>2. UNCHANGED <<active, incoming, hand, snapshot, retiring, sentinel, done,
                    pc, arg, session>>
    BY <1>6 DEF vars, callerVars, requestVars, roundVars, retireVars
  <2>3. RoundLocals'
    BY <1>6 DEF vars, roundVars, RoundLocals
  <2> QED
    BY <2>1, <2>2, <2>3, PlacesKept, OwnRequestsKept
<1> QED
  BY <1>1, <1>2, <1>3, <1>4, <1>5, <1>6 DEF Next, Run

\* The types of Scheduler, for any number of threads, requests and slots.
THEOREM TypeCorrect == Spec => []TypeOK
<1>1. HomeInv => TypeOK
  BY DEF HomeInv
<1> QED
  BY <1>1, InitHome, StepHome, PTL DEF Spec

\* A request is in one place of the pipeline, once, and the slots are never
\* exceeded, whatever the callers, the scheduler thread and stop() interleave.
THEOREM RequestsHaveOneHome == Spec => []OneHome
<1>1. HomeInv => OneHome
  <2> SUFFICES ASSUME HomeInv PROVE OneHome
    OBVIOUS
  <2>1. IsInjective(Pipeline)
    BY PipelineSet DEF HomeInv
  <2>2. \A c \in Callers : pc[c] = "put" => arg[c] \notin ToSet(Pipeline)
    BY DEF HomeInv, OwnRequests, Known
  <2> QED
    BY <2>1, <2>2 DEF HomeInv, OneHome, Room
<1> QED
  BY <1>1, InitHome, StepHome, PTL DEF Spec
-----------------------------------------------------------------------------
(* How far the queue overshoots *)

\* The callers past the capacity check who have not put their request yet.
Passed == {c \in Callers : pc[c] \in {"claim", "put"}}

\* The inductive form of QueueBound: each of them already counts.
Reserved ==
  Len(incoming) + Cardinality(Passed)
    < MaxConcurrent + MaxQueue + Cardinality(Callers)

LEMMA Sizes ==
  /\ MaxConcurrent \in Nat \ {0} /\ MaxQueue \in Nat
  /\ Cardinality(Callers) \in Nat
  /\ \A S : S \subseteq Callers =>
       /\ IsFiniteSet(S) /\ Cardinality(S) \in Nat
       /\ Cardinality(S) <= Cardinality(Callers)
       /\ Cardinality(S) = Cardinality(Callers) => S = Callers
BY SchedulerAssumption, FS_Subset, FS_CardinalityType

LEMMA InitReserved == Init => Reserved
<1> SUFFICES ASSUME Init PROVE Reserved
  OBVIOUS
<1>1. Passed = {} /\ Len(incoming) = 0
  BY DEF Init, Passed
<1>2. Cardinality(Passed) = 0
  BY <1>1, FS_EmptySet
<1> QED
  BY <1>1, <1>2, Sizes DEF Reserved

LEMMA StepReserved == TypeOK /\ Reserved /\ [Next]_vars => Reserved'
<1> SUFFICES ASSUME TypeOK, Reserved, [Next]_vars PROVE Reserved'
  OBVIOUS
<1>1. /\ Passed \subseteq Callers /\ IsFiniteSet(Passed)
      /\ Cardinality(Passed) \in Nat
      /\ Len(incoming) \in Nat /\ incoming \in Seq(Requests)
  BY Sizes, LenProperties DEF Passed, TypeOK, ListTypes
<1>2. CASE UNCHANGED <<pc, incoming>>
  BY <1>2 DEF Reserved, Passed
<1>3. ASSUME NEW c \in Callers, Call(c) \/ InCall(c)
      PROVE  Reserved'
  <2>1. CASE Call(c)
    <3>1. UNCHANGED incoming /\ Passed' = Passed
      <4>1. ASSUME NEW r \in Requests, NEW s \in Sessions \cup {OneShot},
                   BeginSubmit(c, r, s)
            PROVE  UNCHANGED incoming /\ Passed' = Passed
        BY <4>1 DEF BeginSubmit, MayCall, Passed, TypeOK, CallerTypes
      <4>2. ASSUME NEW s \in Sessions, CreateSession(c, s) \/ DeleteSession(c, s)
            PROVE  UNCHANGED <<pc, incoming>>
        BY <4>2 DEF CreateSession, DeleteSession, callerVars
      <4> QED
        BY <2>1, <4>1, <4>2 DEF Call, Passed
    <3> QED
      BY <3>1 DEF Reserved
  <2>2. CASE CheckCapacity(c)
    <3>1. UNCHANGED incoming /\ c \notin Passed
      BY <2>2 DEF CheckCapacity, Passed
    <3>2. CASE seen[c] + Len(incoming) >= MaxConcurrent + MaxQueue
      <4>1. pc' = [pc EXCEPT ![c] = "ready"]
        BY <2>2, <3>2 DEF CheckCapacity
      <4>2. Passed' = Passed
        BY <3>1, <4>1 DEF Passed, TypeOK, CallerTypes
      <4> QED
        BY <3>1, <4>2 DEF Reserved
    <3>3. CASE ~(seen[c] + Len(incoming) >= MaxConcurrent + MaxQueue)
      <4>1. seen[c] \in Nat
        BY DEF TypeOK, CallerTypes
      <4>2. Len(incoming) < MaxConcurrent + MaxQueue
        BY <1>1, <3>3, <4>1, Sizes
      <4>3. pc' \in [Callers -> {"ready", "depth", "claim", "put"}]
        BY <2>2 DEF CheckCapacity, TypeOK, CallerTypes
      <4>4. Passed' \subseteq Callers
        BY DEF Passed
      <4>5. /\ Cardinality(Passed') \in Nat
            /\ Cardinality(Passed') <= Cardinality(Callers)
        BY <4>4, Sizes
      <4> QED
        BY <1>1, <3>1, <4>2, <4>5, Sizes DEF Reserved
    <3> QED
      BY <3>2, <3>3
  <2>3. CASE ClaimSession(c)
    <3>1. /\ UNCHANGED incoming
          /\ Passed' \subseteq Passed
      BY <2>3 DEF ClaimSession, Passed, TypeOK, CallerTypes
    <3>2. Cardinality(Passed') \in Nat /\ Cardinality(Passed') <= Cardinality(Passed)
      BY <1>1, <3>1, FS_Subset, FS_CardinalityType
    <3> QED
      BY <1>1, <3>1, <3>2, Sizes DEF Reserved
  <2>4. CASE Enqueue(c)
    <3>1. incoming' = Append(incoming, arg[c]) /\ c \in Passed
      BY <2>4 DEF Enqueue, Passed
    <3>2. Passed' = Passed \ {c}
      BY <2>4 DEF Enqueue, Passed, TypeOK, CallerTypes
    <3>3. Cardinality(Passed') = Cardinality(Passed) - 1
      BY <1>1, <3>1, <3>2, FS_RemoveElement
    <3>4. Len(incoming') = Len(incoming) + 1
      BY <3>1
    <3> QED
      BY <1>1, <3>3, <3>4, Sizes DEF Reserved
  <2> QED
    BY <1>3, <2>1, <2>2, <2>3, <2>4 DEF InCall
<1>4. CASE AdmitPop \/ DrainIncoming
  <2>1. incoming # <<>> /\ incoming' = Tail(incoming)
    BY <1>4 DEF AdmitPop, DrainIncoming
  <2>2. UNCHANGED pc
    BY <1>4 DEF AdmitPop, DrainIncoming, callerVars
  <2>3. Len(incoming') = Len(incoming) - 1
    BY <1>1, <2>1, HeadTailProperties
  <2>4. Passed' = Passed
    BY <2>2 DEF Passed
  <2> QED
    BY <1>1, <2>3, <2>4, Sizes DEF Reserved
<1>5. CASE Start \/ Retire
  <2> UNCHANGED <<pc, incoming>>
    BY <1>5 DEF Start, Retire, PutSentinel, SetDone, RemoveActive, Release,
                callerVars
  <2> QED
    BY <1>2
<1>6. CASE Run
  <2> UNCHANGED <<pc, incoming>> \/ AdmitPop
    BY <1>6 DEF Run, LoopTop, AdmitAppend, AdmitEnd, NothingActive, BeginRound,
                StepFresh, StepAlone, StepBatched, HandleMember, SamplingCrash,
                EndRound, callerVars
  <2> QED
    BY <1>2, <1>4
<1>7. CASE Stop
  <2> UNCHANGED <<pc, incoming>> \/ DrainIncoming
    BY <1>7 DEF Stop, FinishStop, BeginStop, JoinTimeout, Joined, RetireStuck,
                RetiredAll, Stopped, callerVars
  <2> QED
    BY <1>2, <1>4
<1>8. CASE UNCHANGED vars
  BY <1>2, <1>8 DEF vars, callerVars
<1> QED
  BY <1>3, <1>5, <1>6, <1>7, <1>8 DEF Next

\* The queue is never longer than the limit plus the callers that raced past
\* the capacity check together, for any number of callers.
THEOREM QueueIsBounded == Spec => []QueueBound
<1>1. TypeOK /\ Reserved => QueueBound
  <2> SUFFICES ASSUME TypeOK, Reserved PROVE QueueBound
    OBVIOUS
  <2>1. Passed \subseteq Callers
    BY DEF Passed
  <2>2. Cardinality(Passed) \in Nat /\ Len(incoming) \in Nat
    BY <2>1, Sizes, LenProperties DEF TypeOK, ListTypes
  <2> QED
    BY <2>2, Sizes DEF Reserved, QueueBound
<1> QED
  BY <1>1, InitReserved, StepReserved, TypeCorrect, PTL DEF Spec
-----------------------------------------------------------------------------
(* What _retire leaves between its statements *)

\* The request being retired is in _active until it is removed, in no list
\* after that, and has its end mark once that was put.
Retiring ==
  retiring # None =>
    /\ rpc # "release" => retiring \in ToSet(active)
    /\ rpc = "release" =>
         retiring \notin ToSet(active) \cup Held \cup ToSet(incoming)
    /\ rpc # "sentinel" => retiring \in sentinel

\* A request that has its end mark does not wait, and is active only while it
\* is being retired.
Ended ==
  /\ sentinel \cap (Held \cup ToSet(incoming)) = {}
  /\ sentinel \cap ToSet(active) \subseteq {retiring}

\* The positions of the snapshot this round has still to step.
Pending == fresh \cup ready \cup group

\* They are different requests, still active, and not the one being retired.
Unstepped ==
  tpc = "round" =>
    /\ IsInjective(snapshot)
    /\ fresh \cap ready = {} /\ fresh \cap group = {} /\ ready \cap group = {}
    /\ \A i \in Pending : snapshot[i] \in ToSet(active) \ {retiring}

\* stop() retires and drains only after the scheduler thread has ended.
StopAlone == spc \in {"retire", "drain", "stopped"} => tpc = "dead"

RetireInv == HomeInv /\ Retiring /\ Ended /\ Unstepped /\ StopAlone

LEMMA InitRetire == Init => RetireInv
<1> SUFFICES ASSUME Init PROVE RetireInv
  OBVIOUS
<1>1. Retiring /\ Ended /\ Unstepped /\ StopAlone
  BY DEF Init, Retiring, Ended, Unstepped, StopAlone
<1> QED
  BY <1>1, InitHome DEF RetireInv

LEMMA RetireKept ==
  ASSUME RetireInv, HomeInv',
         UNCHANGED <<active, incoming, hand, snapshot, fresh, ready, group, tpc,
                     retireVars, sentinel, spc>>
  PROVE  RetireInv'
BY DEF RetireInv, Retiring, Ended, Unstepped, Pending, StopAlone, Held, retireVars

LEMMA CallRetire ==
  ASSUME RetireInv, HomeInv', NEW c \in Callers, Call(c) \/ InCall(c)
  PROVE  RetireInv'
<1>1. UNCHANGED <<active, hand, snapshot, fresh, ready, group, tpc, retiring, rpc,
                  sentinel, spc>>
  BY DEF Call, InCall, BeginSubmit, CheckCapacity, ClaimSession, Enqueue,
         CreateSession, DeleteSession, requestVars, roundVars, retireVars,
         stopVars
<1>2. CASE UNCHANGED incoming
  BY <1>1, <1>2, RetireKept DEF retireVars
<1>3. CASE Enqueue(c)
  <2>1. incoming' = Append(incoming, arg[c]) /\ arg[c] \in Requests \ Known
    BY <1>3 DEF Enqueue, RetireInv, HomeInv, OwnRequests
  <2>2. incoming \in Seq(Requests)
    BY DEF RetireInv, HomeInv, TypeOK, ListTypes
  <2>3. ToSet(incoming') = ToSet(incoming) \cup {arg[c]}
    BY <2>1, <2>2, AppendSet
  <2>4. arg[c] \notin sentinel /\ (retiring # None => arg[c] # retiring)
    BY <2>1 DEF Known, Answered
  <2>5. Retiring'
    BY <1>1, <2>3, <2>4 DEF RetireInv, Retiring, Held
  <2>6. Ended'
    BY <1>1, <2>3, <2>4 DEF RetireInv, Ended, Held
  <2>7. Unstepped' /\ StopAlone'
    BY <1>1 DEF RetireInv, Unstepped, Pending, StopAlone
  <2> QED
    BY <2>5, <2>6, <2>7 DEF RetireInv
<1>4. UNCHANGED incoming \/ Enqueue(c)
  BY DEF Call, InCall, BeginSubmit, CheckCapacity, ClaimSession, CreateSession,
         DeleteSession
<1> QED
  BY <1>2, <1>3, <1>4

LEMMA RetireRetire ==
  ASSUME RetireInv, HomeInv', Retire
  PROVE  RetireInv'
<1>1. UNCHANGED <<incoming, hand, snapshot, fresh, ready, group, tpc, spc>>
  BY DEF Retire, PutSentinel, SetDone, RemoveActive, Release, roundVars, stopVars
<1>2. StopAlone'
  BY <1>1 DEF RetireInv, StopAlone
<1>3. retiring # None /\ retiring \in Requests /\ active \in Seq(Requests)
  BY DEF Retire, PutSentinel, SetDone, RemoveActive, Release, RetireInv, HomeInv,
         TypeOK, RetireTypes, ListTypes
<1>4. CASE PutSentinel \/ SetDone
  <2>1. /\ UNCHANGED <<active, retiring>>
        /\ sentinel' \in {sentinel, sentinel \cup {retiring}}
        /\ rpc # "release" /\ rpc' # "release" /\ retiring \in sentinel'
    BY <1>3, <1>4 DEF PutSentinel, SetDone, RetireInv, Retiring
  <2>2. Retiring' /\ Unstepped'
    BY <1>1, <2>1 DEF RetireInv, Retiring, Unstepped, Pending
  <2>3. retiring \in ToSet(active)
    BY <1>3, <2>1 DEF RetireInv, Retiring
  <2>4. Ended'
    BY <1>1, <2>1, <2>3 DEF RetireInv, HomeInv, Apart, Ended, Held
  <2> QED
    BY <1>2, <2>2, <2>4 DEF RetireInv
<1>5. CASE RemoveActive
  <2>1. /\ UNCHANGED <<retiring, sentinel>> /\ rpc = "remove" /\ rpc' = "release"
        /\ active' = RemoveFirst(active, retiring)
    BY <1>5 DEF RemoveActive, requestVars
  <2>2. /\ ToSet(active) \ {retiring} \subseteq ToSet(active')
        /\ ToSet(active') \subseteq ToSet(active)
        /\ retiring \notin ToSet(active')
    BY <1>3, <2>1, RemoveFirstProperties DEF RetireInv, HomeInv, Apart
  <2>3. retiring \in ToSet(active) /\ retiring \in sentinel
    BY <1>3, <2>1 DEF RetireInv, Retiring
  <2>4. Retiring'
    BY <1>1, <2>1, <2>2, <2>3 DEF RetireInv, HomeInv, Apart, Retiring, Held
  <2>5. Ended'
    BY <1>1, <2>1, <2>2 DEF RetireInv, Ended, Held
  <2>6. Unstepped'
    BY <1>1, <2>1, <2>2 DEF RetireInv, Unstepped, Pending
  <2> QED
    BY <1>2, <2>4, <2>5, <2>6 DEF RetireInv
<1>6. CASE Release
  <2>1. /\ UNCHANGED <<active, sentinel>> /\ rpc = "release"
        /\ retiring' = None
    BY <1>6 DEF Release, requestVars
  <2>2. Retiring'
    BY <2>1 DEF Retiring
  <2>3. retiring \notin ToSet(active)
    BY <1>3, <2>1 DEF RetireInv, Retiring
  <2>4. Ended'
    BY <1>1, <2>1, <2>3 DEF RetireInv, Ended, Held
  <2>5. None \notin ToSet(active)
    BY <1>3, ElementsAreIn, SchedulerAssumption
  <2>6. Unstepped'
    BY <1>1, <2>1, <2>5 DEF RetireInv, Unstepped, Pending
  <2> QED
    BY <1>2, <2>2, <2>4, <2>6 DEF RetireInv
<1> QED
  BY <1>4, <1>5, <1>6 DEF Retire

LEMMA AdmitRetire ==
  ASSUME RetireInv, HomeInv',
         Start \/ LoopTop \/ AdmitPop \/ AdmitAppend \/ AdmitEnd \/ NothingActive
  PROVE  RetireInv'
<1>1. UNCHANGED <<snapshot, fresh, ready, group, retiring, rpc, sentinel, spc>>
  BY DEF Start, LoopTop, AdmitPop, AdmitAppend, AdmitEnd, NothingActive,
         requestVars, roundVars, retireVars, stopVars
<1>2. tpc # "dead" /\ tpc' # "round"
  BY DEF Start, LoopTop, AdmitPop, AdmitAppend, AdmitEnd, NothingActive, At
<1>3. Unstepped' /\ StopAlone'
  BY <1>1, <1>2 DEF RetireInv, Unstepped, StopAlone
<1>4. CASE UNCHANGED <<active, incoming, hand>>
  BY <1>1, <1>3, <1>4 DEF RetireInv, Retiring, Ended, Held
<1>5. CASE AdmitPop \/ AdmitAppend
  <2>1. retiring = None
    BY <1>5 DEF AdmitPop, AdmitAppend, At
  <2>2. Retiring'
    BY <1>1, <2>1 DEF Retiring
  <2>3. CASE AdmitPop
    <3>1. /\ incoming # <<>> /\ incoming' = Tail(incoming)
          /\ hand' = Head(incoming) /\ UNCHANGED active
      BY <2>3 DEF AdmitPop
    <3>2. ToSet(incoming) = ToSet(incoming') \cup {hand'}
      BY <3>1, HeadTailSet DEF RetireInv, HomeInv, TypeOK, ListTypes
    <3>3. Ended'
      BY <1>1, <3>1, <3>2 DEF RetireInv, Ended, Held
    <3> QED
      BY <1>3, <2>2, <3>3 DEF RetireInv
  <2>4. CASE AdmitAppend
    <3>1. /\ hand # None /\ hand' = None /\ active' = Append(active, hand)
          /\ UNCHANGED incoming
      BY <2>4 DEF AdmitAppend
    <3>2. active \in Seq(Requests) /\ hand \in Requests
      BY <3>1 DEF RetireInv, HomeInv, TypeOK, ListTypes, ThreadTypes
    <3>3. ToSet(active') = ToSet(active) \cup {hand}
      BY <3>1, <3>2, AppendSet
    <3>4. Ended'
      BY <1>1, <3>1, <3>3 DEF RetireInv, Ended, Held
    <3> QED
      BY <1>3, <2>2, <3>4 DEF RetireInv
  <2> QED
    BY <1>5, <2>3, <2>4
<1>6. UNCHANGED <<active, incoming, hand>> \/ AdmitPop \/ AdmitAppend
  BY DEF Start, LoopTop, AdmitEnd, NothingActive
<1> QED
  BY <1>4, <1>5, <1>6

\* A step of one request, of the snapshot's position i.
StepsOne(i) ==
  /\ i \in Pending
  /\ tpc = "round" /\ retiring = None
  /\ \/ retiring' = snapshot[i] /\ rpc' = "sentinel"
     \/ UNCHANGED retireVars
  /\ fresh' \subseteq fresh \ {i}
  /\ ready' \subseteq ready \ {i}
  /\ group' \subseteq group \ {i}
  /\ Pending' = Pending \ {i}
  /\ \/ UNCHANGED <<gen, ids>> /\ retiring' = snapshot[i]
     \/ FinishStep(snapshot[i])
  /\ error' \in {error, error \cup {snapshot[i]}}

LEMMA SteppingOne ==
  ASSUME RetireInv, StepFresh \/ StepAlone \/ HandleMember
  PROVE  \E i \in DOMAIN snapshot : StepsOne(i)
<1>1. PICK i \in Pending :
        /\ \/ StepSingle(snapshot[i])
           \/ FinishStep(snapshot[i]) /\ UNCHANGED error
           \/ FailStep(snapshot[i]) /\ UNCHANGED <<gen, ids>>
        /\ \/ /\ fresh' = fresh \ {i} /\ i \in fresh
              /\ UNCHANGED <<ready, group>>
           \/ /\ ready' = ready \ {i} /\ i \in ready
              /\ UNCHANGED <<fresh, group>>
           \/ /\ group' = group \ {i} /\ i \in group
              /\ UNCHANGED <<fresh, ready>>
  BY DEF StepFresh, StepAlone, HandleMember, Pending
<1>2. tpc = "round" /\ retiring = None
  BY DEF StepFresh, StepAlone, HandleMember, At
<1>3. i \in DOMAIN snapshot
  BY DEF RetireInv, HomeInv, TypeOK, RoundTypes, Pending
<1>4. \/ retiring' = snapshot[i] /\ rpc' = "sentinel"
      \/ UNCHANGED retireVars
  BY <1>1 DEF StepSingle, FinishStep, FailStep, BeginRetire
<1>5. /\ fresh' \subseteq fresh \ {i}
      /\ ready' \subseteq ready \ {i}
      /\ group' \subseteq group \ {i}
  BY <1>1, <1>2 DEF RetireInv, Unstepped
<1>6. \/ UNCHANGED <<gen, ids>> /\ retiring' = snapshot[i]
      \/ FinishStep(snapshot[i])
  BY <1>1 DEF StepSingle, FailStep, BeginRetire
<1>7. error' \in {error, error \cup {snapshot[i]}}
  BY <1>1 DEF StepSingle, FailStep
<1>8. Pending' = Pending \ {i}
  <2>1. fresh \cap ready = {} /\ fresh \cap group = {} /\ ready \cap group = {}
    BY <1>2 DEF RetireInv, Unstepped
  <2> QED
    BY <1>1, <2>1 DEF Pending
<1> QED
  BY <1>1, <1>2, <1>3, <1>4, <1>5, <1>6, <1>7, <1>8 DEF StepsOne

LEMMA RoundRetire ==
  ASSUME RetireInv, HomeInv',
         BeginRound \/ StepFresh \/ StepAlone \/ StepBatched \/ HandleMember
           \/ SamplingCrash \/ EndRound
  PROVE  RetireInv'
<1>1. UNCHANGED <<active, incoming, hand, sentinel, spc>>
  BY DEF BeginRound, StepFresh, StepAlone, StepBatched, HandleMember,
         SamplingCrash, EndRound, requestVars, stopVars
<1>2. StopAlone'
  BY <1>1 DEF BeginRound, StepFresh, StepAlone, StepBatched, HandleMember,
              SamplingCrash, EndRound, RetireInv, StopAlone, At
<1>3. retiring = None
  BY DEF BeginRound, StepFresh, StepAlone, StepBatched, HandleMember,
         SamplingCrash, EndRound, At
<1>4. CASE StepFresh \/ StepAlone \/ HandleMember
  <2>1. UNCHANGED <<snapshot, tpc>>
    BY <1>4 DEF StepFresh, StepAlone, HandleMember
  <2>2. PICK i \in DOMAIN snapshot : StepsOne(i)
    BY <1>4, SteppingOne
  <2>3. snapshot[i] \in ToSet(active) /\ IsInjective(snapshot)
    BY <2>2 DEF RetireInv, Unstepped, StepsOne
  <2>4. Pending' \subseteq Pending \ {i} /\ Pending \subseteq DOMAIN snapshot
    BY <2>2 DEF Pending, StepsOne, RetireInv, HomeInv, TypeOK, RoundTypes
  <2>5. \A j \in Pending' : snapshot[j] # snapshot[i]
    BY <2>3, <2>4 DEF IsInjective
  <2>6. retiring' \in {None, snapshot[i]}
    BY <1>3, <2>2 DEF StepsOne, retireVars
  <2>7. \A j \in Pending' : snapshot[j] \in ToSet(active) /\ snapshot[j] # None
    BY <1>3, <2>2, <2>4 DEF RetireInv, Unstepped, StepsOne
  <2>8. /\ fresh' \cap ready' = {} /\ fresh' \cap group' = {}
        /\ ready' \cap group' = {}
    BY <2>2 DEF RetireInv, Unstepped, StepsOne
  <2>9. Unstepped'
    BY <1>1, <2>1, <2>3, <2>5, <2>6, <2>7, <2>8 DEF Unstepped
  <2>10. Retiring'
    BY <1>1, <1>3, <2>2, <2>3 DEF StepsOne, Retiring, retireVars
  <2>11. Ended'
    <3>1. None \notin ToSet(active)
      BY ElementsAreIn, SchedulerAssumption DEF RetireInv, HomeInv, TypeOK,
                                                ListTypes
    <3> QED
      BY <1>1, <1>3, <3>1 DEF RetireInv, Ended, Held
  <2> QED
    BY <1>2, <2>9, <2>10, <2>11 DEF RetireInv
<1>5. CASE BeginRound \/ StepBatched \/ SamplingCrash \/ EndRound
  <2>1. UNCHANGED <<retiring, rpc>>
    BY <1>5 DEF BeginRound, StepBatched, SamplingCrash, EndRound, retireVars
  <2>2. Retiring' /\ Ended'
    BY <1>1, <1>3, <2>1 DEF RetireInv, Retiring, Ended, Held
  <2>3. CASE BeginRound
    <3>1. /\ snapshot' = active /\ group' = {} /\ fresh' \subseteq DOMAIN active
          /\ ready' = DOMAIN active \ fresh'
      BY <2>3 DEF BeginRound, At, RetireInv, HomeInv, RoundLocals
    <3>2. None \notin ToSet(active)
      BY ElementsAreIn, SchedulerAssumption DEF RetireInv, HomeInv, TypeOK,
                                                ListTypes
    <3>3. \A i \in Pending' : snapshot'[i] \in ToSet(active) \ {None}
      BY <3>1, <3>2 DEF Pending, ToSet
    <3>4. Unstepped'
      BY <1>1, <1>3, <2>1, <3>1, <3>3 DEF Unstepped, RetireInv, HomeInv, Apart
    <3> QED
      BY <1>2, <2>2, <3>4 DEF RetireInv
  <2>4. CASE StepBatched
    <3>1. PICK S \in SUBSET ready : group' = S /\ ready' = ready \ S
      BY <2>4 DEF StepBatched
    <3>2. UNCHANGED <<snapshot, fresh, tpc>> /\ tpc = "round" /\ group = {}
      BY <2>4 DEF StepBatched, At
    <3>3. Unstepped'
      BY <1>1, <2>1, <3>1, <3>2 DEF RetireInv, Unstepped, Pending
    <3> QED
      BY <1>2, <2>2, <3>3 DEF RetireInv
  <2>5. CASE SamplingCrash \/ EndRound
    <3>1. Unstepped'
      BY <2>5 DEF SamplingCrash, EndRound, Unstepped
    <3> QED
      BY <1>2, <2>2, <3>1 DEF RetireInv
  <2> QED
    BY <1>5, <2>3, <2>4, <2>5
<1> QED
  BY <1>4, <1>5

LEMMA StopRetire ==
  ASSUME RetireInv, HomeInv', Stop
  PROVE  RetireInv'
<1>1. UNCHANGED <<active, hand, snapshot, fresh, ready, group, sentinel, tpc>>
  BY DEF Stop, FinishStop, BeginStop, JoinTimeout, Joined, RetireStuck,
         RetiredAll, DrainIncoming, Stopped, requestVars, roundVars
<1>2. StopAlone'
  BY <1>1 DEF Stop, FinishStop, BeginStop, JoinTimeout, Joined, RetireStuck,
              RetiredAll, DrainIncoming, Stopped, stopVars, RetireInv, StopAlone
<1>3. CASE UNCHANGED <<incoming, retiring, rpc>>
  BY <1>1, <1>2, <1>3 DEF RetireInv, Retiring, Ended, Unstepped, Pending, Held
<1>4. CASE RetireStuck
  <2>1. /\ active # <<>> /\ retiring = None /\ retiring' = Head(active)
        /\ rpc' = "sentinel" /\ spc = "retire" /\ UNCHANGED incoming
    BY <1>4 DEF RetireStuck, FailStep, BeginRetire
  <2>2. Head(active) \in ToSet(active) /\ None \notin ToSet(active)
    BY <2>1, HeadTailSet, ElementsAreIn, SchedulerAssumption
       DEF RetireInv, HomeInv, TypeOK, ListTypes
  <2>3. Retiring'
    BY <1>1, <2>1, <2>2 DEF Retiring
  <2>4. Ended'
    BY <1>1, <2>1, <2>2 DEF RetireInv, Ended, Held
  <2>5. Unstepped'
    BY <1>1, <2>1 DEF RetireInv, StopAlone, Unstepped
  <2> QED
    BY <1>2, <2>3, <2>4, <2>5 DEF RetireInv
<1>5. CASE DrainIncoming
  <2>1. /\ incoming # <<>> /\ incoming' = Tail(incoming)
        /\ UNCHANGED <<retiring, rpc>>
    BY <1>5 DEF DrainIncoming, retireVars
  <2>2. ToSet(incoming') \subseteq ToSet(incoming)
    BY <2>1, HeadTailSet DEF RetireInv, HomeInv, TypeOK, ListTypes
  <2>3. Retiring'
    BY <1>1, <2>1, <2>2 DEF RetireInv, Retiring, Held
  <2>4. Ended'
    BY <1>1, <2>1, <2>2 DEF RetireInv, Ended, Held
  <2>5. Unstepped'
    BY <1>1, <2>1 DEF RetireInv, Unstepped, Pending
  <2> QED
    BY <1>2, <2>3, <2>4, <2>5 DEF RetireInv
<1>6. UNCHANGED <<incoming, retiring, rpc>> \/ RetireStuck \/ DrainIncoming
  BY DEF Stop, FinishStop, BeginStop, JoinTimeout, Joined, RetiredAll, Stopped,
         retireVars
<1> QED
  BY <1>3, <1>4, <1>5, <1>6

LEMMA StepRetire == RetireInv /\ [Next]_vars => RetireInv'
<1> SUFFICES ASSUME RetireInv, [Next]_vars PROVE RetireInv'
  OBVIOUS
<1>1. HomeInv'
  BY StepHome DEF RetireInv
<1>2. ASSUME NEW c \in Callers, Call(c) \/ InCall(c) PROVE RetireInv'
  BY <1>1, <1>2, CallRetire
<1>3. CASE Retire
  BY <1>1, <1>3, RetireRetire
<1>4. CASE Start \/ LoopTop \/ AdmitPop \/ AdmitAppend \/ AdmitEnd \/ NothingActive
  BY <1>1, <1>4, AdmitRetire
<1>5. CASE BeginRound \/ StepFresh \/ StepAlone \/ StepBatched \/ HandleMember
             \/ SamplingCrash \/ EndRound
  BY <1>1, <1>5, RoundRetire
<1>6. CASE Stop
  BY <1>1, <1>6, StopRetire
<1>7. CASE UNCHANGED vars
  <2>1. UNCHANGED <<active, incoming, hand, snapshot, fresh, ready, group, tpc,
                    retireVars, sentinel, spc>>
    BY <1>7 DEF vars, requestVars, roundVars, stopVars
  <2> QED
    BY <1>1, <2>1, RetireKept
<1> QED
  BY <1>2, <1>3, <1>4, <1>5, <1>6, <1>7 DEF Next, Run

\* Whatever the snapshot of the round and stop() do, nothing is decoded for a
\* request after the end mark of its stream.
THEOREM StreamsEndOnce == Spec => NothingAfterSentinel
<1> DEFINE Quiet(r) == gen'[r] = gen[r] /\ (r \in error') = (r \in error)
<1>1. ASSUME RetireInv, Next
      PROVE  \A r \in sentinel : Quiet(r)
  <2> SUFFICES ASSUME NEW r \in sentinel PROVE Quiet(r)
    OBVIOUS
  <2>1. r \in Requests /\ r # None
    BY <1>1, SchedulerAssumption DEF RetireInv, HomeInv, TypeOK, RequestTypes
  <2>2. CASE UNCHANGED <<gen, error>>
    BY <2>2
  <2>3. CASE StepFresh \/ StepAlone \/ HandleMember
    <3>1. PICK i \in DOMAIN snapshot : StepsOne(i)
      BY <1>1, <2>3, SteppingOne
    <3>2. snapshot[i] \in ToSet(active) /\ retiring = None
      BY <1>1, <3>1 DEF StepsOne, RetireInv, Unstepped
    <3>3. r # snapshot[i]
      BY <1>1, <2>1, <3>2 DEF RetireInv, Ended
    <3> QED
      BY <1>1, <2>1, <3>1, <3>3
         DEF StepsOne, FinishStep, RetireInv, HomeInv, TypeOK, RequestTypes
  <2>4. CASE RetireStuck
    <3>1. /\ active # <<>> /\ retiring = None /\ UNCHANGED gen
          /\ error' = error \cup {Head(active)}
      BY <2>4 DEF RetireStuck, FailStep, BeginRetire
    <3>2. Head(active) \in ToSet(active)
      BY <1>1, <3>1, HeadTailSet DEF RetireInv, HomeInv, TypeOK, ListTypes
    <3>3. r # Head(active)
      BY <1>1, <2>1, <3>1, <3>2 DEF RetireInv, Ended
    <3> QED
      BY <3>1, <3>3
  <2>5. CASE DrainIncoming
    <3>1. /\ incoming # <<>> /\ UNCHANGED gen
          /\ error' = error \cup {Head(incoming)}
      BY <2>5 DEF DrainIncoming
    <3>2. Head(incoming) \in ToSet(incoming)
      BY <1>1, <3>1, HeadTailSet DEF RetireInv, HomeInv, TypeOK, ListTypes
    <3>3. r # Head(incoming)
      BY <1>1, <3>2 DEF RetireInv, Ended
    <3> QED
      BY <3>1, <3>3
  <2>6. ASSUME NEW c \in Callers, Call(c) \/ InCall(c)
        PROVE  UNCHANGED <<gen, error>>
    BY <2>6 DEF Call, InCall, BeginSubmit, CheckCapacity, ClaimSession, Enqueue,
                CreateSession, DeleteSession, requestVars
  <2>7. CASE Start \/ Retire
    <3> UNCHANGED <<gen, error>>
      BY <2>7 DEF Start, Retire, PutSentinel, SetDone, RemoveActive, Release,
                  requestVars
    <3> QED
      BY <2>2
  <2>8. CASE Run
    <3>1. \/ UNCHANGED <<gen, error>>
          \/ StepFresh \/ StepAlone \/ HandleMember
      BY <2>8 DEF Run, LoopTop, AdmitPop, AdmitAppend, AdmitEnd, NothingActive,
                  BeginRound, StepBatched, SamplingCrash, EndRound, requestVars
    <3> QED
      BY <2>2, <2>3, <3>1
  <2>9. CASE Stop
    <3>1. UNCHANGED <<gen, error>> \/ RetireStuck \/ DrainIncoming
      BY <2>9 DEF Stop, FinishStop, BeginStop, JoinTimeout, Joined, RetiredAll,
                  Stopped, requestVars
    <3> QED
      BY <2>2, <2>4, <2>5, <3>1
  <2> QED
    BY <1>1, <2>2, <2>6, <2>7, <2>8, <2>9 DEF Next
<1>2. RetireInv /\ [Next]_vars => [\A r \in sentinel : Quiet(r)]_vars
  BY <1>1
<1> QED
  BY <1>2, InitRetire, StepRetire, PTL DEF Spec, NothingAfterSentinel
-----------------------------------------------------------------------------
(* Round-robin *)

\* a was admitted before b, and both are active.
Ahead(a, b) ==
  \E i, j \in DOMAIN active : i < j /\ active[i] = a /\ active[j] = b

\* What the round will have made of r when it ends, if no step fails.
Owed(r) == IF \E k \in Pending : snapshot[k] = r THEN 1 ELSE 0
Expected(r) == gen[r] + Owed(r)

Late == IF tpc \in {"round", "dead"} THEN 1 ELSE 0

\* RoundRobin, request by request.
InOrder == \A a, b \in Requests : Ahead(a, b) => gen[b] <= gen[a] + Late

\* The round leads to where nobody is behind who was admitted first, except
\* for the request it is retiring.
InStep ==
  tpc # "dead" =>
    \A a, b \in Requests :
      Ahead(a, b) /\ retiring \notin {a, b} => Expected(b) <= Expected(a)

\* Requests are retired inside rounds, or by stop() after the last one.
RetiresInRounds == retiring # None => tpc \in {"round", "dead"}

\* Nothing is decoded for a request before it is active.
Untouched ==
  \A r \in Requests : r \notin ToSet(active) \cup sentinel => gen[r] = 0

OrderInv == RetireInv /\ RetiresInRounds /\ Untouched /\ InOrder /\ InStep

\* _active.remove leaves the others in their order.
LEMMA RemoveFirstOrder ==
  ASSUME NEW S, NEW s \in Seq(S), NEW e,
         NEW i \in DOMAIN RemoveFirst(s, e), NEW j \in DOMAIN RemoveFirst(s, e),
         i < j
  PROVE  \E k, l \in DOMAIN s : /\ k < l /\ s[k] = RemoveFirst(s, e)[i]
                                /\ s[l] = RemoveFirst(s, e)[j]
<1>1. CASE e \in ToSet(s)
  <2>1. PICK p \in 1 .. Len(s) : RemoveFirst(s, e) = RemoveAt(s, p)
    BY <1>1, RemoveFirstIsRemoveAt
  <2> DEFINE t == RemoveFirst(s, e)
  <2>2. /\ t \in Seq(S) /\ Len(t) = Len(s) - 1
        /\ \A k \in 1 .. Len(s) - 1 : t[k] = IF k < p THEN s[k] ELSE s[k + 1]
    <3>1. /\ RemoveAt(s, p) \in Seq(S) /\ Len(RemoveAt(s, p)) = Len(s) - 1
          /\ \A k \in 1 .. Len(s) - 1 :
               RemoveAt(s, p)[k] = IF k < p THEN s[k] ELSE s[k + 1]
      BY ONLY s \in Seq(S), p \in 1 .. Len(s), RemoveAtProperties
    <3>2. t = RemoveAt(s, p)
      BY <2>1
    <3> HIDE DEF t
    <3> QED
      BY ONLY <3>1, <3>2
  <2>3. i \in 1 .. Len(s) - 1 /\ j \in 1 .. Len(s) - 1
    <3>1. DOMAIN t = 1 .. Len(t)
      BY <2>2
    <3> QED
      BY <2>2, <3>1
  <2> HIDE DEF t
  <2>4. PICK k : k = IF i < p THEN i ELSE i + 1
    OBVIOUS
  <2>5. PICK l : l = IF j < p THEN j ELSE j + 1
    OBVIOUS
  <2>6. k \in 1 .. Len(s) /\ l \in 1 .. Len(s) /\ k < l
    BY <2>3, <2>4, <2>5
  <2>7. s[k] = t[i] /\ s[l] = t[j]
    BY <2>2, <2>3, <2>4, <2>5
  <2>8. DOMAIN s = 1 .. Len(s)
    OBVIOUS
  <2> QED
    BY <2>6, <2>7, <2>8 DEF t
<1>2. CASE e \notin ToSet(s)
  <2>1. RemoveFirst(s, e) = s
    BY <1>2 DEF RemoveFirst, ToSet
  <2> QED
    BY <2>1
<1> QED
  BY <1>1, <1>2

LEMMA AheadIsActive ==
  ASSUME HomeInv, NEW a, NEW b, Ahead(a, b)
  PROVE  a \in ToSet(active) /\ b \in ToSet(active) /\ a # b
<1>1. PICK i \in DOMAIN active, j \in DOMAIN active :
        i < j /\ active[i] = a /\ active[j] = b
  BY DEF Ahead
<1>2. active \in Seq(Requests) /\ IsInjective(active)
  BY DEF HomeInv, TypeOK, ListTypes, Apart
<1>3. i # j
  BY <1>1, <1>2
<1> QED
  BY <1>1, <1>2, <1>3 DEF ToSet, IsInjective

LEMMA OwedIsOneAtMost == \A r : Owed(r) \in {0, 1}
BY DEF Owed

LEMMA InitOrder == Init => OrderInv
<1> SUFFICES ASSUME Init PROVE OrderInv
  OBVIOUS
<1>1. DOMAIN active = {}
  BY DEF Init
<1>2. \A a, b : ~Ahead(a, b)
  BY <1>1 DEF Ahead
<1>3. RetiresInRounds /\ Untouched /\ InOrder /\ InStep
  BY <1>2 DEF Init, RetiresInRounds, Untouched, InOrder, InStep
<1> QED
  BY <1>3, InitRetire DEF OrderInv

\* A step that decodes nothing and leaves the round's plan alone.
LEMMA OrderKept ==
  ASSUME OrderInv, UNCHANGED <<gen, snapshot>>, Pending' = Pending,
         tpc' = tpc \/ (tpc # "round" /\ tpc' # "round"),
         \A a, b \in Requests : Ahead(a, b)' => Ahead(a, b),
         \A a, b \in Requests :
           Ahead(a, b)' /\ retiring' \notin {a, b} => retiring \notin {a, b},
         tpc = "dead" => tpc' = "dead"
  PROVE  InOrder' /\ InStep'
<1>1. \A r : Owed(r)' = Owed(r) /\ Expected(r)' = Expected(r)
  BY DEF Owed, Expected
<1>2. Late' = Late \/ (Late = 0 /\ Late' = 1)
  BY DEF Late
<1>3. gen \in [Requests -> Nat]
  BY DEF OrderInv, RetireInv, HomeInv, TypeOK, RequestTypes
<1>4. InOrder'
  <2> SUFFICES ASSUME NEW a \in Requests, NEW b \in Requests, Ahead(a, b)'
               PROVE  gen'[b] <= gen'[a] + Late'
    BY DEF InOrder
  <2>1. gen[b] <= gen[a] + Late
    BY DEF OrderInv, InOrder
  <2>2. Late \in {0, 1}
    BY DEF Late
  <2> QED
    BY <1>2, <1>3, <2>1, <2>2
<1>5. InStep'
  BY <1>1 DEF OrderInv, InStep
<1> QED
  BY <1>4, <1>5

LEMMA RetireOrder ==
  ASSUME OrderInv, RetireInv', Retire
  PROVE  OrderInv'
<1>1. /\ UNCHANGED <<gen, snapshot, fresh, ready, group, tpc>>
      /\ retiring # None /\ retiring' \in {None, retiring}
  BY DEF Retire, PutSentinel, SetDone, RemoveActive, Release, requestVars,
         roundVars
<1>2. active \in Seq(Requests) /\ retiring \in Requests
  BY <1>1 DEF OrderInv, RetireInv, HomeInv, TypeOK, ListTypes, RetireTypes
<1>3. RetiresInRounds'
  BY <1>1 DEF OrderInv, RetiresInRounds
<1>4. Untouched'
  <2>1. /\ ToSet(active) \ {retiring} \subseteq ToSet(active')
        /\ sentinel \subseteq sentinel'
    BY <1>2, RemoveFirstProperties
       DEF Retire, PutSentinel, SetDone, RemoveActive, Release, requestVars
  <2>2. retiring \in sentinel \/ UNCHANGED active
    BY <1>1 DEF Retire, PutSentinel, SetDone, RemoveActive, Release, OrderInv,
                RetireInv, Retiring
  <2> QED
    BY <1>1, <2>1, <2>2 DEF OrderInv, Untouched
<1>5. ASSUME NEW a \in Requests, NEW b \in Requests, Ahead(a, b)'
      PROVE  Ahead(a, b)
  <2>1. CASE UNCHANGED active
    BY <1>5, <2>1 DEF Ahead
  <2>2. CASE active' = RemoveFirst(active, retiring)
    BY <1>2, <1>5, <2>2, RemoveFirstOrder DEF Ahead
  <2> QED
    BY <2>1, <2>2 DEF Retire, PutSentinel, SetDone, RemoveActive, Release
<1>6. ASSUME NEW a \in Requests, NEW b \in Requests, Ahead(a, b)',
             retiring' \notin {a, b}
      PROVE  retiring \notin {a, b}
  <2>1. CASE Release
    <3>1. UNCHANGED active /\ retiring \notin ToSet(active)
      BY <1>1, <2>1 DEF Release, OrderInv, RetireInv, Retiring
    <3> QED
      BY <1>5, <1>6, <3>1, AheadIsActive DEF OrderInv, RetireInv
  <2>2. CASE ~Release
    BY <1>6, <2>2 DEF Retire, PutSentinel, SetDone, RemoveActive
  <2> QED
    BY <2>1, <2>2
<1>7. Pending' = Pending
  BY <1>1 DEF Pending
<1>8. InOrder' /\ InStep'
  BY <1>1, <1>5, <1>6, <1>7, OrderKept
<1> QED
  BY <1>3, <1>4, <1>8 DEF OrderInv

\* One token of a round: it was owed to its request, which gets no other.
LEMMA SteppedOrder ==
  ASSUME OrderInv, RetireInv', StepFresh \/ StepAlone \/ HandleMember
  PROVE  OrderInv'
<1>1. UNCHANGED <<active, snapshot, tpc, sentinel>>
  BY DEF StepFresh, StepAlone, HandleMember
<1>2. PICK i \in DOMAIN snapshot : StepsOne(i)
  BY SteppingOne DEF OrderInv
<1>x. PICK x : x = snapshot[i]
  OBVIOUS
<1>3. /\ tpc = "round" /\ retiring = None /\ i \in Pending
      /\ x \in ToSet(active) /\ IsInjective(snapshot)
  BY <1>2, <1>x DEF OrderInv, RetireInv, Unstepped, StepsOne
<1>4. /\ gen \in [Requests -> Nat] /\ active \in Seq(Requests)
      /\ ToSet(active) \subseteq Requests /\ None \notin Requests
  BY ElementsAreIn, SchedulerAssumption
     DEF OrderInv, RetireInv, HomeInv, TypeOK, RequestTypes, ListTypes
<1>5. \A a, b \in Requests : Ahead(a, b)' <=> Ahead(a, b)
  BY <1>1 DEF Ahead
<1>6. Pending' = Pending \ {i} /\ Pending \subseteq DOMAIN snapshot
  BY <1>2 DEF Pending, StepsOne, OrderInv, RetireInv, HomeInv, TypeOK, RoundTypes
<1>7. /\ Owed(x) = 1 /\ Owed(x)' = 0
      /\ \A r \in Requests \ {x} : Owed(r)' = Owed(r)
  BY <1>1, <1>3, <1>6, <1>x DEF Owed, IsInjective
<1>8. \/ /\ gen' = [gen EXCEPT ![x] = @ + 1]
         /\ retiring' \in {None, x}
      \/ UNCHANGED gen /\ retiring' = x
  BY <1>2, <1>3, <1>x DEF StepsOne, FinishStep, BeginRetire, retireVars
<1>9. RetiresInRounds'
  BY <1>1, <1>3 DEF RetiresInRounds
<1>10. Untouched'
  BY <1>1, <1>3, <1>4, <1>8 DEF OrderInv, Untouched
<1>11. Late = 1 /\ Late' = 1
  BY <1>1, <1>3 DEF Late
<1>12. ASSUME NEW a \in Requests, NEW b \in Requests, Ahead(a, b)
       PROVE  /\ gen[b] <= gen[a] + 1 /\ a # b
              /\ gen[b] + Owed(b) <= gen[a] + Owed(a)
  <2>1. retiring \notin {a, b}
    BY <1>3, <1>4
  <2> QED
    BY <1>3, <1>11, <1>12, <2>1, AheadIsActive
       DEF OrderInv, RetireInv, InOrder, InStep, Expected
<1>13. x \in Requests
  BY <1>3, <1>4
<1>14. InOrder'
  <2> SUFFICES ASSUME NEW a \in Requests, NEW b \in Requests, Ahead(a, b)
               PROVE  gen'[b] <= gen'[a] + 1
    BY <1>5, <1>11 DEF InOrder
  <2>1. /\ gen[b] <= gen[a] + 1 /\ a # b
        /\ gen[b] + Owed(b) <= gen[a] + Owed(a)
    BY <1>12
  <2>2. Owed(a) \in {0, 1}
    BY OwedIsOneAtMost
  <2>3. CASE b = x
    BY <1>4, <1>7, <1>8, <1>13, <2>1, <2>2, <2>3
  <2>4. CASE b # x
    BY <1>4, <1>8, <1>13, <2>1, <2>4
  <2> QED
    BY <2>3, <2>4
<1>15. InStep'
  <2> SUFFICES ASSUME NEW a \in Requests, NEW b \in Requests, Ahead(a, b),
                      retiring' \notin {a, b}
               PROVE  gen'[b] + Owed(b)' <= gen'[a] + Owed(a)'
    BY <1>5 DEF InStep, Expected
  <2>1. gen[b] + Owed(b) <= gen[a] + Owed(a)
    BY <1>12
  <2>2. \A r \in {a, b} : gen'[r] + Owed(r)' = gen[r] + Owed(r)
    <3> SUFFICES ASSUME NEW r \in {a, b}
                 PROVE  gen'[r] + Owed(r)' = gen[r] + Owed(r)
      OBVIOUS
    <3>1. r \in Requests /\ r # retiring' /\ gen[r] \in Nat
      BY <1>4
    <3>2. CASE r = x
      <4>1. gen'[x] = gen[x] + 1
        BY <1>4, <1>8, <1>13, <3>1, <3>2
      <4> QED
        BY <1>7, <3>1, <3>2, <4>1
    <3>3. CASE r # x
      BY <1>4, <1>7, <1>8, <1>13, <3>1, <3>3
    <3> QED
      BY <3>2, <3>3
  <2> QED
    BY <2>1, <2>2
<1> QED
  BY <1>9, <1>10, <1>14, <1>15 DEF OrderInv

LEMMA RoundOrder ==
  ASSUME OrderInv, RetireInv', BeginRound \/ StepBatched \/ SamplingCrash \/ EndRound
  PROVE  OrderInv'
<1>1. /\ UNCHANGED <<gen, active, sentinel, retiring>> /\ retiring = None
  BY DEF BeginRound, StepBatched, SamplingCrash, EndRound, At, requestVars,
         retireVars
<1>2. RetiresInRounds' /\ Untouched'
  BY <1>1 DEF OrderInv, RetiresInRounds, Untouched
<1>3. \A a, b \in Requests : Ahead(a, b)' <=> Ahead(a, b)
  BY <1>1 DEF Ahead
<1>4. gen \in [Requests -> Nat] /\ active \in Seq(Requests) /\ None \notin Requests
  BY SchedulerAssumption
     DEF OrderInv, RetireInv, HomeInv, TypeOK, RequestTypes, ListTypes
<1>5. CASE BeginRound
  <2>1. /\ tpc = "check" /\ tpc' = "round" /\ snapshot' = active
        /\ fresh' \subseteq DOMAIN active /\ ready' = DOMAIN active \ fresh'
        /\ Pending = {}
    BY <1>5 DEF BeginRound, At, OrderInv, RetireInv, HomeInv, RoundLocals, Pending
  <2>2. DOMAIN active \subseteq Pending'
    BY <2>1 DEF Pending
  <2>3. \A r \in ToSet(active) : Owed(r)' = 1
    BY <2>1, <2>2 DEF Owed, ToSet
  <2>4. ASSUME NEW a \in Requests, NEW b \in Requests, Ahead(a, b)
        PROVE  /\ gen[b] <= gen[a]
               /\ Owed(a)' = 1 /\ Owed(b)' = 1
    <3>1. gen[b] <= gen[a] + Late /\ Late = 0
      BY <2>1, <2>4 DEF OrderInv, InOrder, Late
    <3> QED
      BY <1>4, <2>3, <2>4, <3>1, AheadIsActive DEF OrderInv, RetireInv
  <2>5. Late' = 1
    BY <2>1 DEF Late
  <2>6. InOrder'
    BY <1>1, <1>3, <1>4, <2>4, <2>5 DEF InOrder
  <2>7. InStep'
    BY <1>1, <1>3, <1>4, <2>4 DEF InStep, Expected
  <2> QED
    BY <1>2, <2>6, <2>7 DEF OrderInv
<1>6. CASE StepBatched \/ SamplingCrash
  <2>1. UNCHANGED snapshot /\ Pending' = Pending /\ tpc = "round"
    <3>1. UNCHANGED <<snapshot, fresh>> /\ tpc = "round"
          /\ ready' \cup group' = ready \cup group
      BY <1>6 DEF StepBatched, SamplingCrash, At, roundVars
    <3> QED
      BY <3>1 DEF Pending
  <2>2. tpc' \in {"round", "dead"}
    BY <1>6, <2>1 DEF StepBatched, SamplingCrash
  <2>3. \A r : Expected(r)' = Expected(r)
    BY <1>1, <2>1 DEF Expected, Owed
  <2>4. Late' = Late
    BY <2>1, <2>2 DEF Late
  <2>5. InOrder'
    BY <1>1, <1>3, <2>4 DEF OrderInv, InOrder
  <2>6. InStep'
    BY <1>1, <1>3, <2>1, <2>3 DEF OrderInv, InStep
  <2> QED
    BY <1>2, <2>5, <2>6 DEF OrderInv
<1>7. CASE EndRound
  <2>1. /\ tpc = "round" /\ tpc' = "top"
        /\ Pending = {} /\ Pending' = {}
    BY <1>7 DEF EndRound, At, Pending
  <2>2. \A r \in Requests : Expected(r) = gen[r] /\ Expected(r)' = gen[r]
    BY <1>1, <1>4, <2>1 DEF Expected, Owed
  <2>3. ASSUME NEW a \in Requests, NEW b \in Requests, Ahead(a, b)
        PROVE  gen[b] <= gen[a]
    BY <1>1, <1>4, <2>1, <2>2, <2>3 DEF OrderInv, InStep
  <2>4. Late' = 0
    BY <2>1 DEF Late
  <2>5. InOrder'
    BY <1>1, <1>3, <1>4, <2>3, <2>4 DEF InOrder
  <2>6. InStep'
    BY <1>1, <1>3, <2>2, <2>3 DEF InStep
  <2> QED
    BY <1>2, <2>5, <2>6 DEF OrderInv
<1> QED
  BY <1>5, <1>6, <1>7

\* Who is admitted comes last, and has no token yet.
LEMMA AdmittedOrder ==
  ASSUME OrderInv, RetireInv', AdmitAppend
  PROVE  OrderInv'
<1>1. /\ tpc = "admit" /\ retiring = None /\ hand # None
      /\ active' = Append(active, hand)
      /\ UNCHANGED <<gen, sentinel, tpc, retiring, snapshot, fresh, ready, group>>
  BY DEF AdmitAppend, At, requestVars, roundVars, retireVars
<1>2. /\ gen \in [Requests -> Nat] /\ active \in Seq(Requests)
      /\ hand \in Requests
  BY <1>1 DEF OrderInv, RetireInv, HomeInv, TypeOK, RequestTypes, ListTypes,
              ThreadTypes
<1>3. ToSet(active') = ToSet(active) \cup {hand}
  BY <1>1, <1>2, AppendSet
<1>4. hand \notin ToSet(active) /\ hand \notin sentinel
  BY <1>1 DEF OrderInv, RetireInv, HomeInv, Apart, Ended, Held
<1>5. gen[hand] = 0
  BY <1>2, <1>4 DEF OrderInv, Untouched
<1>6. RetiresInRounds' /\ Untouched'
  BY <1>1, <1>3 DEF OrderInv, RetiresInRounds, Untouched
<1>7. ASSUME NEW a \in Requests, NEW b \in Requests, Ahead(a, b)'
      PROVE  Ahead(a, b) \/ b = hand
  <2>1. PICK i \in DOMAIN active', j \in DOMAIN active' :
          i < j /\ active'[i] = a /\ active'[j] = b
    BY <1>7 DEF Ahead
  <2>2. /\ DOMAIN active' = 1 .. Len(active) + 1 /\ DOMAIN active = 1 .. Len(active)
        /\ Len(active) \in Nat
        /\ \A k \in 1 .. Len(active) : active'[k] = active[k]
        /\ active'[Len(active) + 1] = hand
    BY <1>1, <1>2
  <2>3. CASE j = Len(active) + 1
    BY <2>1, <2>2, <2>3
  <2>4. CASE j # Len(active) + 1
    <3>1. i \in DOMAIN active /\ j \in DOMAIN active
      BY <2>1, <2>2, <2>4
    <3> QED
      BY <2>1, <2>2, <3>1 DEF Ahead
  <2> QED
    BY <2>3, <2>4
<1>8. Pending = {} /\ Pending' = {} /\ Late = 0 /\ Late' = 0
  BY <1>1 DEF OrderInv, RetireInv, HomeInv, RoundLocals, Pending, Late
<1>9. \A r \in Requests : Expected(r)' = gen[r]
  BY <1>1, <1>2, <1>8 DEF Expected, Owed
<1>10. \A a, b \in Requests : Ahead(a, b)' => gen[b] <= gen[a]
  <2> SUFFICES ASSUME NEW a \in Requests, NEW b \in Requests, Ahead(a, b)'
               PROVE  gen[b] <= gen[a]
    OBVIOUS
  <2>1. CASE b = hand
    BY <1>2, <1>5, <2>1
  <2>2. CASE Ahead(a, b)
    <3>1. gen[b] <= gen[a] + 0
      BY <1>8, <2>2 DEF OrderInv, InOrder
    <3> QED
      BY <1>2, <3>1
  <2> QED
    BY <1>7, <2>1, <2>2
<1>11. InOrder'
  BY <1>1, <1>2, <1>8, <1>10 DEF InOrder
<1>12. InStep'
  BY <1>9, <1>10 DEF InStep
<1> QED
  BY <1>6, <1>11, <1>12 DEF OrderInv

\* Every other step, of a caller, of the thread between rounds or of stop().
LEMMA OtherOrder ==
  ASSUME OrderInv, RetireInv',
         UNCHANGED <<active, gen, sentinel, snapshot, fresh, ready, group>>,
         tpc' = tpc \/ (tpc # "round" /\ tpc' # "round" /\ retiring = None),
         tpc = "dead" => tpc' = "dead",
         retiring' = retiring \/ (retiring = None /\ tpc = "dead")
  PROVE  OrderInv'
<1>1. RetiresInRounds' /\ Untouched'
  BY DEF OrderInv, RetiresInRounds, Untouched
<1>2. \A a, b \in Requests : Ahead(a, b)' <=> Ahead(a, b)
  BY DEF Ahead
<1>3. Pending' = Pending
  BY DEF Pending
<1>4. None \notin Requests
  BY SchedulerAssumption
<1>5. InOrder' /\ InStep'
  BY <1>2, <1>3, <1>4, OrderKept
<1> QED
  BY <1>1, <1>5 DEF OrderInv

LEMMA StepOrder == OrderInv /\ [Next]_vars => OrderInv'
<1> SUFFICES ASSUME OrderInv, [Next]_vars PROVE OrderInv'
  OBVIOUS
<1>1. RetireInv'
  BY StepRetire DEF OrderInv
<1>2. ASSUME NEW c \in Callers, Call(c) \/ InCall(c) PROVE OrderInv'
  <2>1. UNCHANGED <<active, gen, sentinel, snapshot, fresh, ready, group, tpc,
                    retiring>>
    BY <1>2 DEF Call, InCall, BeginSubmit, CheckCapacity, ClaimSession, Enqueue,
                CreateSession, DeleteSession, requestVars, roundVars, retireVars
  <2> QED
    BY <1>1, <2>1, OtherOrder
<1>3. CASE Retire
  BY <1>1, <1>3, RetireOrder
<1>4. CASE StepFresh \/ StepAlone \/ HandleMember
  BY <1>1, <1>4, SteppedOrder
<1>5. CASE BeginRound \/ StepBatched \/ SamplingCrash \/ EndRound
  BY <1>1, <1>5, RoundOrder
<1>6. CASE AdmitAppend
  BY <1>1, <1>6, AdmittedOrder
<1>7. CASE Start \/ LoopTop \/ AdmitPop \/ AdmitEnd \/ NothingActive
  <2>1. /\ UNCHANGED <<active, gen, sentinel, snapshot, fresh, ready, group,
                       retiring>>
        /\ tpc # "dead"
    BY <1>7 DEF Start, LoopTop, AdmitPop, AdmitEnd, NothingActive, At,
                requestVars, roundVars, retireVars
  <2>2. tpc # "round" /\ tpc' # "round" /\ retiring = None
    BY <1>7 DEF Start, LoopTop, AdmitPop, AdmitEnd, NothingActive, At, OrderInv,
                RetiresInRounds
  <2> QED
    BY <1>1, <2>1, <2>2, OtherOrder
<1>8. CASE Stop
  <2>1. UNCHANGED <<active, gen, sentinel, snapshot, fresh, ready, group, tpc>>
    BY <1>8 DEF Stop, FinishStop, BeginStop, JoinTimeout, Joined, RetireStuck,
                RetiredAll, DrainIncoming, Stopped, requestVars, roundVars
  <2>2. retiring' = retiring \/ (retiring = None /\ tpc = "dead")
    BY <1>8 DEF Stop, FinishStop, BeginStop, JoinTimeout, Joined, RetireStuck,
                RetiredAll, DrainIncoming, Stopped, retireVars, OrderInv,
                RetireInv, StopAlone
  <2> QED
    BY <1>1, <2>1, <2>2, OtherOrder
<1>9. CASE UNCHANGED vars
  <2>1. UNCHANGED <<active, gen, sentinel, snapshot, fresh, ready, group, tpc,
                    retiring>>
    BY <1>9 DEF vars, requestVars, roundVars, retireVars
  <2> QED
    BY <1>1, <2>1, OtherOrder
<1> QED
  BY <1>2, <1>3, <1>4, <1>5, <1>6, <1>7, <1>8, <1>9 DEF Next, Run

\* Between rounds nobody who was admitted first has fewer tokens, and inside a
\* round at most one token fewer, although _retire changes _active under the
\* round's snapshot and a failed step or a crash ends it early.
THEOREM FirstComeFirst == Spec => []RoundRobin
<1>1. ASSUME OrderInv PROVE RoundRobin
  <2> SUFFICES ASSUME NEW i \in 1 .. Len(active), NEW j \in 1 .. Len(active), i < j
               PROVE  gen[active[j]] <= gen[active[i]] + Late
    BY DEF RoundRobin, Late
  <2>1. active \in Seq(Requests)
    BY <1>1 DEF OrderInv, RetireInv, HomeInv, TypeOK, ListTypes
  <2>2. /\ active[i] \in Requests /\ active[j] \in Requests
        /\ i \in DOMAIN active /\ j \in DOMAIN active
    BY <2>1
  <2>3. Ahead(active[i], active[j])
    BY <2>2 DEF Ahead
  <2> QED
    BY <1>1, <2>2, <2>3 DEF OrderInv, InOrder
<1> QED
  BY <1>1, InitOrder, StepOrder, PTL DEF Spec

-----------------------------------------------------------------------------
(* Sessions and their turns *)

\* The requests between their claim of a session (or, one-shot, their capacity
\* check) and their put.
Putting == {arg[c] : c \in {d \in Callers : pc[d] = "put"}}

\* TurnsHoldSessions, session by session and request by request.
Turns ==
  /\ \A s \in busy : \E r \in InFlight : session[r] = s
  /\ \A r \in InFlight : session[r] # OneShot => session[r] \in busy
  /\ \A r, q \in InFlight :
       session[r] = session[q] /\ session[r] # OneShot => r = q
  /\ busy \subseteq sessions

TurnInv == RetireInv /\ Turns
-----------------------------------------------------------------------------
LEMMA TurnsAre == ASSUME TypeOK PROVE Turns <=> TurnsHoldSessions
<1> DEFINE T == {session[r] : r \in InFlight}
<1>1. ASSUME busy \subseteq sessions PROVE OneShot \notin busy
  BY <1>1, SchedulerAssumption DEF TypeOK, RegistryTypes
<1>2. ASSUME Turns PROVE busy = T \ {OneShot}
  BY <1>1, <1>2 DEF Turns
<1>3. ASSUME busy = T \ {OneShot}
      PROVE  /\ \A s \in busy : \E r \in InFlight : session[r] = s
             /\ \A r \in InFlight : session[r] # OneShot => session[r] \in busy
  BY <1>3
<1> HIDE DEF T
<1> QED
  BY <1>2, <1>3 DEF Turns, TurnsHoldSessions, T

LEMMA FlightParts ==
  InFlight = Putting \cup ToSet(incoming) \cup ToSet(active) \cup Held
               \cup ({retiring} \ {None}) \cup (done \ sentinel)
BY DEF InFlight, Putting, Held, Abandoned

LEMMA FlightPartsNext ==
  InFlight' = Putting' \cup ToSet(incoming') \cup ToSet(active') \cup Held'
                \cup ({retiring'} \ {None}) \cup (done' \ sentinel')
BY DEF InFlight, Putting, Held, Abandoned

\* Requests in flight are requests, and their session is fixed.
LEMMA FlightSettled ==
  ASSUME HomeInv
  PROVE  /\ InFlight \subseteq Requests
         /\ \A r \in InFlight : session[r] # None
<1>1. InFlight \subseteq Putting \cup Known
  BY FlightParts, KnownParts DEF HomeInv, Answered
<1>2. \A r \in Putting : r \in Requests /\ session[r] # None
  BY DEF HomeInv, OwnRequests, Putting
<1>3. \A r \in Known : r \in Requests /\ session[r] # None
  BY KnownAreRequests DEF HomeInv, OwnRequests
<1> QED
  BY <1>1, <1>2, <1>3

LEMMA TurnsKept ==
  ASSUME Turns, InFlight' = InFlight, UNCHANGED <<session, busy, sessions>>
  PROVE  Turns'
BY DEF Turns

\* No step but a claim, a one-shot capacity check and a release changes which
\* requests are in flight.
LEMMA PuttingKept ==
  ASSUME UNCHANGED <<pc, arg>>
  PROVE  Putting' = Putting
BY DEF Putting

LEMMA InitTurns == Init => TurnInv
<1> SUFFICES ASSUME Init PROVE TurnInv
  OBVIOUS
<1>1. Putting = {} /\ ToSet(<<>>) = {}
  BY DEF Init, Putting, ToSet
<1>2. InFlight = {}
  BY <1>1, FlightParts DEF Init, Held
<1>3. Turns
  BY <1>2 DEF Init, Turns
<1> QED
  BY <1>3, InitRetire DEF TurnInv

\* What a step of a call does to the requests that were not put yet.
LEMMA CallFlight ==
  ASSUME RetireInv, NEW c \in Callers, Call(c) \/ InCall(c)
  PROVE  \/ CheckCapacity(c) /\ UNCHANGED <<session, busy, sessions>>
              /\ session[arg[c]] = OneShot /\ pc'[c] = "put"
              /\ InFlight' = InFlight \cup {arg[c]}
         \/ ClaimSession(c) /\ session[arg[c]] \in sessions \ busy
              /\ UNCHANGED <<session, sessions>>
              /\ busy' = busy \cup {session[arg[c]]}
              /\ InFlight' = InFlight \cup {arg[c]}
         \/ /\ InFlight' = InFlight
            /\ CheckCapacity(c) => pc'[c] # "put"
            /\ \/ UNCHANGED <<session, busy, sessions>>
               \/ \E r \in Requests, s \in Sessions \cup {OneShot} :
                    /\ session[r] = None /\ session' = [session EXCEPT ![r] = s]
                    /\ UNCHANGED <<busy, sessions>>
               \/ \E s \in Sessions \ busy :
                    /\ sessions' = sessions \ {s} /\ UNCHANGED <<session, busy>>
               \/ \E s \in Sessions :
                    /\ sessions' = sessions \cup {s}
                    /\ UNCHANGED <<session, busy>>
<1>1. /\ pc \in [Callers -> {"ready", "depth", "claim", "put"}]
      /\ arg \in [Callers -> Requests \cup {None}]
  BY DEF RetireInv, HomeInv, TypeOK, CallerTypes
<1>2. UNCHANGED <<active, hand, retiring, sentinel, done>>
  BY DEF Call, InCall, BeginSubmit, CheckCapacity, ClaimSession, Enqueue,
         CreateSession, DeleteSession, requestVars, retireVars
<1>3. ASSUME UNCHANGED incoming, NEW X, Putting' = Putting \cup X
      PROVE  InFlight' = InFlight \cup X
  BY <1>2, <1>3, FlightParts, FlightPartsNext DEF Held
<1>4. ASSUME NEW r \in Requests, NEW s \in Sessions \cup {OneShot},
             BeginSubmit(c, r, s)
      PROVE  /\ InFlight' = InFlight /\ UNCHANGED <<busy, sessions>>
             /\ session[r] = None /\ session' = [session EXCEPT ![r] = s]
             /\ pc[c] = "ready"
  <2>1. /\ session[r] = None /\ session' = [session EXCEPT ![r] = s]
        /\ UNCHANGED <<busy, sessions, incoming>>
        /\ pc[c] = "ready" /\ pc' = [pc EXCEPT ![c] = "depth"]
        /\ arg' = [arg EXCEPT ![c] = r]
    BY <1>4 DEF BeginSubmit, MayCall, registryVars
  <2>2. Putting' = Putting \cup {}
    BY <1>1, <2>1 DEF Putting
  <2> QED
    BY <1>3, <2>1, <2>2
<1>5. ASSUME NEW s \in Sessions, CreateSession(c, s) \/ DeleteSession(c, s)
      PROVE  /\ InFlight' = InFlight /\ UNCHANGED <<session, busy>>
             /\ pc[c] = "ready"
             /\ \/ sessions' = sessions \cup {s}
                \/ sessions' = sessions \ {s} /\ s \notin busy
  <2>1. /\ UNCHANGED <<pc, arg, incoming, session, busy>> /\ pc[c] = "ready"
        /\ \/ sessions' = sessions \cup {s}
           \/ sessions' = sessions \ {s} /\ s \notin busy
    BY <1>5 DEF CreateSession, DeleteSession, MayCall, callerVars, requestVars
  <2>2. Putting' = Putting \cup {}
    BY <2>1, PuttingKept
  <2> QED
    BY <1>3, <2>1, <2>2
<1>6. CASE CheckCapacity(c)
  <2>1. /\ pc[c] = "depth"
        /\ UNCHANGED <<session, busy, sessions, incoming>>
        /\ \A d \in Callers \ {c} : pc'[d] = pc[d] /\ arg'[d] = arg[d]
    BY <1>1, <1>6 DEF CheckCapacity, registryVars
  <2>2. CASE pc'[c] = "put"
    <3>1. session[arg[c]] = OneShot /\ arg' = arg
      BY <1>1, <1>6, <2>2 DEF CheckCapacity
    <3>2. Putting' = Putting \cup {arg[c]}
      BY <2>1, <2>2, <3>1 DEF Putting
    <3> QED
      BY <1>3, <1>6, <2>1, <2>2, <3>1, <3>2
  <2>3. CASE pc'[c] # "put"
    <3>1. Putting' = Putting \cup {}
      BY <2>1, <2>3 DEF Putting
    <3> QED
      BY <1>3, <2>1, <2>3, <3>1
  <2> QED
    BY <2>2, <2>3
<1>7. CASE ClaimSession(c)
  <2> DEFINE s == session[arg[c]]
  <2>1. /\ pc[c] = "claim"
        /\ UNCHANGED <<session, sessions, incoming>>
        /\ \A d \in Callers \ {c} : pc'[d] = pc[d] /\ arg'[d] = arg[d]
    BY <1>1, <1>7 DEF ClaimSession
  <2>2. CASE s \in sessions /\ s \notin busy
    <3>1. busy' = busy \cup {s} /\ pc'[c] = "put" /\ arg' = arg
      BY <1>1, <1>7, <2>2 DEF ClaimSession
    <3>2. Putting' = Putting \cup {arg[c]}
      BY <2>1, <3>1 DEF Putting
    <3> QED
      BY <1>3, <1>7, <2>1, <2>2, <3>1, <3>2
  <2>3. CASE ~(s \in sessions /\ s \notin busy)
    <3>1. UNCHANGED busy /\ pc'[c] = "ready"
      BY <1>1, <1>7, <2>3 DEF ClaimSession
    <3>2. Putting' = Putting \cup {}
      BY <2>1, <3>1 DEF Putting
    <3> QED
      BY <1>3, <2>1, <3>1, <3>2 DEF CheckCapacity
  <2> QED
    BY <2>2, <2>3
<1>8. CASE Enqueue(c)
  <2>1. /\ pc[c] = "put" /\ pc'[c] = "ready"
        /\ incoming' = Append(incoming, arg[c])
        /\ UNCHANGED <<session, busy, sessions>>
        /\ \A d \in Callers \ {c} : pc'[d] = pc[d] /\ arg'[d] = arg[d]
    BY <1>1, <1>8 DEF Enqueue, requestVars, registryVars
  <2>2. arg[c] \in Putting /\ arg[c] \in Requests
    BY <2>1 DEF Putting, RetireInv, HomeInv, OwnRequests
  <2>3. Putting' \cup {arg[c]} = Putting
    BY <2>1 DEF Putting
  <2>4. ToSet(incoming') = ToSet(incoming) \cup {arg[c]}
    BY <2>1, <2>2, AppendSet DEF RetireInv, HomeInv, TypeOK, ListTypes
  <2>5. InFlight' = InFlight
    BY <1>2, <2>3, <2>4, FlightParts, FlightPartsNext DEF Held
  <2> QED
    BY <2>1, <2>5 DEF CheckCapacity
<1> QED
  BY <1>4, <1>5, <1>6, <1>7, <1>8 DEF Call, InCall, CheckCapacity

LEMMA CallTurns ==
  ASSUME TurnInv, NEW c \in Callers, Call(c) \/ InCall(c)
  PROVE  Turns'
<1>1. arg[c] \in Requests \/ pc[c] = "ready"
  BY DEF TurnInv, RetireInv, HomeInv, OwnRequests
<1>2. CASE /\ UNCHANGED <<session, busy, sessions>>
           /\ session[arg[c]] = OneShot
           /\ InFlight' = InFlight \cup {arg[c]}
  BY <1>2 DEF TurnInv, Turns
<1>3. CASE /\ session[arg[c]] \in sessions \ busy
           /\ UNCHANGED <<session, sessions>>
           /\ busy' = busy \cup {session[arg[c]]}
           /\ InFlight' = InFlight \cup {arg[c]}
  <2>1. session[arg[c]] # OneShot
    BY <1>3, SchedulerAssumption DEF TurnInv, RetireInv, HomeInv, TypeOK,
                                     RegistryTypes
  <2>2. \A r \in InFlight : session[r] # session[arg[c]]
    BY <1>3, <2>1 DEF TurnInv, Turns
  <2> QED
    BY <1>3, <2>1, <2>2 DEF TurnInv, Turns
<1>4. CASE InFlight' = InFlight
  <2>1. CASE UNCHANGED <<session, busy, sessions>>
    BY <1>4, <2>1, TurnsKept DEF TurnInv
  <2>2. ASSUME NEW r \in Requests, NEW s \in Sessions \cup {OneShot},
               session[r] = None, session' = [session EXCEPT ![r] = s],
               UNCHANGED <<busy, sessions>>
        PROVE  Turns'
    <3>1. \A q \in InFlight : q # r /\ q \in Requests
      BY <2>2, FlightSettled DEF TurnInv, RetireInv
    <3>2. \A q \in InFlight : session'[q] = session[q]
      BY <2>2, <3>1 DEF TurnInv, RetireInv, HomeInv, TypeOK, RequestTypes
    <3> QED
      BY <1>4, <2>2, <3>2 DEF TurnInv, Turns
  <2>3. ASSUME NEW s \in Sessions \ busy, sessions' = sessions \ {s},
               UNCHANGED <<session, busy>>
        PROVE  Turns'
    BY <1>4, <2>3 DEF TurnInv, Turns
  <2>4. ASSUME NEW s \in Sessions, sessions' = sessions \cup {s},
               UNCHANGED <<session, busy>>
        PROVE  Turns'
    BY <1>4, <2>4 DEF TurnInv, Turns
  <2> QED
    BY <1>2, <1>3, <2>1, <2>2, <2>3, <2>4, CallFlight DEF TurnInv
<1> QED
  BY <1>2, <1>3, <1>4, CallFlight DEF TurnInv

\* A statement of _retire takes no request out of flight, but the last one does.
LEMMA RetireFlight ==
  ASSUME RetireInv, Retire
  PROVE  \/ Release /\ InFlight' = InFlight \ {retiring}
         \/ ~Release /\ InFlight' = InFlight
              /\ UNCHANGED <<session, busy, sessions>>
<1>1. UNCHANGED <<incoming, hand, pc, arg>>
  BY DEF Retire, PutSentinel, SetDone, RemoveActive, Release, callerVars
<1>2. Putting' = Putting
  BY <1>1, PuttingKept
<1>3. retiring # None /\ retiring \in Requests /\ active \in Seq(Requests)
  BY DEF Retire, PutSentinel, SetDone, RemoveActive, Release, RetireInv, HomeInv,
         TypeOK, RetireTypes, ListTypes
<1>4. CASE PutSentinel \/ SetDone \/ RemoveActive
  <2>1. UNCHANGED <<session, busy, sessions, retiring>> /\ rpc # "release"
    BY <1>4 DEF PutSentinel, SetDone, RemoveActive, requestVars, registryVars
  <2>2. (done' \ sentinel') \cup {retiring} = (done \ sentinel) \cup {retiring}
    BY <1>4 DEF PutSentinel, SetDone, RemoveActive, requestVars
  <2>3. ToSet(active') \cup {retiring} = ToSet(active) \cup {retiring}
    BY <1>3, <1>4, RemoveFirstProperties
       DEF PutSentinel, SetDone, RemoveActive
  <2>4. InFlight' = InFlight
    BY <1>1, <1>2, <1>3, <2>1, <2>2, <2>3, FlightParts, FlightPartsNext DEF Held
  <2> QED
    BY <2>1, <2>4 DEF Release
<1>5. CASE Release
  <2>1. /\ UNCHANGED <<active, sentinel, done>> /\ rpc = "release"
        /\ retiring' = None
    BY <1>5 DEF Release, requestVars
  <2>2. /\ retiring \notin ToSet(active) \cup Held \cup ToSet(incoming)
        /\ retiring \in sentinel
    BY <1>3, <2>1 DEF RetireInv, Retiring
  <2>3. retiring \notin Putting
    BY <2>2 DEF Putting, RetireInv, HomeInv, OwnRequests, Known, Answered
  <2>4. InFlight' = InFlight \ {retiring}
    BY <1>1, <1>2, <2>1, <2>2, <2>3, FlightParts, FlightPartsNext DEF Held
  <2> QED
    BY <1>5, <2>4
<1> QED
  BY <1>4, <1>5 DEF Retire

LEMMA RetireTurns ==
  ASSUME TurnInv, Retire
  PROVE  Turns'
<1>1. CASE ~Release /\ InFlight' = InFlight /\ UNCHANGED <<session, busy, sessions>>
  BY <1>1, TurnsKept DEF TurnInv
<1>2. CASE Release /\ InFlight' = InFlight \ {retiring}
  <2>1. /\ retiring \in InFlight /\ busy' = busy \ {session[retiring]}
        /\ UNCHANGED <<session, sessions>>
    BY <1>2, FlightParts DEF Release, requestVars
  <2>2. \A r \in InFlight' : session[r] # OneShot => session[r] # session[retiring]
    BY <1>2, <2>1 DEF TurnInv, Turns
  <2> QED
    BY <1>2, <2>1, <2>2 DEF TurnInv, Turns
<1> QED
  BY <1>1, <1>2, RetireFlight DEF TurnInv

\* The scheduler thread and stop() neither add nor drop a request in flight.
LEMMA ThreadFlight ==
  ASSUME RetireInv, Start \/ Run \/ Stop
  PROVE  InFlight' = InFlight /\ UNCHANGED <<session, busy, sessions>>
<1>1. UNCHANGED <<session, busy, sessions, sentinel, pc, arg>>
  BY DEF Start, Run, LoopTop, AdmitPop, AdmitAppend, AdmitEnd, NothingActive,
         BeginRound, StepFresh, StepAlone, StepBatched, HandleMember,
         SamplingCrash, EndRound, Stop, FinishStop, BeginStop, JoinTimeout,
         Joined, RetireStuck, RetiredAll, DrainIncoming, Stopped, callerVars,
         requestVars, registryVars
<1>2. Putting' = Putting
  BY <1>1, PuttingKept
<1>3. active \in Seq(Requests) /\ incoming \in Seq(Requests) /\ None \notin Requests
  BY SchedulerAssumption DEF RetireInv, HomeInv, TypeOK, ListTypes
<1>4. CASE UNCHANGED <<active, incoming, hand, retiring, done>>
  BY <1>1, <1>2, <1>4, FlightParts, FlightPartsNext DEF Held
<1>5. CASE AdmitPop
  <2>1. /\ incoming # <<>> /\ hand = None /\ hand' = Head(incoming)
        /\ incoming' = Tail(incoming) /\ UNCHANGED <<active, retiring, done>>
    BY <1>5 DEF AdmitPop, requestVars, retireVars
  <2>2. ToSet(incoming) = ToSet(incoming') \cup {hand'} /\ hand' \in Requests
    BY <1>3, <2>1, HeadTailSet
  <2>3. Held = {} /\ Held' = {hand'}
    BY <1>3, <2>1, <2>2 DEF Held
  <2> QED
    BY <1>1, <1>2, <2>1, <2>2, <2>3, FlightParts, FlightPartsNext
<1>6. CASE AdmitAppend
  <2>1. /\ hand # None /\ hand' = None /\ active' = Append(active, hand)
        /\ UNCHANGED <<incoming, retiring, done>>
    BY <1>6 DEF AdmitAppend, requestVars, retireVars
  <2>2. hand \in Requests
    BY <2>1 DEF RetireInv, HomeInv, TypeOK, ThreadTypes
  <2>3. ToSet(active') = ToSet(active) \cup {hand}
    BY <1>3, <2>1, <2>2, AppendSet
  <2>4. Held = {hand} /\ Held' = {}
    BY <2>1 DEF Held
  <2> QED
    BY <1>1, <1>2, <2>1, <2>3, <2>4, FlightParts, FlightPartsNext
<1>7. CASE StepFresh \/ StepAlone \/ HandleMember
  <2>1. UNCHANGED <<active, incoming, hand, done>>
    BY <1>7 DEF StepFresh, StepAlone, HandleMember
  <2>2. PICK i \in DOMAIN snapshot : StepsOne(i)
    BY <1>7, SteppingOne
  <2>3. snapshot[i] \in ToSet(active)
    BY <2>2 DEF RetireInv, Unstepped, StepsOne
  <2>4. retiring = None /\ retiring' \in {None, snapshot[i]}
    BY <2>2 DEF StepsOne, retireVars
  <2> QED
    BY <1>1, <1>2, <2>1, <2>3, <2>4, FlightParts, FlightPartsNext DEF Held
<1>8. CASE RetireStuck
  <2>1. /\ UNCHANGED <<active, incoming, hand, done>> /\ active # <<>>
        /\ retiring = None /\ retiring' = Head(active)
    BY <1>8 DEF RetireStuck, FailStep, BeginRetire
  <2>2. Head(active) \in ToSet(active)
    BY <1>3, <2>1, HeadTailSet
  <2> QED
    BY <1>1, <1>2, <2>1, <2>2, FlightParts, FlightPartsNext DEF Held
<1>9. CASE DrainIncoming
  <2>1. /\ incoming # <<>> /\ incoming' = Tail(incoming)
        /\ done' = done \cup {Head(incoming)}
        /\ UNCHANGED <<active, hand, retiring>>
    BY <1>9 DEF DrainIncoming, retireVars
  <2>2. ToSet(incoming) = ToSet(incoming') \cup {Head(incoming)}
    BY <1>3, <2>1, HeadTailSet
  <2>3. Head(incoming) \notin sentinel
    BY <2>2 DEF RetireInv, Ended
  <2> QED
    BY <1>1, <1>2, <2>1, <2>2, <2>3, FlightParts, FlightPartsNext DEF Held
<1>10. \/ UNCHANGED <<active, incoming, hand, retiring, done>>
       \/ AdmitPop \/ AdmitAppend \/ StepFresh \/ StepAlone \/ HandleMember
       \/ RetireStuck \/ DrainIncoming
  BY DEF Start, Run, LoopTop, AdmitEnd, NothingActive, BeginRound, StepBatched,
         SamplingCrash, EndRound, Stop, FinishStop, BeginStop, JoinTimeout,
         Joined, RetiredAll, Stopped, requestVars, retireVars
<1> QED
  BY <1>1, <1>4, <1>5, <1>6, <1>7, <1>8, <1>9, <1>10

LEMMA StepTurns == TurnInv /\ [Next]_vars => TurnInv'
<1> SUFFICES ASSUME TurnInv, [Next]_vars PROVE TurnInv'
  OBVIOUS
<1>1. RetireInv'
  BY StepRetire DEF TurnInv
<1>2. ASSUME NEW c \in Callers, Call(c) \/ InCall(c) PROVE Turns'
  BY <1>2, CallTurns
<1>3. CASE Retire
  BY <1>1, <1>3, RetireTurns DEF TurnInv
<1>4. CASE Start \/ Run \/ Stop
  BY <1>1, <1>4, ThreadFlight, TurnsKept DEF TurnInv
<1>5. CASE UNCHANGED vars
  <2>1. /\ UNCHANGED <<pc, arg, incoming, active, hand, retiring, done, sentinel>>
        /\ UNCHANGED <<session, busy, sessions>>
    BY <1>5 DEF vars, callerVars, requestVars, retireVars, registryVars
  <2>2. InFlight' = InFlight
    BY <2>1, PuttingKept, FlightParts, FlightPartsNext DEF Held
  <2> QED
    BY <1>1, <2>1, <2>2, TurnsKept DEF TurnInv
<1> QED
  BY <1>1, <1>2, <1>3, <1>4, <1>5 DEF Next, TurnInv

\* A session is busy exactly while a turn of its own is in flight, one at most,
\* and is not deleted meanwhile: for every interleaving of submit_turn,
\* delete_session, the rounds, _retire and stop().
THEOREM OneTurnPerSession == Spec => []TurnsHoldSessions
<1>1. TurnInv => TurnsHoldSessions
  BY TurnsAre DEF TurnInv, RetireInv, HomeInv
<1> QED
  BY <1>1, InitTurns, StepTurns, PTL DEF Spec
-----------------------------------------------------------------------------
(* The history a turn extends *)

Tokens == Requests \X Nat

\* The history under the turn of r: none for a one-shot request.
Base(r) == IF session[r] = OneShot THEN <<>> ELSE history[session[r]]

\* A request that was not put yet has no tokens.
Unstarted ==
  /\ \A r \in Requests : session[r] = None => gen[r] = 0 /\ ids[r] = <<>>
  /\ \A c \in Callers :
       pc[c] # "ready" =>
         /\ gen[arg[c]] = 0
         /\ pc[c] # "put" => ids[arg[c]] = <<>>

HistoryInv == TurnInv /\ Unstarted /\ TurnExtendsHistory

\* The sequences Own is built from.
LEMMA OwnGrows ==
  ASSUME NEW r \in Requests, NEW n \in Nat
  PROVE  LET own(m) == [k \in 1 .. m + 1 |-> <<r, k - 1>>] IN
         /\ own(n) \in Seq(Tokens)
         /\ own(0) = <<<<r, 0>>>>
         /\ own(n + 1) = Append(own(n), <<r, n + 1>>)
<1> DEFINE own(m) == [k \in 1 .. m + 1 |-> <<r, k - 1>>]
<1>1. ASSUME NEW m \in Nat
      PROVE  /\ own(m) \in Seq(Tokens) /\ Len(own(m)) = m + 1
             /\ \A k \in 1 .. m + 1 : own(m)[k] = <<r, k - 1>>
  <2>1. \A k \in 1 .. m + 1 : <<r, k - 1>> \in Tokens
    BY DEF Tokens
  <2>2. own(m) \in Seq(Tokens)
    BY <2>1
  <2>3. DOMAIN own(m) = 1 .. m + 1
    OBVIOUS
  <2>4. Len(own(m)) = m + 1
    BY <2>2, <2>3, LenProperties
  <2> QED
    BY <2>2, <2>4
<1>2. <<r, 0>> \in Tokens /\ <<r, n + 1>> \in Tokens
  BY DEF Tokens
<1>3. own(0) = <<<<r, 0>>>>
  <2>1. own(0) \in Seq(Tokens) /\ Len(own(0)) = 1 /\ own(0)[1] = <<r, 0>>
    BY <1>1
  <2>2. <<<<r, 0>>>> \in Seq(Tokens) /\ Len(<<<<r, 0>>>>) = 1
        /\ <<<<r, 0>>>>[1] = <<r, 0>>
    BY <1>2
  <2> HIDE DEF own
  <2> QED
    BY <2>1, <2>2, SeqEqual
<1>4. own(n + 1) = Append(own(n), <<r, n + 1>>)
  <2>1. /\ own(n) \in Seq(Tokens) /\ Len(own(n)) = n + 1
        /\ \A k \in 1 .. n + 1 : own(n)[k] = <<r, k - 1>>
    BY <1>1
  <2>2. /\ own(n + 1) \in Seq(Tokens) /\ Len(own(n + 1)) = n + 2
        /\ \A k \in 1 .. n + 2 : own(n + 1)[k] = <<r, k - 1>>
    BY <1>1
  <2> HIDE DEF own
  <2> DEFINE t == Append(own(n), <<r, n + 1>>)
  <2>3. /\ t \in Seq(Tokens) /\ Len(t) = n + 2
        /\ \A k \in 1 .. n + 1 : t[k] = own(n)[k]
        /\ t[n + 2] = <<r, n + 1>>
    BY <1>2, <2>1, AppendProperties
  <2> HIDE DEF t
  <2>4. ASSUME NEW k \in 1 .. n + 2 PROVE own(n + 1)[k] = t[k]
    <3>1. CASE k \in 1 .. n + 1
      BY <2>1, <2>2, <2>3, <3>1
    <3>2. CASE k = n + 2
      <4>1. own(n + 1)[k] = <<r, k - 1>> /\ k - 1 = n + 1
        BY <2>2, <3>2
      <4> QED
        BY <2>3, <3>2, <4>1
    <3> QED
      BY <3>1, <3>2
  <2>5. own(n + 1) = t
    BY <2>2, <2>3, <2>4, SeqEqual
  <2> QED
    BY <2>5 DEF t
<1> QED
  BY <1>1, <1>3, <1>4

\* A token at the end of a concatenation.
LEMMA AppendToConcat ==
  \A h, o \in Seq(Tokens), e \in Tokens : Append(h \o o, e) = h \o Append(o, e)
<1> SUFFICES ASSUME NEW h \in Seq(Tokens), NEW o \in Seq(Tokens), NEW e \in Tokens
             PROVE  Append(h \o o, e) = h \o Append(o, e)
  OBVIOUS
<1>1. h \o o \in Seq(Tokens) /\ <<e>> \in Seq(Tokens)
  BY ConcatProperties
<1>2. Append(h \o o, e) = (h \o o) \o <<e>> /\ Append(o, e) = o \o <<e>>
  BY <1>1, AppendIsConcat
<1> QED
  BY <1>1, <1>2, ConcatAssociative

LEMMA BaseType ==
  ASSUME HomeInv, NEW r \in InFlight
  PROVE  /\ r \in Requests /\ gen[r] \in Nat
         /\ session[r] = OneShot \/ session[r] \in Sessions
         /\ Base(r) \in Seq(Tokens)
<1>1. r \in Requests /\ session[r] # None
  BY FlightSettled
<1>2. gen[r] \in Nat /\ session[r] \in Sessions \cup {OneShot}
  BY <1>1 DEF HomeInv, TypeOK, RequestTypes
<1>3. <<>> \in Seq(Tokens)
  BY EmptySeq
<1> QED
  BY <1>1, <1>2, <1>3 DEF HomeInv, TypeOK, RegistryTypes, Base, Tokens

LEMMA InitHistory == Init => HistoryInv
<1> SUFFICES ASSUME Init PROVE HistoryInv
  OBVIOUS
<1>1. Unstarted
  BY DEF Init, Unstarted
<1>2. Putting = {} /\ ToSet(<<>>) = {}
  BY DEF Init, Putting, ToSet
<1>3. InFlight = {}
  BY <1>2, FlightParts DEF Init, Held
<1> QED
  BY <1>1, <1>3, InitTurns DEF HistoryInv, TurnExtendsHistory

\* A request in flight whose sequence and history do not change.
LEMMA ExtendsKept ==
  ASSUME TurnExtendsHistory,
         \A r \in InFlight' :
           /\ r \in InFlight
           /\ session'[r] = session[r] /\ ids'[r] = ids[r] /\ gen'[r] = gen[r]
           /\ session[r] # OneShot =>
                history'[session[r]] = history[session[r]]
  PROVE  TurnExtendsHistory'
<1> SUFFICES ASSUME NEW r \in InFlight'
             PROVE  ids'[r] = (IF session'[r] = OneShot THEN <<>>
                               ELSE history'[session'[r]])
                              \o [k \in 1 .. gen'[r] + 1 |-> <<r, k - 1>>]
  BY DEF TurnExtendsHistory, Own
<1>1. ids[r] = (IF session[r] = OneShot THEN <<>> ELSE history[session[r]])
                 \o [k \in 1 .. gen[r] + 1 |-> <<r, k - 1>>]
  BY DEF TurnExtendsHistory, Own
<1> QED
  BY <1>1

\* A request that joins the ones in flight with its prompt only.
LEMMA ExtendsBegun ==
  ASSUME HistoryInv, NEW r \in Requests, InFlight' = InFlight \cup {r},
         session[r] \in Sessions \cup {OneShot}, gen[r] = 0,
         UNCHANGED <<session, gen, history>>,
         ids' = [ids EXCEPT ![r] = Append(Base(r), <<r, 0>>)],
         r \notin InFlight
  PROVE  TurnExtendsHistory'
<1>1. ids \in [Requests -> Seq(Requests \X Nat)] /\ InFlight \subseteq Requests
  BY FlightSettled DEF HistoryInv, TurnInv, RetireInv, HomeInv, TypeOK, RequestTypes
<1>2. Base(r) \in Seq(Tokens) /\ <<r, 0>> \in Tokens
  BY EmptySeq DEF HistoryInv, TurnInv, RetireInv, HomeInv, TypeOK, RegistryTypes,
                  Base, Tokens
<1>3. ids'[r] = Base(r) \o <<<<r, 0>>>>
  BY <1>1, <1>2, AppendIsConcat
<1>4. <<<<r, 0>>>> = [k \in 1 .. gen[r] + 1 |-> <<r, k - 1>>]
  BY OwnGrows
<1> SUFFICES ASSUME NEW q \in InFlight'
             PROVE  ids'[q] = (IF session'[q] = OneShot THEN <<>>
                               ELSE history'[session'[q]])
                              \o [k \in 1 .. gen'[q] + 1 |-> <<q, k - 1>>]
  BY DEF TurnExtendsHistory, Own
<1>5. CASE q = r
  BY <1>3, <1>4, <1>5 DEF Base
<1>6. CASE q # r
  <2>1. ids'[q] = ids[q] /\ q \in InFlight
    BY <1>1, <1>6
  <2> QED
    BY <2>1 DEF HistoryInv, TurnExtendsHistory, Own
<1> QED
  BY <1>5, <1>6

\* A request inside a call that was not accepted yet is not in flight.
LEMMA ArgOutOfFlight ==
  ASSUME HomeInv, NEW c \in Callers, pc[c] \in {"depth", "claim"}
  PROVE  arg[c] \in Requests /\ arg[c] \notin InFlight
<1>1. InFlight \subseteq Putting \cup Known
  BY FlightParts, KnownParts DEF HomeInv, Answered
<1>2. arg[c] \in Requests \ Known /\ arg[c] \notin Putting
  BY DEF HomeInv, OwnRequests, Putting
<1> QED
  BY <1>1, <1>2

LEMMA CallHistory ==
  ASSUME HistoryInv, NEW c \in Callers, Call(c) \/ InCall(c)
  PROVE  Unstarted' /\ TurnExtendsHistory'
<1>1. /\ pc \in [Callers -> {"ready", "depth", "claim", "put"}]
      /\ arg \in [Callers -> Requests \cup {None}]
      /\ session \in [Requests -> Sessions \cup {OneShot, None}]
      /\ ids \in [Requests -> Seq(Requests \X Nat)]
      /\ history \in [Sessions -> Seq(Requests \X Nat)]
  BY DEF HistoryInv, TurnInv, RetireInv, HomeInv, TypeOK, CallerTypes, RequestTypes,
         RegistryTypes
<1>2. UNCHANGED gen
  BY DEF Call, InCall, BeginSubmit, CheckCapacity, ClaimSession, Enqueue,
         CreateSession, DeleteSession, requestVars
<1>3. ASSUME NEW r \in Requests, NEW s \in Sessions \cup {OneShot},
             BeginSubmit(c, r, s)
      PROVE  Unstarted' /\ TurnExtendsHistory'
  <2>1. /\ session[r] = None /\ session' = [session EXCEPT ![r] = s]
        /\ UNCHANGED <<ids, history>> /\ pc[c] = "ready"
        /\ pc' = [pc EXCEPT ![c] = "depth"] /\ arg' = [arg EXCEPT ![c] = r]
    BY <1>3 DEF BeginSubmit, MayCall, registryVars
  <2>2. InFlight' = InFlight
    BY <1>3, <2>1, CallFlight
       DEF HistoryInv, TurnInv, Call, CheckCapacity, ClaimSession
  <2>3. \A q \in InFlight : q \in Requests /\ q # r
    BY <2>1, FlightSettled DEF HistoryInv, TurnInv, RetireInv
  <2>4. \A q \in InFlight : session'[q] = session[q]
    BY <1>1, <2>1, <2>3
  <2>5. TurnExtendsHistory'
    BY <1>2, <2>1, <2>2, <2>4, ExtendsKept DEF HistoryInv
  <2>6. s # None
    BY SchedulerAssumption
  <2>7. Unstarted'
    BY <1>1, <1>2, <2>1, <2>6 DEF HistoryInv, Unstarted
  <2> QED
    BY <2>5, <2>7
<1>4. CASE CheckCapacity(c)
  <2>1. /\ pc[c] = "depth" /\ UNCHANGED <<session, history>>
        /\ \A d \in Callers \ {c} : pc'[d] = pc[d] /\ arg'[d] = arg[d]
        /\ pc'[c] # "ready" => arg'[c] = arg[c]
        /\ ids' = IF pc'[c] = "put"
                  THEN [ids EXCEPT ![arg[c]] = <<<<arg[c], 0>>>>] ELSE ids
    BY <1>1, <1>4 DEF CheckCapacity, registryVars
  <2>2. arg[c] \in Requests /\ arg[c] \notin InFlight
    BY <2>1, ArgOutOfFlight DEF HistoryInv, TurnInv, RetireInv
  <2>3. gen[arg[c]] = 0 /\ session[arg[c]] # None
    BY <2>1 DEF HistoryInv, Unstarted, TurnInv, RetireInv, HomeInv, OwnRequests
  <2>4. \A d \in Callers \ {c} : pc[d] # "ready" => arg[d] # arg[c] /\ arg[d] \in Requests
    BY <2>1 DEF HistoryInv, TurnInv, RetireInv, HomeInv, OwnRequests
  <2>5. \A q \in Requests \ {arg[c]} : ids'[q] = ids[q]
    BY <1>1, <2>1
  <2>6. Unstarted'
    BY <1>2, <2>1, <2>3, <2>4, <2>5 DEF HistoryInv, Unstarted
  <2>7. CASE pc'[c] = "put"
    <3>1. session[arg[c]] = OneShot /\ InFlight' = InFlight \cup {arg[c]}
      BY <1>4, <2>1, <2>7, CallFlight
         DEF HistoryInv, TurnInv, InCall, CheckCapacity, ClaimSession
    <3>2. Append(Base(arg[c]), <<arg[c], 0>>) = <<<<arg[c], 0>>>>
      BY <3>1 DEF Base
    <3> QED
      BY <1>2, <2>1, <2>2, <2>3, <2>6, <2>7, <3>1, <3>2, ExtendsBegun
  <2>8. CASE pc'[c] # "put"
    <3>1. InFlight' = InFlight
      BY <1>4, <2>1, <2>8, CallFlight DEF HistoryInv, TurnInv, InCall, ClaimSession
    <3>2. TurnExtendsHistory'
      BY <1>2, <2>1, <2>8, <3>1, ExtendsKept DEF HistoryInv
    <3> QED
      BY <2>6, <3>2
  <2> QED
    BY <2>7, <2>8
<1>5. CASE ClaimSession(c)
  <2> DEFINE s == session[arg[c]]
  <2>1. /\ pc[c] = "claim" /\ UNCHANGED <<session, history>>
        /\ \A d \in Callers \ {c} : pc'[d] = pc[d] /\ arg'[d] = arg[d]
        /\ pc'[c] # "ready" => arg'[c] = arg[c] /\ pc'[c] = "put"
    BY <1>1, <1>5 DEF ClaimSession
  <2>2. arg[c] \in Requests /\ arg[c] \notin InFlight
    BY <2>1, ArgOutOfFlight DEF HistoryInv, TurnInv, RetireInv
  <2>3. gen[arg[c]] = 0 /\ session[arg[c]] # None
    BY <2>1 DEF HistoryInv, Unstarted, TurnInv, RetireInv, HomeInv, OwnRequests
  <2>4. \A d \in Callers \ {c} : pc[d] # "ready" => arg[d] # arg[c] /\ arg[d] \in Requests
    BY <2>1 DEF HistoryInv, TurnInv, RetireInv, HomeInv, OwnRequests
  <2>5. CASE s \in sessions /\ s \notin busy
    <3>1. ids' = [ids EXCEPT ![arg[c]] = Append(history[s], <<arg[c], 0>>)]
      BY <1>5, <2>5 DEF ClaimSession
    <3>2. s \in Sessions /\ s # OneShot
      BY <2>5, SchedulerAssumption DEF HistoryInv, TurnInv, RetireInv, HomeInv,
                                       TypeOK, RegistryTypes
    <3>3. busy' = busy \cup {s}
      BY <1>5, <2>5 DEF ClaimSession
    <3>4. InFlight' = InFlight \cup {arg[c]}
      BY <1>5, <2>1, <2>5, <3>3, CallFlight
         DEF HistoryInv, TurnInv, InCall, CheckCapacity
    <3>5. TurnExtendsHistory'
      BY <1>2, <2>1, <2>2, <2>3, <3>1, <3>2, <3>4, ExtendsBegun DEF Base
    <3>6. \A q \in Requests \ {arg[c]} : ids'[q] = ids[q]
      BY <1>1, <3>1
    <3>7. Unstarted'
      BY <1>2, <2>1, <2>3, <2>4, <3>6 DEF HistoryInv, Unstarted
    <3> QED
      BY <3>5, <3>7
  <2>6. CASE ~(s \in sessions /\ s \notin busy)
    <3>1. UNCHANGED ids /\ pc'[c] = "ready"
      BY <1>1, <1>5, <2>6 DEF ClaimSession
    <3>2. InFlight' = InFlight
      BY <1>5, <2>1, <2>6, CallFlight DEF HistoryInv, TurnInv, InCall, CheckCapacity
    <3>3. TurnExtendsHistory'
      BY <1>2, <2>1, <3>1, <3>2, ExtendsKept DEF HistoryInv
    <3>4. Unstarted'
      BY <1>2, <2>1, <2>4, <3>1 DEF HistoryInv, Unstarted
    <3> QED
      BY <3>3, <3>4
  <2> QED
    BY <2>5, <2>6
<1>6. CASE Enqueue(c)
  <2>1. /\ pc[c] = "put" /\ pc'[c] = "ready" /\ UNCHANGED <<session, ids, history>>
        /\ \A d \in Callers \ {c} : pc'[d] = pc[d] /\ arg'[d] = arg[d]
    BY <1>1, <1>6 DEF Enqueue, requestVars, registryVars
  <2>2. InFlight' = InFlight
    BY <1>6, <2>1, CallFlight
       DEF HistoryInv, TurnInv, InCall, CheckCapacity, ClaimSession
  <2>3. Unstarted'
    BY <1>2, <2>1 DEF HistoryInv, Unstarted
  <2> QED
    BY <1>2, <2>1, <2>2, <2>3, ExtendsKept DEF HistoryInv
<1>7. ASSUME NEW s \in Sessions, CreateSession(c, s) \/ DeleteSession(c, s)
      PROVE  Unstarted' /\ TurnExtendsHistory'
  <2>1. /\ UNCHANGED <<pc, arg, session, ids>> /\ pc[c] = "ready"
        /\ \/ UNCHANGED history
           \/ history' = [history EXCEPT ![s] = <<>>] /\ s \notin busy
    BY <1>7 DEF CreateSession, DeleteSession, MayCall, callerVars, requestVars
  <2>2. InFlight' = InFlight
    BY <1>7, <2>1, CallFlight
       DEF HistoryInv, TurnInv, Call, CheckCapacity, ClaimSession
  <2>3. \A r \in InFlight :
          session[r] # OneShot => history'[session[r]] = history[session[r]]
    <3> SUFFICES ASSUME NEW r \in InFlight, session[r] # OneShot
                 PROVE  history'[session[r]] = history[session[r]]
      OBVIOUS
    <3>1. session[r] \in Sessions /\ session[r] \in busy
      BY BaseType DEF HistoryInv, TurnInv, RetireInv, Turns
    <3> QED
      BY <1>1, <2>1, <3>1
  <2>4. Unstarted'
    BY <1>2, <2>1 DEF HistoryInv, Unstarted
  <2> QED
    BY <1>2, <2>1, <2>2, <2>3, <2>4, ExtendsKept DEF HistoryInv
<1> QED
  BY <1>3, <1>4, <1>5, <1>6, <1>7 DEF Call, InCall

\* Steps that change the tokens of nobody that is still inside a call.
LEMMA UnstartedKept ==
  ASSUME HistoryInv, UNCHANGED <<pc, arg, session>>,
         \A r \in Requests \ Known : gen'[r] = gen[r] /\ ids'[r] = ids[r]
  PROVE  Unstarted'
<1>1. \A r \in Requests : session[r] = None => r \notin Known
  BY DEF HistoryInv, TurnInv, RetireInv, HomeInv, OwnRequests
<1>2. \A c \in Callers : pc[c] # "ready" => arg[c] \in Requests \ Known
  BY DEF HistoryInv, TurnInv, RetireInv, HomeInv, OwnRequests
<1> QED
  BY <1>1, <1>2 DEF HistoryInv, Unstarted

LEMMA RetireHistory ==
  ASSUME HistoryInv, Retire
  PROVE  Unstarted' /\ TurnExtendsHistory'
<1>1. UNCHANGED <<pc, arg, session, gen, ids>>
  BY DEF Retire, PutSentinel, SetDone, RemoveActive, Release, callerVars,
         requestVars
<1>2. Unstarted'
  BY <1>1, UnstartedKept
<1>3. CASE ~Release
  <2>1. InFlight' = InFlight
    BY <1>3, RetireFlight DEF HistoryInv, TurnInv
  <2>2. UNCHANGED history
    BY <1>3 DEF Retire, PutSentinel, SetDone, RemoveActive, registryVars
  <2> QED
    BY <1>1, <1>2, <2>1, <2>2, ExtendsKept DEF HistoryInv
<1>4. CASE Release
  <2>1. InFlight' = InFlight \ {retiring} /\ retiring \in InFlight
    BY <1>4, RetireFlight, FlightParts DEF HistoryInv, TurnInv, Release
  <2>2. history' \in {history, [history EXCEPT ![session[retiring]] = ids[retiring]]}
    BY <1>4 DEF Release
  <2>3. \A r \in InFlight' :
          session[r] # OneShot => history'[session[r]] = history[session[r]]
    <3> SUFFICES ASSUME NEW r \in InFlight', session[r] # OneShot
                 PROVE  history'[session[r]] = history[session[r]]
      OBVIOUS
    <3>1. session[r] \in Sessions
      BY <2>1, BaseType DEF HistoryInv, TurnInv, RetireInv
    <3>2. session[r] # session[retiring]
      BY <2>1 DEF HistoryInv, TurnInv, Turns
    <3> QED
      BY <2>2, <3>1, <3>2 DEF HistoryInv, TurnInv, RetireInv, HomeInv, TypeOK,
                              RegistryTypes
  <2> QED
    BY <1>1, <1>2, <2>1, <2>3, ExtendsKept DEF HistoryInv
<1> QED
  BY <1>3, <1>4

LEMMA ThreadHistory ==
  ASSUME HistoryInv, Start \/ Run \/ Stop
  PROVE  Unstarted' /\ TurnExtendsHistory'
<1>1. InFlight' = InFlight /\ UNCHANGED session
  BY ThreadFlight DEF HistoryInv, TurnInv
<1>2. UNCHANGED <<pc, arg, history>>
  BY DEF Start, Run, LoopTop, AdmitPop, AdmitAppend, AdmitEnd, NothingActive,
         BeginRound, StepFresh, StepAlone, StepBatched, HandleMember,
         SamplingCrash, EndRound, Stop, FinishStop, BeginStop, JoinTimeout,
         Joined, RetireStuck, RetiredAll, DrainIncoming, Stopped, callerVars,
         registryVars
<1>3. CASE UNCHANGED <<gen, ids>>
  BY <1>1, <1>2, <1>3, UnstartedKept, ExtendsKept DEF HistoryInv
<1>4. CASE StepFresh \/ StepAlone \/ HandleMember
  <2>1. PICK i \in DOMAIN snapshot : StepsOne(i)
    BY <1>4, SteppingOne DEF HistoryInv, TurnInv
  <2> DEFINE r == snapshot[i]
  <2>2. r \in ToSet(active) /\ r \in Known
    BY <2>1 DEF HistoryInv, TurnInv, RetireInv, Unstepped, StepsOne, Known, ToSet
  <2>3. CASE FinishStep(r)
    <3>1. r \in InFlight
      BY <2>2, FlightParts
    <3>2. /\ r \in Requests /\ gen[r] \in Nat
          /\ Base(r) \in Seq(Tokens)
      BY <3>1, BaseType DEF HistoryInv, TurnInv, RetireInv
    <3>3. gen \in [Requests -> Nat] /\ ids \in [Requests -> Seq(Requests \X Nat)]
      BY DEF HistoryInv, TurnInv, RetireInv, HomeInv, TypeOK, RequestTypes
    <3>4. /\ gen' = [gen EXCEPT ![r] = @ + 1]
          /\ ids' = [ids EXCEPT ![r] = Append(@, <<r, gen[r] + 1>>)]
      BY <2>3 DEF FinishStep
    <3> HIDE DEF r
    <3>5. /\ gen'[r] = gen[r] + 1 /\ ids'[r] = Append(ids[r], <<r, gen[r] + 1>>)
          /\ \A q \in Requests \ {r} : gen'[q] = gen[q] /\ ids'[q] = ids[q]
      BY <3>2, <3>3, <3>4
    <3> DEFINE own(m) == [k \in 1 .. m + 1 |-> <<r, k - 1>>]
    <3>6. <<r, gen[r] + 1>> \in Tokens
      BY <3>2 DEF Tokens
    <3>7. /\ own(gen[r]) \in Seq(Tokens)
          /\ own(gen[r] + 1) = Append(own(gen[r]), <<r, gen[r] + 1>>)
      BY <3>2, OwnGrows, Zenon
    <3>8. ids[r] = Base(r) \o own(gen[r])
      BY <3>1 DEF HistoryInv, TurnExtendsHistory, Own, Base
    <3> HIDE DEF own
    <3>9. ids'[r] = Base(r) \o own(gen[r] + 1)
      BY <3>2, <3>5, <3>6, <3>7, <3>8, AppendToConcat
    <3>10. TurnExtendsHistory'
      <4> SUFFICES ASSUME NEW q \in InFlight'
                   PROVE  ids'[q] = (IF session'[q] = OneShot THEN <<>>
                                     ELSE history'[session'[q]])
                                      \o [k \in 1 .. gen'[q] + 1 |-> <<q, k - 1>>]
        BY DEF TurnExtendsHistory, Own
      <4>1. CASE q = r
        BY <1>1, <1>2, <3>5, <3>9, <4>1 DEF Base, own
      <4>2. CASE q # r
        <5>1. q \in InFlight /\ q \in Requests
          BY <1>1, FlightSettled DEF HistoryInv, TurnInv, RetireInv
        <5>2. ids'[q] = ids[q] /\ gen'[q] = gen[q]
          BY <3>5, <4>2, <5>1
        <5> QED
          BY <1>1, <1>2, <5>1, <5>2 DEF HistoryInv, TurnExtendsHistory, Own
      <4> QED
        BY <4>1, <4>2
    <3>11. Unstarted'
      BY <1>1, <1>2, <2>2, <3>5, UnstartedKept DEF r
    <3> QED
      BY <3>10, <3>11
  <2> QED
    BY <1>3, <2>1, <2>3 DEF StepsOne
<1>5. UNCHANGED <<gen, ids>> \/ StepFresh \/ StepAlone \/ HandleMember
  BY DEF Start, Run, LoopTop, AdmitPop, AdmitAppend, AdmitEnd, NothingActive,
         BeginRound, StepBatched, SamplingCrash, EndRound, Stop, FinishStop,
         BeginStop, JoinTimeout, Joined, RetireStuck, RetiredAll, DrainIncoming,
         Stopped, requestVars
<1> QED
  BY <1>3, <1>4, <1>5

LEMMA StepHistory == HistoryInv /\ [Next]_vars => HistoryInv'
<1> SUFFICES ASSUME HistoryInv, [Next]_vars PROVE HistoryInv'
  OBVIOUS
<1>1. TurnInv'
  BY StepTurns DEF HistoryInv
<1>2. ASSUME NEW c \in Callers, Call(c) \/ InCall(c) PROVE HistoryInv'
  BY <1>1, <1>2, CallHistory DEF HistoryInv
<1>3. CASE Retire
  BY <1>1, <1>3, RetireHistory DEF HistoryInv
<1>4. CASE Start \/ Run \/ Stop
  BY <1>1, <1>4, ThreadHistory DEF HistoryInv
<1>5. CASE UNCHANGED vars
  <2>1. /\ UNCHANGED <<pc, arg, incoming, active, hand, retiring, done, sentinel>>
        /\ UNCHANGED <<session, gen, ids, history>>
    BY <1>5 DEF vars, callerVars, requestVars, retireVars, registryVars
  <2>2. InFlight' = InFlight
    BY <2>1, PuttingKept, FlightParts, FlightPartsNext DEF Held
  <2> QED
    BY <1>1, <2>1, <2>2, UnstartedKept, ExtendsKept DEF HistoryInv
<1> QED
  BY <1>2, <1>3, <1>4, <1>5 DEF Next

\* A turn in flight is built on the history its session still has: what
\* submit_turn read under the lock is not stale when _retire writes it back.
THEOREM TurnsExtendTheirHistory == Spec => []TurnExtendsHistory
<1>1. HistoryInv => TurnExtendsHistory
  BY DEF HistoryInv
<1> QED
  BY <1>1, InitHistory, StepHistory, PTL DEF Spec
-----------------------------------------------------------------------------
(* The turns a history is made of *)

\* Ids are drawn once: a session not drawn yet has no history, and no request
\* that was answered belongs to it.
Drawn ==
  /\ \A r \in sentinel : session[r] # OneShot => session[r] \in minted
  /\ \A s \in Sessions \ minted : history[s] = <<>>

FinishedInv == HistoryInv /\ Drawn /\ HistoryIsFinishedTurns

\* The tokens of a request are its own and differ from each other.
LEMMA OwnSet ==
  ASSUME NEW r \in Requests, gen[r] \in Nat
  PROVE  /\ Own(r) \in Seq(Tokens) /\ IsInjective(Own(r))
         /\ \A t \in ToSet(Own(r)) : t[1] = r
<1> DEFINE n == gen[r]
<1>1. Own(r) = [k \in 1 .. n + 1 |-> <<r, k - 1>>] /\ n \in Nat
  BY DEF Own
<1> HIDE DEF n
<1>2. \A k \in 1 .. n + 1 : <<r, k - 1>> \in Tokens
  BY <1>1 DEF Tokens
<1>3. Own(r) \in Seq(Tokens)
  BY <1>1, <1>2
<1>4. DOMAIN Own(r) = 1 .. n + 1 /\ \A k \in 1 .. n + 1 : Own(r)[k] = <<r, k - 1>>
  BY <1>1
<1>5. IsInjective(Own(r))
  BY <1>1, <1>4 DEF IsInjective
<1> QED
  BY <1>3, <1>4, <1>5 DEF ToSet

\* A step that leaves the open sessions, their histories and the turns behind
\* these as they are.
LEMMA FinishedKept ==
  ASSUME HistoryIsFinishedTurns,
         \A s \in sessions' : s \in sessions /\ history'[s] = history[s],
         \A r \in sentinel \ InFlight : gen'[r] = gen[r],
         sentinel' \ InFlight' = sentinel \ InFlight,
         \A r \in sentinel \ InFlight : session'[r] = session[r]
  PROVE  HistoryIsFinishedTurns'
<1> SUFFICES ASSUME NEW s \in sessions'
             PROVE  /\ IsInjective(history'[s])
                    /\ ToSet(history'[s]) = UNION {ToSet(Own(r)') : r \in Finished(s)'}
  BY DEF HistoryIsFinishedTurns
<1>1. Finished(s)' = Finished(s)
  BY DEF Finished
<1>2. \A r \in Finished(s) : Own(r)' = Own(r)
  BY DEF Finished, Own
<1>3. {ToSet(Own(r)') : r \in Finished(s)'} = {ToSet(Own(r)) : r \in Finished(s)}
  BY <1>1, <1>2
<1> QED
  BY <1>3 DEF HistoryIsFinishedTurns

LEMMA InitFinished == Init => FinishedInv
<1> SUFFICES ASSUME Init PROVE FinishedInv
  OBVIOUS
<1>1. Drawn /\ HistoryIsFinishedTurns
  BY DEF Init, Drawn, HistoryIsFinishedTurns
<1> QED
  BY <1>1, InitHistory DEF FinishedInv

LEMMA CallFinished ==
  ASSUME FinishedInv, NEW c \in Callers, Call(c) \/ InCall(c)
  PROVE  Drawn' /\ HistoryIsFinishedTurns'
<1>1. /\ session \in [Requests -> Sessions \cup {OneShot, None}]
      /\ history \in [Sessions -> Seq(Requests \X Nat)]
      /\ sentinel \subseteq Requests /\ minted \subseteq Sessions
      /\ sessions \subseteq minted
  BY DEF FinishedInv, HistoryInv, TurnInv, RetireInv, HomeInv, TypeOK,
         RequestTypes, RegistryTypes
<1>2. UNCHANGED <<gen, sentinel>>
  BY DEF Call, InCall, BeginSubmit, CheckCapacity, ClaimSession, Enqueue,
         CreateSession, DeleteSession, requestVars
<1>3. \A r \in sentinel : session[r] # None
  BY DEF FinishedInv, HistoryInv, TurnInv, RetireInv, HomeInv, OwnRequests,
         Known, Answered
<1>4. \A r \in sentinel : session'[r] = session[r]
  <2>1. \/ UNCHANGED session
        \/ \E r \in Requests, s \in Sessions \cup {OneShot} :
             session[r] = None /\ session' = [session EXCEPT ![r] = s]
    BY DEF Call, InCall, BeginSubmit, CheckCapacity, ClaimSession, Enqueue,
           CreateSession, DeleteSession, requestVars
  <2> QED
    BY <1>1, <1>3, <2>1
<1>5. sentinel' \ InFlight' = sentinel \ InFlight
  <2>1. InFlight' \in {InFlight, InFlight \cup {arg[c]}}
        /\ (InFlight' # InFlight => pc[c] # "ready")
    BY CallFlight DEF FinishedInv, HistoryInv, TurnInv, CheckCapacity, ClaimSession
  <2>2. pc[c] # "ready" => arg[c] \notin sentinel
    BY DEF FinishedInv, HistoryInv, TurnInv, RetireInv, HomeInv, OwnRequests,
           Known, Answered
  <2> QED
    BY <1>2, <2>1, <2>2
<1>6. CASE UNCHANGED <<sessions, minted, history>>
  <2>1. Drawn'
    BY <1>2, <1>4, <1>6 DEF FinishedInv, Drawn
  <2>2. HistoryIsFinishedTurns'
    BY <1>2, <1>4, <1>5, <1>6, FinishedKept DEF FinishedInv
  <2> QED
    BY <2>1, <2>2
<1>7. ASSUME NEW s \in Sessions, DeleteSession(c, s)
      PROVE  Drawn' /\ HistoryIsFinishedTurns'
  <2>1. /\ sessions' = sessions \ {s} /\ UNCHANGED minted
        /\ history' = [history EXCEPT ![s] = <<>>]
    BY <1>7 DEF DeleteSession
  <2>2. Drawn'
    BY <1>1, <1>2, <1>4, <2>1 DEF FinishedInv, Drawn
  <2>3. \A q \in sessions' : q \in sessions /\ history'[q] = history[q]
    BY <1>1, <2>1
  <2>4. HistoryIsFinishedTurns'
    BY <1>2, <1>4, <1>5, <2>3, FinishedKept DEF FinishedInv
  <2> QED
    BY <2>2, <2>4
<1>8. ASSUME NEW s \in Sessions, CreateSession(c, s)
      PROVE  Drawn' /\ HistoryIsFinishedTurns'
  <2>1. /\ sessions' = sessions \cup {s} /\ minted' = minted \cup {s}
        /\ s \notin minted /\ UNCHANGED <<history, session>>
    BY <1>8 DEF CreateSession, requestVars
  <2>2. Drawn'
    BY <1>2, <2>1 DEF FinishedInv, Drawn
  <2>3. history[s] = <<>> /\ Finished(s)' = {}
    <3>1. history[s] = <<>>
      BY <2>1 DEF FinishedInv, Drawn
    <3>2. \A r \in sentinel : session[r] # s
      BY <2>1, SchedulerAssumption DEF FinishedInv, Drawn
    <3> QED
      BY <1>2, <2>1, <3>1, <3>2 DEF Finished
  <2>4. SUFFICES ASSUME NEW q \in sessions'
        PROVE  /\ IsInjective(history'[q])
               /\ ToSet(history'[q]) = UNION {ToSet(Own(r)') : r \in Finished(q)'}
    BY <2>2 DEF HistoryIsFinishedTurns
  <2>5. CASE q = s
    BY <2>1, <2>3, <2>5 DEF ToSet, IsInjective
  <2>6. CASE q # s
    <3>1. q \in sessions /\ Finished(q)' = Finished(q) /\ history'[q] = history[q]
      BY <1>5, <2>1, <2>6 DEF Finished
    <3>2. \A r \in Finished(q) : Own(r)' = Own(r)
      BY <1>2 DEF Own
    <3>3. {ToSet(Own(r)') : r \in Finished(q)'} = {ToSet(Own(r)) : r \in Finished(q)}
      BY <3>1, <3>2
    <3> QED
      BY <3>1, <3>3 DEF FinishedInv, HistoryIsFinishedTurns
  <2> QED
    BY <2>5, <2>6
<1>9. \/ UNCHANGED <<sessions, minted, history>>
      \/ \E s \in Sessions : CreateSession(c, s) \/ DeleteSession(c, s)
  BY DEF Call, InCall, BeginSubmit, CheckCapacity, ClaimSession, Enqueue,
         registryVars
<1> QED
  BY <1>6, <1>7, <1>8, <1>9

LEMMA RetireFinished ==
  ASSUME FinishedInv, Retire
  PROVE  Drawn' /\ HistoryIsFinishedTurns'
<1> DEFINE s == session[retiring]
<1>1. /\ history \in [Sessions -> Seq(Tokens)]
      /\ sessions \subseteq minted /\ minted \subseteq Sessions
      /\ sentinel \subseteq Requests
  BY DEF FinishedInv, HistoryInv, TurnInv, RetireInv, HomeInv, TypeOK,
         RegistryTypes, RequestTypes, Tokens
<1>2. UNCHANGED <<session, gen, ids, sessions, minted>>
  BY DEF Retire, PutSentinel, SetDone, RemoveActive, Release, requestVars,
         registryVars
<1>3. retiring \in InFlight /\ retiring # None
  BY FlightParts DEF Retire, PutSentinel, SetDone, RemoveActive, Release
<1>4. s # OneShot => s \in sessions
  BY <1>3 DEF FinishedInv, HistoryInv, TurnInv, Turns
<1>5. CASE ~Release
  <2>1. InFlight' = InFlight
    BY <1>5, RetireFlight DEF FinishedInv, HistoryInv, TurnInv
  <2>2. sentinel' \in {sentinel, sentinel \cup {retiring}} /\ UNCHANGED history
    BY <1>5 DEF Retire, PutSentinel, SetDone, RemoveActive, requestVars,
                registryVars
  <2>3. Drawn'
    BY <1>1, <1>2, <1>4, <2>2 DEF FinishedInv, Drawn
  <2>4. sentinel' \ InFlight' = sentinel \ InFlight
    BY <1>3, <2>1, <2>2
  <2>5. HistoryIsFinishedTurns'
    BY <1>2, <2>2, <2>4, FinishedKept DEF FinishedInv
  <2> QED
    BY <2>3, <2>5
<1>6. CASE Release
  <2>1. InFlight' = InFlight \ {retiring}
    BY <1>6, RetireFlight DEF FinishedInv, HistoryInv, TurnInv
  <2>2. /\ UNCHANGED sentinel /\ rpc = "release"
        /\ history' = IF s \in sessions
                      THEN [history EXCEPT ![s] = ids[retiring]] ELSE history
    BY <1>6 DEF Release, requestVars
  <2>3. retiring \in sentinel /\ retiring \in Requests
    BY <1>1, <1>3, <2>2 DEF FinishedInv, HistoryInv, TurnInv, RetireInv, Retiring
  <2>4. Drawn'
    BY <1>1, <1>2, <2>2 DEF FinishedInv, Drawn
  <2>5. ids[retiring] = Base(retiring) \o Own(retiring)
    BY <1>3 DEF FinishedInv, HistoryInv, TurnExtendsHistory, Base
  <2>6. SUFFICES ASSUME NEW q \in sessions'
        PROVE  /\ IsInjective(history'[q])
               /\ ToSet(history'[q]) = UNION {ToSet(Own(r)') : r \in Finished(q)'}
    BY <2>4 DEF HistoryIsFinishedTurns
  <2>7. \A r : Own(r)' = Own(r)
    BY <1>2 DEF Own
  <2>8. UNION {ToSet(Own(r)') : r \in Finished(q)'}
          = UNION {ToSet(Own(r)) : r \in Finished(q)'}
    BY <2>7
  <2>9. /\ q \in sessions /\ q \in Sessions /\ IsInjective(history[q])
        /\ ToSet(history[q]) = UNION {ToSet(Own(r)) : r \in Finished(q)}
    BY <1>1, <1>2 DEF FinishedInv, HistoryIsFinishedTurns
  <2>10. CASE q # s
    <3>1. history'[q] = history[q] /\ Finished(q)' = Finished(q)
      BY <1>1, <1>2, <2>1, <2>2, <2>9, <2>10 DEF Finished
    <3> QED
      BY <2>8, <2>9, <3>1
  <2>11. CASE q = s
    <3>1. Finished(q)' = Finished(q) \cup {retiring} /\ retiring \notin Finished(q)
      BY <1>2, <1>3, <2>1, <2>2, <2>3, <2>11 DEF Finished
    <3>2. Base(retiring) = history[q] /\ history[q] \in Seq(Tokens)
      BY <1>1, <2>9, <2>11, SchedulerAssumption DEF Base
    <3>3. history'[q] = history[q] \o Own(retiring)
      BY <1>1, <2>2, <2>5, <2>9, <2>11, <3>2
    <3>4. gen \in [Requests -> Nat]
      BY DEF FinishedInv, HistoryInv, TurnInv, RetireInv, HomeInv, TypeOK,
             RequestTypes
    <3>5. \A r \in Requests : /\ Own(r) \in Seq(Tokens) /\ IsInjective(Own(r))
                              /\ \A t \in ToSet(Own(r)) : t[1] = r
      BY <3>4, OwnSet
    <3>6. ToSet(history[q]) \cap ToSet(Own(retiring)) = {}
      <4>1. Finished(q) \subseteq Requests
        BY <1>1 DEF Finished
      <4> QED
        BY <2>3, <2>9, <3>1, <3>5, <4>1
    <3>7. /\ ToSet(history'[q]) = ToSet(history[q]) \cup ToSet(Own(retiring))
          /\ IsInjective(history'[q])
      BY <2>3, <2>9, <3>2, <3>3, <3>5, <3>6, ConcatSet
    <3>8. UNION {ToSet(Own(r)) : r \in Finished(q)'}
            = ToSet(Own(retiring)) \cup UNION {ToSet(Own(r)) : r \in Finished(q)}
      BY <3>1
    <3> QED
      BY <2>8, <2>9, <3>7, <3>8
  <2> QED
    BY <2>10, <2>11
<1> QED
  BY <1>5, <1>6

\* What a round decodes is for requests in flight, so no finished turn grows.
LEMMA ThreadFinished ==
  ASSUME FinishedInv, Start \/ Run \/ Stop
  PROVE  Drawn' /\ HistoryIsFinishedTurns'
<1>1. InFlight' = InFlight /\ UNCHANGED <<session, sessions>>
  BY ThreadFlight DEF FinishedInv, HistoryInv, TurnInv
<1>2. UNCHANGED <<sentinel, minted, history>>
  BY DEF Start, Run, LoopTop, AdmitPop, AdmitAppend, AdmitEnd, NothingActive,
         BeginRound, StepFresh, StepAlone, StepBatched, HandleMember,
         SamplingCrash, EndRound, Stop, FinishStop, BeginStop, JoinTimeout,
         Joined, RetireStuck, RetiredAll, DrainIncoming, Stopped, requestVars,
         registryVars
<1>3. Drawn'
  BY <1>1, <1>2 DEF FinishedInv, Drawn
<1>4. CASE StepFresh \/ StepAlone \/ HandleMember
  <2>1. PICK i \in DOMAIN snapshot : StepsOne(i)
    BY <1>4, SteppingOne DEF FinishedInv, HistoryInv, TurnInv
  <2>2. snapshot[i] \in InFlight
    BY <2>1, FlightParts DEF FinishedInv, HistoryInv, TurnInv, RetireInv, Unstepped,
                             StepsOne
  <2>3. gen \in [Requests -> Nat] /\ sentinel \subseteq Requests
    BY DEF FinishedInv, HistoryInv, TurnInv, RetireInv, HomeInv, TypeOK,
           RequestTypes
  <2>4. \A r \in sentinel \ InFlight : gen'[r] = gen[r]
    BY <2>1, <2>2, <2>3 DEF StepsOne, FinishStep
  <2> QED
    BY <1>1, <1>2, <1>3, <2>4, FinishedKept DEF FinishedInv
<1>5. CASE UNCHANGED gen
  BY <1>1, <1>2, <1>3, <1>5, FinishedKept DEF FinishedInv
<1>6. UNCHANGED gen \/ StepFresh \/ StepAlone \/ HandleMember
  BY DEF Start, Run, LoopTop, AdmitPop, AdmitAppend, AdmitEnd, NothingActive,
         BeginRound, StepBatched, SamplingCrash, EndRound, Stop, FinishStop,
         BeginStop, JoinTimeout, Joined, RetireStuck, RetiredAll, DrainIncoming,
         Stopped, requestVars
<1> QED
  BY <1>4, <1>5, <1>6

LEMMA StepFinished == FinishedInv /\ [Next]_vars => FinishedInv'
<1> SUFFICES ASSUME FinishedInv, [Next]_vars PROVE FinishedInv'
  OBVIOUS
<1>1. HistoryInv'
  BY StepHistory DEF FinishedInv
<1>2. ASSUME NEW c \in Callers, Call(c) \/ InCall(c) PROVE FinishedInv'
  BY <1>1, <1>2, CallFinished DEF FinishedInv
<1>3. CASE Retire
  BY <1>1, <1>3, RetireFinished DEF FinishedInv
<1>4. CASE Start \/ Run \/ Stop
  BY <1>1, <1>4, ThreadFinished DEF FinishedInv
<1>5. CASE UNCHANGED vars
  <2>1. /\ UNCHANGED <<pc, arg, incoming, active, hand, retiring, done, sentinel>>
        /\ UNCHANGED <<session, gen, history, sessions, minted>>
    BY <1>5 DEF vars, callerVars, requestVars, retireVars, registryVars
  <2>2. InFlight' = InFlight
    BY <2>1, PuttingKept, FlightParts, FlightPartsNext DEF Held
  <2>3. Drawn' /\ HistoryIsFinishedTurns'
    BY <2>1, <2>2, FinishedKept DEF FinishedInv, Drawn
  <2> QED
    BY <1>1, <2>3 DEF FinishedInv
<1> QED
  BY <1>2, <1>3, <1>4, <1>5 DEF Next

\* The history of an open session is made of every token of its finished turns,
\* each once, and of nothing else: no turn overwrites another one's when
\* _retire writes its sequence back, however many turns, callers and rounds.
THEOREM HistoryIsTheTurns == Spec => []HistoryIsFinishedTurns
<1>1. FinishedInv => HistoryIsFinishedTurns
  BY DEF FinishedInv
<1> QED
  BY <1>1, InitFinished, StepFinished, PTL DEF Spec
-----------------------------------------------------------------------------
(* Scheduler implements TurnService: claiming a session begins a turn,     *)
(* releasing it ends the turn with the tokens it has by then, and the      *)
(* steps between are unseen.                                               *)

\* No request has more than MaxTokens tokens, and one that has them all is
\* being retired or has its end mark.
Bounded ==
  \A r \in Requests :
    /\ gen[r] <= MaxTokens
    /\ gen[r] = MaxTokens => r \in sentinel \cup {retiring}

ServiceInv == HistoryInv /\ Bounded
-----------------------------------------------------------------------------
LEMMA InitService == Init => ServiceInv
<1> SUFFICES ASSUME Init PROVE ServiceInv
  OBVIOUS
<1>1. Bounded
  BY SchedulerAssumption DEF Init, Bounded
<1> QED
  BY <1>1, InitHistory DEF ServiceInv

LEMMA StepBounded ==
  ASSUME ServiceInv, [Next]_vars
  PROVE  Bounded'
<1>1. /\ gen \in [Requests -> Nat] /\ MaxTokens \in Nat /\ None \notin Requests
  BY SchedulerAssumption DEF ServiceInv, HistoryInv, TurnInv, RetireInv, HomeInv,
                             TypeOK, RequestTypes
<1>2. CASE /\ UNCHANGED gen /\ sentinel \subseteq sentinel'
           /\ retiring = None \/ retiring \in sentinel' \cup {retiring'}
  BY <1>1, <1>2 DEF ServiceInv, Bounded
<1>3. CASE StepFresh \/ StepAlone \/ HandleMember
  <2>1. PICK i \in DOMAIN snapshot : StepsOne(i)
    BY <1>3, SteppingOne DEF ServiceInv, HistoryInv, TurnInv
  <2>2. UNCHANGED sentinel
    BY <1>3 DEF StepFresh, StepAlone, HandleMember
  <2>3. retiring = None
    BY <2>1 DEF StepsOne
  <2>4. CASE UNCHANGED gen
    BY <1>2, <2>2, <2>3, <2>4
  <2>5. CASE FinishStep(snapshot[i])
    <3> DEFINE r == snapshot[i]
    <3>1. r \in ToSet(active) /\ r \in Requests
      BY <2>1, ElementsAreIn DEF ServiceInv, HistoryInv, TurnInv, RetireInv, Unstepped,
                  StepsOne, HomeInv, TypeOK, ListTypes
    <3>2. r # None /\ r \notin sentinel
      BY <1>1, <2>3, <3>1 DEF ServiceInv, HistoryInv, TurnInv, RetireInv, Ended
    <3>3. gen[r] < MaxTokens
      BY <1>1, <2>3, <3>1, <3>2 DEF ServiceInv, Bounded
    <3>4. /\ gen' = [gen EXCEPT ![r] = @ + 1]
          /\ retiring' = r \/ gen'[r] < MaxTokens
      BY <2>5 DEF FinishStep, BeginRetire
    <3> HIDE DEF r
    <3>5. /\ gen'[r] = gen[r] + 1
          /\ \A q \in Requests \ {r} : gen'[q] = gen[q]
      BY <1>1, <3>1, <3>4
    <3>6. \A q \in Requests : gen[q] = MaxTokens => q \in sentinel
      BY <1>1, <2>3 DEF ServiceInv, Bounded
    <3> SUFFICES ASSUME NEW q \in Requests
                 PROVE  /\ gen'[q] <= MaxTokens
                        /\ gen'[q] = MaxTokens => q \in sentinel' \cup {retiring'}
      BY DEF Bounded
    <3>7. CASE q = r
      BY <1>1, <3>1, <3>3, <3>4, <3>5, <3>7
    <3>8. CASE q # r
      BY <2>2, <3>5, <3>6, <3>8 DEF ServiceInv, Bounded
    <3> QED
      BY <3>7, <3>8
  <2> QED
    BY <2>1, <2>4, <2>5 DEF StepsOne
<1>4. ASSUME NEW c \in Callers, Call(c) \/ InCall(c)
      PROVE  UNCHANGED <<gen, sentinel, retiring>>
  BY <1>4 DEF Call, InCall, BeginSubmit, CheckCapacity, ClaimSession, Enqueue,
              CreateSession, DeleteSession, requestVars, retireVars
<1>5. CASE Retire
  <2>1. UNCHANGED gen /\ sentinel \subseteq sentinel'
    BY <1>5 DEF Retire, PutSentinel, SetDone, RemoveActive, Release, requestVars
  <2>2. CASE Release
    BY <1>2, <2>1, <2>2 DEF Release, ServiceInv, HistoryInv, TurnInv, RetireInv,
                            Retiring
  <2>3. CASE ~Release
    BY <1>2, <1>5, <2>1, <2>3 DEF Retire, PutSentinel, SetDone, RemoveActive
  <2> QED
    BY <2>2, <2>3
<1>6. CASE Start \/ Run \/ Stop
  <2>1. \/ UNCHANGED <<gen, sentinel, retiring>>
        \/ StepFresh \/ StepAlone \/ HandleMember \/ RetireStuck
    BY <1>6 DEF Start, Run, LoopTop, AdmitPop, AdmitAppend, AdmitEnd,
                NothingActive, BeginRound, StepBatched, SamplingCrash, EndRound,
                Stop, FinishStop, BeginStop, JoinTimeout, Joined, RetiredAll,
                DrainIncoming, Stopped, requestVars, retireVars
  <2>2. CASE RetireStuck
    BY <1>2, <2>2 DEF RetireStuck
  <2> QED
    BY <1>2, <1>3, <2>1, <2>2
<1>7. CASE UNCHANGED vars
  BY <1>2, <1>7 DEF vars, requestVars, retireVars
<1> QED
  BY <1>2, <1>4, <1>5, <1>6, <1>7 DEF Next

LEMMA StepService == ServiceInv /\ [Next]_vars => ServiceInv'
BY StepHistory, StepBounded DEF ServiceInv
-----------------------------------------------------------------------------
(* The refinement mapping *)

\* The turn of a session is the one request in flight that has the session.
TurnTable ==
  \A s \in Sessions :
    /\ s \notin busy => Turn[s] = None
    /\ s \in busy => Turn[s] \in InFlight /\ session[Turn[s]] = s
    /\ \A r \in InFlight : session[r] = s => s \in busy /\ Turn[s] = r

LEMMA TurnOf == Turns => TurnTable
<1> SUFFICES ASSUME Turns, NEW s \in Sessions
             PROVE  /\ s \notin busy => Turn[s] = None
                    /\ s \in busy => Turn[s] \in InFlight /\ session[Turn[s]] = s
                    /\ \A r \in InFlight :
                         session[r] = s => s \in busy /\ Turn[s] = r
  BY DEF TurnTable
<1>1. s \notin busy => Turn[s] = None
  BY DEF Turn
<1>2. ASSUME s \in busy
      PROVE  Turn[s] \in InFlight /\ session[Turn[s]] = s
  <2>1. \E r \in InFlight : session[r] = s
    BY <1>2 DEF Turns
  <2>2. Turn[s] = CHOOSE r \in InFlight : session[r] = s
    BY <1>2 DEF Turn
  <2> QED
    BY <2>1, <2>2
<1>3. ASSUME NEW r \in InFlight, session[r] = s
      PROVE  s \in busy /\ Turn[s] = r
  <2>1. s # OneShot
    BY SchedulerAssumption
  <2>2. s \in busy
    BY <1>3, <2>1 DEF Turns
  <2> QED
    BY <1>2, <1>3, <2>1, <2>2 DEF Turns
<1> QED
  BY <1>1, <1>2, <1>3

\* A step that leaves the busy sessions with the requests they had.
LEMMA TurnSame ==
  ASSUME ServiceInv, ServiceInv', busy' = busy,
         \A r \in InFlight : r \in InFlight' /\ session'[r] = session[r]
  PROVE  Turn' = Turn
<1>1. TurnTable
  BY TurnOf DEF ServiceInv, HistoryInv, TurnInv
<1>2. Turns'
  BY DEF ServiceInv, HistoryInv, TurnInv
<1>3. TurnTable'
  BY <1>2, TurnOf, PTL
<1>4. \A s \in Sessions : Turn'[s] = Turn[s]
  BY <1>1, <1>3 DEF TurnTable
<1>5. Turn = [s \in Sessions |-> Turn[s]] /\ Turn' = [s \in Sessions |-> Turn'[s]]
  BY DEF Turn
<1> QED
  BY <1>4, <1>5

LEMMA AskedSame ==
  ASSUME \A r \in Requests :
           (session'[r] \in Sessions /\ ids'[r] # <<>>)
             <=> (session[r] \in Sessions /\ ids[r] # <<>>)
  PROVE  Asked' = Asked
BY DEF Asked

\* A step the clients of the sessions do not see.
Unseen == UNCHANGED <<sessions, minted, Asked, Turn, history>>

LEMMA CallService ==
  ASSUME ServiceInv, ServiceInv', NEW c \in Callers, Call(c) \/ InCall(c)
  PROVE  Service!Next \/ Unseen
<1>1. /\ pc \in [Callers -> {"ready", "depth", "claim", "put"}]
      /\ arg \in [Callers -> Requests \cup {None}]
      /\ session \in [Requests -> Sessions \cup {OneShot, None}]
      /\ ids \in [Requests -> Seq(Requests \X Nat)]
      /\ sessions \subseteq Sessions /\ OneShot \notin Sessions
      /\ None \notin Sessions \cup Requests
  BY SchedulerAssumption
     DEF ServiceInv, HistoryInv, TurnInv, RetireInv, HomeInv, TypeOK, CallerTypes,
         RequestTypes, RegistryTypes
<1>2. TurnTable
  BY TurnOf DEF ServiceInv, HistoryInv, TurnInv
<1>3. TurnTable'
  <2>1. Turns'
    BY DEF ServiceInv, HistoryInv, TurnInv
  <2> QED
    BY <2>1, TurnOf, PTL
<1>4. ASSUME NEW r \in Requests, NEW s \in Sessions \cup {OneShot},
             BeginSubmit(c, r, s)
      PROVE  Unseen
  <2>1. /\ session[r] = None /\ session' = [session EXCEPT ![r] = s]
        /\ UNCHANGED <<ids, history, sessions, minted, busy>> /\ pc[c] = "ready"
    BY <1>4 DEF BeginSubmit, MayCall, registryVars
  <2>2. InFlight' = InFlight
    BY <1>4, <2>1, CallFlight
       DEF ServiceInv, HistoryInv, TurnInv, Call, CheckCapacity, ClaimSession
  <2>3. \A q \in InFlight : q \in Requests /\ q # r
    BY <2>1, FlightSettled DEF ServiceInv, HistoryInv, TurnInv, RetireInv
  <2>4. Turn' = Turn
    BY <1>1, <2>1, <2>2, <2>3, TurnSame
  <2>5. ids[r] = <<>>
    BY <2>1 DEF ServiceInv, HistoryInv, Unstarted
  <2>6. Asked' = Asked
    BY <1>1, <2>1, <2>5, AskedSame
  <2> QED
    BY <2>1, <2>4, <2>6 DEF Unseen
<1>5. CASE CheckCapacity(c)
  <2>1. /\ pc[c] = "depth"
        /\ UNCHANGED <<session, history, sessions, minted, busy>>
        /\ \/ UNCHANGED ids
           \/ /\ session[arg[c]] = OneShot
              /\ ids' = [ids EXCEPT ![arg[c]] = <<<<arg[c], 0>>>>]
    BY <1>1, <1>5 DEF CheckCapacity, registryVars
  <2>2. InFlight \subseteq InFlight'
    BY <1>5, CallFlight DEF ServiceInv, HistoryInv, TurnInv, InCall
  <2>3. Turn' = Turn
    BY <2>1, <2>2, TurnSame
  <2>4. Asked' = Asked
    BY <1>1, <2>1, AskedSame
  <2> QED
    BY <2>1, <2>3, <2>4 DEF Unseen
<1>6. CASE ClaimSession(c)
  <2> DEFINE s == session[arg[c]]
             r == arg[c]
  <2>1. pc[c] = "claim" /\ UNCHANGED <<session, history, sessions, minted>>
    BY <1>6 DEF ClaimSession
  <2>2. CASE s \in sessions /\ s \notin busy
    <3>1. /\ ids' = [ids EXCEPT ![r] = Append(history[s], <<r, 0>>)]
          /\ busy' = busy \cup {s}
      BY <1>6, <2>2 DEF ClaimSession
    <3>2. InFlight' = InFlight \cup {r}
      BY <1>6, <2>1, <2>2, <3>1, CallFlight
         DEF ServiceInv, HistoryInv, TurnInv, InCall, CheckCapacity
    <3>3. r \in Requests /\ s \in Sessions
      BY <1>1, <2>1, <2>2, ArgOutOfFlight
         DEF ServiceInv, HistoryInv, TurnInv, RetireInv
    <3>4. ids[r] = <<>>
      BY <2>1 DEF ServiceInv, HistoryInv, Unstarted
    <3>5. Append(history[s], <<r, 0>>) # <<>>
      <4>1. history[s] \in Seq(Tokens) /\ <<r, 0>> \in Tokens
        BY <3>3 DEF ServiceInv, HistoryInv, TurnInv, RetireInv, HomeInv, TypeOK,
                    RegistryTypes, Tokens
      <4> QED
        BY <4>1, AppendProperties
    <3> HIDE DEF s, r
    <3>6. ids'[r] # <<>> /\ \A q \in Requests \ {r} : ids'[q] = ids[q]
      BY <1>1, <3>1, <3>3, <3>5
    <3>7. r \notin Asked /\ Asked' = Asked \cup {r}
      <4>1. session[r] \in Sessions
        BY <3>3 DEF s, r
      <4> QED
        BY <2>1, <3>3, <3>4, <3>6, <4>1 DEF Asked
    <3>8. Turn[s] = None
      BY <1>2, <2>2, <3>3 DEF TurnTable, s, r
    <3>9. Turn'[s] = r /\ \A z \in Sessions \ {s} : Turn'[z] = Turn[z]
      <4>1. Turn'[s] = r
        BY <1>3, <2>1, <3>2, <3>3 DEF TurnTable, s, r
      <4>2. ASSUME NEW z \in Sessions \ {s} PROVE Turn'[z] = Turn[z]
        BY <1>2, <1>3, <2>1, <3>1, <3>2 DEF TurnTable
      <4> QED
        BY <4>1, <4>2
    <3>10. Turn' = [Turn EXCEPT ![s] = r]
      <4>1. /\ Turn = [z \in Sessions |-> Turn[z]]
            /\ Turn' = [z \in Sessions |-> Turn'[z]]
        BY DEF Turn
      <4> QED
        BY <3>3, <3>9, <4>1
    <3>11. Service!Begin(s, r)
      BY <2>1, <2>2, <3>7, <3>8, <3>10 DEF Service!Begin, s, r
    <3> QED
      BY <3>3, <3>11 DEF Service!Next
  <2>3. CASE ~(s \in sessions /\ s \notin busy)
    <3>1. UNCHANGED <<ids, busy>>
      BY <1>6, <2>3 DEF ClaimSession
    <3>2. InFlight \subseteq InFlight'
      BY <1>6, CallFlight DEF ServiceInv, HistoryInv, TurnInv, InCall
    <3>3. Turn' = Turn
      BY <2>1, <3>1, <3>2, TurnSame
    <3>4. Asked' = Asked
      BY <2>1, <3>1, AskedSame
    <3> QED
      BY <2>1, <3>3, <3>4 DEF Unseen
  <2> QED
    BY <2>2, <2>3
<1>7. CASE Enqueue(c)
  <2>1. UNCHANGED <<session, ids, history, sessions, minted, busy>>
    BY <1>7 DEF Enqueue, requestVars, registryVars
  <2>2. InFlight \subseteq InFlight'
    BY <1>7, CallFlight DEF ServiceInv, HistoryInv, TurnInv, InCall
  <2>3. Turn' = Turn
    BY <2>1, <2>2, TurnSame
  <2>4. Asked' = Asked
    BY <2>1, AskedSame
  <2> QED
    BY <2>1, <2>3, <2>4 DEF Unseen
<1>8. ASSUME NEW s \in Sessions, CreateSession(c, s) \/ DeleteSession(c, s)
      PROVE  Service!Next
  <2>1. UNCHANGED <<session, ids, busy>>
    BY <1>8 DEF CreateSession, DeleteSession, requestVars
  <2>2. InFlight \subseteq InFlight'
    BY <1>8, CallFlight DEF ServiceInv, HistoryInv, TurnInv, Call
  <2>3. Turn' = Turn
    BY <2>1, <2>2, TurnSame
  <2>4. Asked' = Asked
    BY <2>1, AskedSame
  <2>5. CASE CreateSession(c, s)
    <3>1. Service!Create(s)
      BY <2>3, <2>4, <2>5 DEF CreateSession, Service!Create
    <3> QED
      BY <3>1 DEF Service!Next
  <2>6. CASE DeleteSession(c, s)
    <3>1. s \in sessions /\ s \notin busy /\ UNCHANGED minted
      BY <2>6 DEF DeleteSession
    <3>2. Turn[s] = None
      BY <1>2, <3>1 DEF TurnTable
    <3>3. Service!Delete(s)
      BY <2>3, <2>4, <2>6, <3>1, <3>2 DEF DeleteSession, Service!Delete
    <3> QED
      BY <3>3 DEF Service!Next
  <2> QED
    BY <1>8, <2>5, <2>6
<1> QED
  BY <1>4, <1>5, <1>6, <1>7, <1>8 DEF Call, InCall

LEMMA RetireService ==
  ASSUME ServiceInv, ServiceInv', Retire
  PROVE  Service!Next \/ Unseen
<1>1. UNCHANGED <<session, ids, gen, sessions, minted>>
  BY DEF Retire, PutSentinel, SetDone, RemoveActive, Release, requestVars,
         registryVars
<1>2. Asked' = Asked
  BY <1>1, AskedSame
<1>3. CASE ~Release
  <2>1. InFlight' = InFlight /\ UNCHANGED busy
    BY <1>3, RetireFlight DEF ServiceInv, HistoryInv, TurnInv
  <2>2. UNCHANGED history
    BY <1>3 DEF Retire, PutSentinel, SetDone, RemoveActive, registryVars
  <2>3. Turn' = Turn
    BY <1>1, <2>1, TurnSame
  <2> QED
    BY <1>1, <1>2, <2>2, <2>3 DEF Unseen
<1>4. CASE Release
  <2> DEFINE r == retiring
             s == session[r]
  <2>1. r \in InFlight /\ InFlight' = InFlight \ {r}
    BY <1>4, RetireFlight, FlightParts DEF ServiceInv, HistoryInv, TurnInv, Release
  <2>2. /\ r \in Requests /\ gen[r] \in Nat
        /\ s = OneShot \/ s \in Sessions
    BY <2>1, BaseType DEF ServiceInv, HistoryInv, TurnInv, RetireInv
  <2>3. /\ busy' = busy \ {s}
        /\ history' = IF s \in sessions THEN [history EXCEPT ![s] = ids[r]]
                      ELSE history
    BY <1>4 DEF Release
  <2>4. /\ sessions \subseteq Sessions /\ busy \subseteq sessions
        /\ OneShot \notin Sessions
    BY SchedulerAssumption DEF ServiceInv, HistoryInv, TurnInv, RetireInv, HomeInv,
                               TypeOK, RegistryTypes, Turns
  <2>5. TurnTable
    BY TurnOf DEF ServiceInv, HistoryInv, TurnInv
  <2>6. TurnTable'
    <3>1. Turns'
      BY DEF ServiceInv, HistoryInv, TurnInv
    <3> QED
      BY <3>1, TurnOf, PTL
  <2>7. Turn = [z \in Sessions |-> Turn[z]] /\ Turn' = [z \in Sessions |-> Turn'[z]]
    BY DEF Turn
  <2> HIDE DEF r
  <2>8. \A z \in Sessions \ {s} : Turn'[z] = Turn[z]
    BY <1>1, <2>1, <2>3, <2>5, <2>6 DEF TurnTable
  <2>9. CASE s = OneShot
    <3>1. \A z \in Sessions : Turn'[z] = Turn[z]
      BY <2>4, <2>8, <2>9
    <3>2. Turn' = Turn
      BY <2>7, <3>1
    <3>3. UNCHANGED history
      BY <2>3, <2>4, <2>9
    <3> QED
      BY <1>1, <1>2, <3>2, <3>3 DEF Unseen
  <2>10. CASE s \in Sessions
    <3>1. s \in busy /\ Turn[s] = r
      BY <2>1, <2>5, <2>10 DEF TurnTable
    <3>2. Turn'[s] = None
      BY <2>3, <2>6, <2>10 DEF TurnTable
    <3>3. Turn' = [Turn EXCEPT ![s] = None]
      BY <2>7, <2>8, <2>10, <3>2
    <3>4. ids[r] = history[s] \o [k \in 1 .. gen[r] + 1 |-> <<r, k - 1>>]
      BY <2>1, <2>4, <2>10 DEF ServiceInv, HistoryInv, TurnExtendsHistory, Own
    <3>5. history' = [history EXCEPT
                        ![s] = @ \o [k \in 1 .. gen[r] + 1 |-> <<Turn[s], k - 1>>]]
      BY <2>3, <2>4, <3>1, <3>4
    <3>6. gen[r] \in 0 .. MaxTokens
      BY <2>2, SchedulerAssumption DEF ServiceInv, Bounded
    <3>7. Turn[s] # None
      BY <2>2, <3>1, SchedulerAssumption
    <3>8. Service!End(s, gen[r])
      BY <1>1, <1>2, <3>3, <3>5, <3>7 DEF Service!End
    <3> QED
      BY <2>10, <3>6, <3>8 DEF Service!Next
  <2> QED
    BY <2>2, <2>9, <2>10
<1> QED
  BY <1>3, <1>4

LEMMA AppendIsNotEmpty ==
  ASSUME NEW S, NEW s \in Seq(S), NEW e \in S
  PROVE  Append(s, e) # <<>>
BY AppendProperties

LEMMA ThreadService ==
  ASSUME ServiceInv, ServiceInv', Start \/ Run \/ Stop
  PROVE  Unseen
<1>1. InFlight' = InFlight /\ UNCHANGED <<session, busy, sessions>>
  BY ThreadFlight DEF ServiceInv, HistoryInv, TurnInv
<1>2. UNCHANGED <<minted, history>>
  BY DEF Start, Run, LoopTop, AdmitPop, AdmitAppend, AdmitEnd, NothingActive,
         BeginRound, StepFresh, StepAlone, StepBatched, HandleMember,
         SamplingCrash, EndRound, Stop, FinishStop, BeginStop, JoinTimeout,
         Joined, RetireStuck, RetiredAll, DrainIncoming, Stopped, registryVars
<1>3. Turn' = Turn
  BY <1>1, TurnSame
<1>4. CASE UNCHANGED ids
  BY <1>1, <1>2, <1>3, <1>4, AskedSame DEF Unseen
<1>5. CASE StepFresh \/ StepAlone \/ HandleMember
  <2>1. PICK i \in DOMAIN snapshot : StepsOne(i)
    BY <1>5, SteppingOne DEF ServiceInv, HistoryInv, TurnInv
  <2> DEFINE r == snapshot[i]
  <2>2. CASE FinishStep(r)
    <3>1. r \in InFlight
      BY <2>1, FlightParts
         DEF ServiceInv, HistoryInv, TurnInv, RetireInv, Unstepped, StepsOne
    <3>2. /\ r \in Requests /\ gen[r] \in Nat
          /\ Base(r) \in Seq(Tokens)
      BY <3>1, BaseType DEF ServiceInv, HistoryInv, TurnInv, RetireInv
    <3>3. ids \in [Requests -> Seq(Tokens)]
      BY DEF ServiceInv, HistoryInv, TurnInv, RetireInv, HomeInv, TypeOK,
             RequestTypes, Tokens
    <3>4. ids' = [ids EXCEPT ![r] = Append(@, <<r, gen[r] + 1>>)]
      BY <2>2 DEF FinishStep
    <3> HIDE DEF r
    <3>5. <<r, gen[r] + 1>> \in Tokens
      BY <3>2 DEF Tokens
    <3>6. ids'[r] # <<>> /\ \A q \in Requests \ {r} : ids'[q] = ids[q]
      <4>1. ids'[r] = Append(ids[r], <<r, gen[r] + 1>>) /\ ids[r] \in Seq(Tokens)
        BY <3>2, <3>3, <3>4
      <4>2. ids'[r] # <<>>
        BY ONLY <3>5, <4>1, AppendIsNotEmpty
      <4> QED
        BY <3>3, <3>4, <4>2
    <3>7. ids[r] # <<>>
      <4> DEFINE own == [k \in 1 .. gen[r] + 1 |-> <<r, k - 1>>]
      <4>1. ids[r] = Base(r) \o own
        BY <3>1 DEF ServiceInv, HistoryInv, TurnExtendsHistory, Own, Base
      <4>2. own \in Seq(Tokens)
        BY <3>2, OwnGrows, Zenon
      <4>3. 1 \in DOMAIN own
        BY <3>2
      <4>4. own # <<>>
        BY <4>3
      <4> HIDE DEF own
      <4> QED
        BY <3>2, <4>1, <4>2, <4>4, ConcatEqualIffEmpty
    <3>8. Asked' = Asked
      BY <1>1, <3>6, <3>7, AskedSame
    <3> QED
      BY <1>1, <1>2, <1>3, <3>8 DEF Unseen
  <2> QED
    BY <1>4, <2>1, <2>2 DEF StepsOne
<1>6. UNCHANGED ids \/ StepFresh \/ StepAlone \/ HandleMember
  BY DEF Start, Run, LoopTop, AdmitPop, AdmitAppend, AdmitEnd, NothingActive,
         BeginRound, StepBatched, SamplingCrash, EndRound, Stop, FinishStop,
         BeginStop, JoinTimeout, Joined, RetireStuck, RetiredAll, DrainIncoming,
         Stopped, requestVars
<1> QED
  BY <1>4, <1>5, <1>6

LEMMA InitRefines == Init => Service!Init
<1> SUFFICES ASSUME Init PROVE Service!Init
  OBVIOUS
<1>1. Turn = [s \in Sessions |-> None]
  BY DEF Init, Turn
<1>2. Asked = {}
  BY DEF Init, Asked
<1> QED
  BY <1>1, <1>2 DEF Init, Service!Init

LEMMA NextRefines ==
  ASSUME ServiceInv, ServiceInv', [Next]_vars
  PROVE  [Service!Next]_(Service!vars)
<1>1. Service!Next \/ Unseen
  <2>1. ASSUME NEW c \in Callers, Call(c) \/ InCall(c)
        PROVE  Service!Next \/ Unseen
    BY <2>1, CallService
  <2>2. CASE Retire
    BY <2>2, RetireService
  <2>3. CASE Start \/ Run \/ Stop
    BY <2>3, ThreadService
  <2>4. CASE UNCHANGED vars
    <3>1. /\ UNCHANGED <<pc, arg, incoming, active, hand, retiring, done, sentinel>>
          /\ UNCHANGED <<session, ids, busy, sessions, minted, history>>
      BY <2>4 DEF vars, callerVars, requestVars, retireVars, registryVars
    <3>2. InFlight' = InFlight
      BY <3>1, PuttingKept, FlightParts, FlightPartsNext DEF Held
    <3>3. Turn' = Turn
      BY <3>1, <3>2, TurnSame
    <3>4. Asked' = Asked
      BY <3>1, AskedSame
    <3> QED
      BY <3>1, <3>3, <3>4 DEF Unseen
  <2> QED
    BY <2>1, <2>2, <2>3, <2>4 DEF Next
<1> QED
  BY <1>1 DEF Unseen, Service!vars

\* To the clients of its sessions the scheduler, with its callers, its thread
\* and stop() interleaved in any way, is the one-turn-at-a-time service.
THEOREM SchedulerIsTurnService == Spec => ImplementsTurnService
<1>1. Init => ServiceInv /\ Service!Init
  BY InitService, InitRefines
<1>2. ServiceInv /\ [Next]_vars => ServiceInv'
  BY StepService
<1>3. ServiceInv /\ ServiceInv' /\ [Next]_vars => [Service!Next]_(Service!vars)
  BY NextRefines
<1> QED
  BY <1>1, <1>2, <1>3, PTL DEF Spec, ImplementsTurnService, Service!Spec

=============================================================================
