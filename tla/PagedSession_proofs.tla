------------------------ MODULE PagedSession_proofs ------------------------
(***************************************************************************)
(* Proofs about PagedSession, for prompts and conversations of any length. *)
(* Every sequence of the model but the cache is 1, 2, ..., n for some n, so *)
(* prefixes are matters of length; and so is the cache while nothing was   *)
(* batched and nothing failed.                                             *)
(***************************************************************************)
EXTENDS PagedSession, TLAPS

\* The first n tokens of the conversation.
Upto(n) == [k \in 1 .. n |-> k]

Shape ==
  /\ store \in BOOLEAN /\ clean \in BOOLEAN
  /\ pc \in {"idle", "turn", "generate"}
  /\ fed \in Nat
  /\ cache \in Seq(Nat)

\* ids, history and primed are beginnings of the conversation.
Numbered ==
  \A s \in {ids, history, primed} : s \in Seq(Nat) /\ s = Upto(Len(s))

\* What is primed stays behind the turn in flight.
Behind ==
  /\ pc = "idle" => history = ids /\ Len(primed) <= Len(ids)
  /\ pc # "idle" => Len(primed) < Len(ids)
  /\ pc = "generate" => fed < Len(ids)

\* How far the cache is, unless a step was batched or failed.
Followed ==
  /\ ~store => cache = <<>> /\ primed = <<>> /\ pc # "generate"
  /\ clean =>
       /\ cache = Upto(IF pc = "generate" THEN fed ELSE Len(primed))
       /\ pc = "idle" /\ store => Len(primed) = Len(ids) - 1

IInv == Shape /\ Numbered /\ Behind /\ Followed
-----------------------------------------------------------------------------
LEMMA SameElements ==
  ASSUME NEW s \in Seq(Nat), NEW t \in Seq(Nat), Len(s) = Len(t),
         \A i \in 1 .. Len(s) : s[i] = t[i]
  PROVE  s = t
OBVIOUS

LEMMA UptoIsSeq ==
  ASSUME NEW n \in Nat
  PROVE  Upto(n) \in Seq(Nat) /\ Len(Upto(n)) = n
<1>1. Upto(n) \in [1 .. n -> Nat]
  BY DEF Upto
<1>2. DOMAIN Upto(n) = 1 .. n
  BY DEF Upto
<1> QED
  BY <1>1, <1>2

LEMMA UptoAppend ==
  ASSUME NEW n \in Nat
  PROVE  Append(Upto(n), n + 1) = Upto(n + 1)
<1>1. /\ Append(Upto(n), n + 1) \in Seq(Nat)
      /\ Len(Append(Upto(n), n + 1)) = n + 1
  BY UptoIsSeq
<1>2. /\ Upto(n + 1) \in Seq(Nat)
      /\ Len(Upto(n + 1)) = n + 1
  BY UptoIsSeq
<1>3. ASSUME NEW i \in 1 .. n + 1
      PROVE  Append(Upto(n), n + 1)[i] = Upto(n + 1)[i]
  <2>1. CASE i = n + 1
    BY <2>1, UptoIsSeq DEF Upto
  <2>2. CASE i \in 1 .. n
    <3>1. Append(Upto(n), n + 1)[i] = Upto(n)[i]
      BY <2>2, UptoIsSeq
    <3> QED
      BY <2>2, <3>1 DEF Upto
  <2>3. i = n + 1 \/ i \in 1 .. n
    OBVIOUS
  <2> QED
    BY <2>1, <2>2, <2>3
<1> QED
  BY <1>1, <1>2, <1>3

LEMMA UptoSubSeq ==
  ASSUME NEW n \in Nat, NEW m \in 0 .. n
  PROVE  SubSeq(Upto(n), 1, m) = Upto(m)
<1>1. Upto(n) \in Seq(Nat) /\ Len(Upto(n)) = n
  BY UptoIsSeq
<1>2. Upto(m) \in Seq(Nat) /\ Len(Upto(m)) = m
  BY UptoIsSeq
<1>3. /\ SubSeq(Upto(n), 1, m) \in Seq(Nat)
      /\ Len(SubSeq(Upto(n), 1, m)) = m
  BY <1>1
<1>4. ASSUME NEW i \in 1 .. m
      PROVE  SubSeq(Upto(n), 1, m)[i] = Upto(m)[i]
  <2>1. SubSeq(Upto(n), 1, m)[i] = Upto(n)[i]
    BY <1>1
  <2> QED
    BY <2>1 DEF Upto
<1> QED
  BY <1>2, <1>3, <1>4

\* A turn's own tokens continue the numbering.
LEMMA UptoConcat ==
  ASSUME NEW m \in Nat, NEW n \in Nat
  PROVE  Upto(m) \o [k \in 1 .. n |-> m + k] = Upto(m + n)
<1> DEFINE own == [k \in 1 .. n |-> m + k]
<1>1. Upto(m) \in Seq(Nat) /\ Len(Upto(m)) = m
  BY UptoIsSeq
<1>2. own \in Seq(Nat) /\ Len(own) = n
  <2>1. own \in [1 .. n -> Nat] /\ DOMAIN own = 1 .. n
    OBVIOUS
  <2> QED
    BY <2>1
<1>3. Upto(m + n) \in Seq(Nat) /\ Len(Upto(m + n)) = m + n
  BY UptoIsSeq
<1>4. Upto(m) \o own \in Seq(Nat) /\ Len(Upto(m) \o own) = m + n
  BY <1>1, <1>2
<1>5. ASSUME NEW i \in 1 .. m + n
      PROVE  (Upto(m) \o own)[i] = Upto(m + n)[i]
  <2>1. CASE i \in 1 .. m
    <3>1. (Upto(m) \o own)[i] = Upto(m)[i]
      BY <1>1, <1>2, <2>1
    <3> QED
      BY <2>1, <3>1 DEF Upto
  <2>2. CASE i \in m + 1 .. m + n
    <3>1. (Upto(m) \o own)[i] = own[i - m]
      BY <1>1, <1>2, <2>2
    <3> QED
      BY <2>2, <3>1 DEF Upto
  <2>3. i \in 1 .. m \/ i \in m + 1 .. m + n
    OBVIOUS
  <2> QED
    BY <2>1, <2>2, <2>3
<1> HIDE DEF own
<1>6. Upto(m) \o own = Upto(m + n)
  BY <1>3, <1>4, <1>5, SameElements
<1> QED
  BY <1>6 DEF own

\* The last of the numbered tokens, and those before it.
LEMMA UptoEnds ==
  ASSUME NEW n \in Nat \ {0}
  PROVE  Front(Upto(n)) = Upto(n - 1) /\ Last(Upto(n)) = n
<1>1. Front(Upto(n)) = Upto(n - 1)
  BY UptoIsSeq, UptoSubSeq DEF Front
<1>2. Last(Upto(n)) = n
  BY UptoIsSeq DEF Last, Upto
<1> QED
  BY <1>1, <1>2
-----------------------------------------------------------------------------
LEMMA Numbers ==
  ASSUME IInv
  PROVE  /\ Len(ids) \in Nat /\ ids \in Seq(Nat) /\ ids = Upto(Len(ids))
         /\ Len(history) \in Nat /\ history \in Seq(Nat)
         /\ history = Upto(Len(history))
         /\ Len(primed) \in Nat /\ primed \in Seq(Nat)
         /\ primed = Upto(Len(primed))
BY DEF IInv, Numbered

\* Of two beginnings of the conversation one is a prefix of the other.
LEMMA ExtendsByLength ==
  ASSUME IInv
  PROVE  Extends <=> Len(primed) < Len(ids)
<1>1. Len(primed) \in Nat /\ Len(ids) \in Nat
  BY Numbers
<1>2. ASSUME Len(primed) < Len(ids) PROVE IsPrefix(primed, ids)
  <2>1. SubSeq(ids, 1, Len(primed)) = Upto(Len(primed))
    <3>1. SubSeq(Upto(Len(ids)), 1, Len(primed)) = Upto(Len(primed))
      BY <1>1, <1>2, UptoSubSeq
    <3> QED
      BY <3>1, Numbers
  <2>2. SubSeq(primed, 1, Len(primed)) = Upto(Len(primed))
    BY <1>1, Numbers, UptoSubSeq
  <2> QED
    BY <1>1, <1>2, <2>1, <2>2 DEF IsPrefix
<1> QED
  BY <1>1, <1>2 DEF Extends

LEMMA EmptyIsUpto == <<>> = Upto(0) /\ <<>> \in Seq(Nat) /\ Len(<<>>) = 0
<1>1. Upto(0) \in Seq(Nat) /\ Len(Upto(0)) = 0
  BY UptoIsSeq
<1> QED
  BY <1>1

LEMMA InitInv == Init => IInv
<1> SUFFICES ASSUME Init PROVE IInv
  OBVIOUS
<1>1. Shape
  BY EmptyIsUpto DEF Init, Shape
<1>2. Behind
  BY EmptyIsUpto DEF Init, Behind
<1>3. Numbered
  BY EmptyIsUpto DEF Init, Numbered
<1>4. Followed
  BY EmptyIsUpto DEF Init, Followed
<1> QED
  BY <1>1, <1>2, <1>3, <1>4 DEF IInv

\* Beginnings of the conversation grow to beginnings.
LEMMA EmitNumbers ==
  ASSUME IInv, Emit
  PROVE  /\ ids' \in Seq(Nat) /\ Len(ids') = Len(ids) + 1
         /\ ids' = Upto(Len(ids'))
         /\ \/ pc' = "idle" /\ history' = ids'
            \/ pc' = "turn" /\ history' = history
<1>1. ids' \in Seq(Nat) /\ Len(ids') = Len(ids) + 1
  BY Numbers DEF Emit
<1>2. ids' = Upto(Len(ids) + 1)
  BY Numbers, UptoAppend DEF Emit
<1>3. ids' = Upto(Len(ids'))
  BY <1>1, <1>2
<1>4. \/ pc' = "idle" /\ history' = ids'
      \/ pc' = "turn" /\ history' = history
  BY DEF Emit
<1> QED
  BY <1>1, <1>3, <1>4

\* A failure keeps the tokens and ends the claim that the cache follows them.
LEMMA FailInv ==
  ASSUME IInv, Fail, pc # "idle", cache' \in Seq(Nat),
         UNCHANGED <<store, primed>>, ~store => cache' = <<>>
  PROVE  IInv'
<1>1. Shape'
  BY DEF IInv, Shape, Fail
<1>2. Numbered'
  BY Numbers DEF Fail, Numbered
<1>3. Behind'
  BY Numbers DEF IInv, Behind, Fail
<1>4. Followed'
  BY DEF IInv, Followed, Fail
<1> QED
  BY <1>1, <1>2, <1>3, <1>4 DEF IInv

\* Where nothing was batched and nothing failed, a generate() of the session
\* adds to the cache the token that it feeds.
LEMMA CacheGrows ==
  ASSUME IInv, clean, pc = "generate"
  PROVE  /\ fed \in Nat /\ fed < Len(ids)
         /\ cache = Upto(fed)
         /\ ids[fed + 1] = fed + 1
         /\ Append(cache, ids[fed + 1]) = Upto(fed + 1)
<1>1. fed \in Nat /\ fed < Len(ids) /\ cache = Upto(fed)
  BY DEF IInv, Shape, Behind, Followed
<1>2. ids[fed + 1] = fed + 1
  <2>1. Upto(Len(ids))[fed + 1] = fed + 1
    BY <1>1, Numbers DEF Upto
  <2> QED
    BY <2>1, Numbers
<1> QED
  BY <1>1, <1>2, UptoAppend

LEMMA SubmitInv ==
  ASSUME IInv, NEW n \in Prompts, SubmitTurn(n)
  PROVE  IInv'
<1>1. n \in Nat /\ n > 1 /\ Len(history) \in Nat
  BY SessionAssumption, Numbers
<1>2. ids' = Upto(Len(history) + n)
  <2>1. Upto(Len(history)) \o [k \in 1 .. n |-> Len(history) + k]
          = Upto(Len(history) + n)
    BY <1>1, UptoConcat
  <2> QED
    BY <2>1, Numbers DEF SubmitTurn
<1>3. ids' \in Seq(Nat) /\ Len(ids') = Len(history) + n
  BY <1>1, <1>2, UptoIsSeq
<1>4. history = ids /\ Len(primed) <= Len(ids) /\ pc = "idle"
  BY DEF IInv, Behind, SubmitTurn
<1>5. Shape'
  BY DEF IInv, Shape, SubmitTurn
<1>6. Numbered'
  BY <1>2, <1>3, Numbers DEF SubmitTurn, Numbered
<1>7. Behind'
  BY <1>1, <1>3, <1>4, Numbers DEF Behind, SubmitTurn
<1>8. Followed'
  BY <1>4 DEF IInv, Followed, SubmitTurn
<1> QED
  BY <1>5, <1>6, <1>7, <1>8 DEF IInv

LEMMA StartInv ==
  ASSUME IInv, StartSession
  PROVE  IInv'
<1>1. pc = "turn" /\ Len(primed) < Len(ids) /\ Len(ids) \in Nat \ {0}
  BY Numbers DEF IInv, Behind, StartSession
<1>2. cache' = Upto(Len(ids) - 1)
  <2>1. Front(Upto(Len(ids))) = Upto(Len(ids) - 1)
    BY <1>1, UptoEnds
  <2> QED
    BY <2>1, Numbers DEF StartSession
<1>3. cache' \in Seq(Nat) /\ fed' \in Nat /\ fed' < Len(ids)
  BY <1>1, <1>2, UptoIsSeq DEF StartSession
<1>4. Shape'
  BY <1>3 DEF IInv, Shape, StartSession
<1>5. Numbered'
  BY Numbers DEF StartSession, Numbered
<1>6. Behind'
  BY <1>1, <1>3 DEF Behind, StartSession
<1>7. Followed'
  BY <1>2 DEF Followed, StartSession
<1> QED
  BY <1>4, <1>5, <1>6, <1>7 DEF IInv

LEMMA ExtendInv ==
  ASSUME IInv, BeginExtend \/ ExtendOne
  PROVE  IInv'
<1>1. CASE BeginExtend
  <2>1. Shape'
    BY <1>1, Numbers DEF IInv, Shape, BeginExtend
  <2>2. Numbered'
    BY <1>1, Numbers DEF BeginExtend, Numbered
  <2>3. Behind'
    BY <1>1 DEF IInv, Behind, BeginExtend
  <2>4. Followed'
    BY <1>1 DEF IInv, Followed, BeginExtend
  <2> QED
    BY <2>1, <2>2, <2>3, <2>4 DEF IInv
<1>2. CASE ExtendOne
  <2>1. fed \in Nat /\ Len(ids) \in Nat /\ fed < Len(ids) - 1 /\ pc = "generate"
    BY <1>2, Numbers DEF IInv, Shape, ExtendOne
  <2>2. Shape'
    <3>1. ids[fed + 1] \in Nat
      BY <2>1, Numbers
    <3> QED
      BY <1>2, <2>1, <3>1 DEF IInv, Shape, ExtendOne
  <2>3. Numbered'
    BY <1>2, Numbers DEF ExtendOne, Numbered
  <2>4. Behind'
    BY <1>2, <2>1 DEF IInv, Behind, ExtendOne
  <2>5. Followed'
    <3>1. clean => cache' = Upto(fed')
      BY <1>2, <2>1, CacheGrows DEF ExtendOne
    <3>2. store
      BY <2>1 DEF IInv, Followed
    <3> QED
      BY <1>2, <2>1, <3>1, <3>2 DEF IInv, Followed, ExtendOne
  <2> QED
    BY <2>2, <2>3, <2>4, <2>5 DEF IInv
<1> QED
  BY <1>1, <1>2

\* The step that ends a generate() is the one that brings primed and cache
\* level again.
LEMMA DecodeInv ==
  ASSUME IInv, DecodeOne
  PROVE  IInv'
<1>1. /\ fed = Len(ids) - 1 /\ Len(ids) \in Nat \ {0}
      /\ pc = "generate" /\ store
  BY Numbers DEF IInv, Shape, Behind, Followed, DecodeOne
<1>2. Last(ids) = Len(ids)
  <2>1. Last(Upto(Len(ids))) = Len(ids)
    BY <1>1, UptoEnds
  <2> QED
    BY <2>1, Numbers
<1>3. /\ ids' \in Seq(Nat) /\ Len(ids') = Len(ids) + 1 /\ ids' = Upto(Len(ids'))
      /\ \/ pc' = "idle" /\ history' = ids'
         \/ pc' = "turn" /\ history' = history
  BY EmitNumbers DEF DecodeOne
<1>4. primed' = ids
  BY DEF DecodeOne
<1>5. Shape'
  BY <1>1, <1>2, <1>3 DEF IInv, Shape, DecodeOne
<1>6. Numbered'
  BY <1>3, <1>4, Numbers DEF Numbered
<1>7. Behind'
  BY <1>1, <1>3, <1>4 DEF Behind
<1>8. Followed'
  <2>1. clean => cache' = Upto(Len(ids))
    <3> SUFFICES ASSUME clean PROVE cache' = Upto(Len(ids))
      OBVIOUS
    <3>1. cache = Upto(Len(ids) - 1)
      BY <1>1, CacheGrows
    <3> DEFINE n == Len(ids) - 1
    <3>2. n \in Nat /\ n + 1 = Len(ids)
      BY <1>1
    <3> HIDE DEF n
    <3>3. Append(Upto(n), n + 1) = Upto(n + 1)
      BY <3>2, UptoAppend
    <3>4. cache' = Append(Upto(n), n + 1)
      BY <1>2, <3>1, <3>2 DEF DecodeOne, n
    <3> QED
      BY <3>2, <3>3, <3>4
  <2>2. pc' # "generate" /\ store' /\ clean' = clean
    BY <1>1, <1>3 DEF DecodeOne
  <2>3. Len(primed') = Len(ids') - 1
    BY <1>1, <1>3, <1>4
  <2> QED
    BY <1>4, <2>1, <2>2, <2>3 DEF Followed
<1> QED
  BY <1>5, <1>6, <1>7, <1>8 DEF IInv

\* A batched step adds a token to the turn and leaves what is primed behind.
LEMMA BatchInv ==
  ASSUME IInv, DecodeBatched
  PROVE  IInv'
<1>1. Len(ids) \in Nat \ {0} /\ Len(primed) < Len(ids) /\ store
  BY Numbers DEF IInv, Behind, DecodeBatched
<1>2. Last(ids) \in Nat
  BY <1>1, Numbers DEF Last
<1>3. /\ ids' \in Seq(Nat) /\ Len(ids') = Len(ids) + 1 /\ ids' = Upto(Len(ids'))
      /\ \/ pc' = "idle" /\ history' = ids'
         \/ pc' = "turn" /\ history' = history
  BY EmitNumbers DEF DecodeBatched
<1>4. Shape'
  <2>1. cache' \in Seq(Nat)
    BY <1>2 DEF IInv, Shape, DecodeBatched
  <2> QED
    BY <1>3, <2>1 DEF IInv, Shape, DecodeBatched
<1>5. Numbered'
  BY <1>3, Numbers DEF DecodeBatched, Numbered
<1>6. Behind'
  BY <1>1, <1>3, Numbers DEF DecodeBatched, Behind
<1>7. Followed'
  BY <1>1 DEF DecodeBatched, Followed
<1> QED
  BY <1>4, <1>5, <1>6, <1>7 DEF IInv

LEMMA FailuresInv ==
  ASSUME IInv, StartFails \/ Reject \/ ForwardFails \/ BatchFails
  PROVE  IInv'
<1>1. cache \in Seq(Nat) /\ (~store => cache = <<>>)
  BY DEF IInv, Shape, Followed
<1>2. CASE StartFails \/ Reject
  BY <1>1, <1>2, FailInv DEF StartFails, Reject
<1>3. CASE ForwardFails
  <2>1. pc = "generate" /\ store /\ fed \in Nat /\ fed < Len(ids)
    BY <1>3 DEF IInv, Shape, Behind, Followed, ForwardFails
  <2>2. ids[fed + 1] \in Nat
    BY <2>1, Numbers
  <2>3. cache' \in Seq(Nat)
    BY <1>1, <1>3, <2>2 DEF ForwardFails
  <2> QED
    BY <1>3, <2>1, <2>3, FailInv DEF ForwardFails
<1>4. CASE BatchFails
  <2>1. Len(ids) \in Nat \ {0} /\ store /\ pc = "turn"
    BY <1>4, Numbers DEF IInv, Behind, BatchFails
  <2>2. Last(ids) \in Nat
    BY <2>1, Numbers DEF Last
  <2>3. cache' \in Seq(Nat)
    BY <1>1, <1>4, <2>2 DEF BatchFails
  <2> QED
    BY <1>4, <2>1, <2>3, FailInv DEF BatchFails
<1> QED
  BY <1>2, <1>3, <1>4

LEMMA StepInv ==
  ASSUME IInv, [Next]_vars
  PROVE  IInv'
<1>1. CASE \E n \in Prompts : SubmitTurn(n)
  BY <1>1, SubmitInv
<1>2. CASE StartSession
  BY <1>2, StartInv
<1>3. CASE BeginExtend \/ ExtendOne
  BY <1>3, ExtendInv
<1>4. CASE DecodeOne
  BY <1>4, DecodeInv
<1>5. CASE DecodeBatched
  BY <1>5, BatchInv
<1>6. CASE StartFails \/ Reject \/ ForwardFails \/ BatchFails
  BY <1>6, FailuresInv
<1>7. CASE UNCHANGED vars
  BY <1>7 DEF vars, IInv, Shape, Numbered, Behind, Followed
<1> QED
  BY <1>1, <1>2, <1>3, <1>4, <1>5, <1>6, <1>7 DEF Next

LEMMA Inductive == Spec => []IInv
<1>1. Init => IInv
  BY InitInv
<1>2. IInv /\ [Next]_vars => IInv'
  BY StepInv
<1> QED
  BY <1>1, <1>2, PTL DEF Spec
-----------------------------------------------------------------------------
\* Whatever is batched and whatever fails, every turn of a session extends what
\* its PagedModel has primed, for turns of any length: generate()'s ValueError
\* is never met.
THEOREM TurnsExtendPrimed == Spec => []NeverRewound
<1>1. IInv => NeverRewound
  BY ExtendsByLength DEF IInv, Behind, NeverRewound
<1> QED
  BY <1>1, Inductive, PTL

\* Until a step is batched or fails the KV cache is the token sequence, within
\* a generate() as far as it is fed and between calls up to the last token.
THEOREM CacheIsSequence == Spec => []CacheFollowsSequence
<1>1. ASSUME IInv, clean PROVE CacheFollowsSequence
  <2>1. Len(ids) \in Nat /\ Len(primed) \in Nat
    BY Numbers
  <2>2. ASSUME pc = "generate" PROVE cache = SubSeq(ids, 1, fed)
    <3>1. fed \in 0 .. Len(ids) /\ cache = Upto(fed)
      BY <1>1, <2>1, <2>2, CacheGrows
    <3>2. SubSeq(Upto(Len(ids)), 1, fed) = Upto(fed)
      BY <2>1, <3>1, UptoSubSeq
    <3> QED
      BY <1>1, <3>1, <3>2, Numbers
  <2>3. ASSUME pc # "generate", store PROVE cache = primed /\ Extends
    <3>1. cache = primed
      BY <1>1, <2>3, Numbers DEF IInv, Followed
    <3>2. Len(primed) < Len(ids)
      BY <1>1, <2>1, <2>3 DEF IInv, Shape, Behind, Followed
    <3> QED
      BY <1>1, <3>1, <3>2, ExtendsByLength
  <2>4. ASSUME pc = "idle", store PROVE cache = Front(ids)
    <3>1. Len(primed) = Len(ids) - 1
      BY <1>1, <2>4 DEF IInv, Followed
    <3>2. Front(Upto(Len(ids))) = Upto(Len(ids) - 1)
      BY <2>1, <3>1, UptoEnds
    <3> QED
      BY <1>1, <2>3, <2>4, <3>1, <3>2, Numbers
  <2> QED
    BY <2>2, <2>3, <2>4 DEF CacheFollowsSequence
<1>2. IInv => CacheFollowsSequence
  BY <1>1 DEF CacheFollowsSequence
<1> QED
  BY <1>2, Inductive, PTL
=============================================================================
