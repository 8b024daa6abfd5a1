----------------------- MODULE PagedGeneration_proofs -----------------------
(***************************************************************************)
(* Proofs about the store and the scripts that use it: KVBlockStore alone  *)
(* (IInv), then PagedGeneration, for every prompt, chunk size, block size, *)
(* number of steps and budget: how far a script can be (Control), what the *)
(* store, the tail, the caches and the tokens hold there (TextInv), and    *)
(* what the pager and the store know of each other (SyncInv).              *)
(***************************************************************************)
EXTENDS PagedGeneration, FiniteSetTheorems, SequenceTheorems, TLAPS

-----------------------------------------------------------------------------
(* The store alone, for every number of blocks, budget and number of       *)
(* faults.  Accounting, LostByFaultsOnly and ReturnedMeansPlaced are not   *)
(* inductive: a call in progress is described by Progress.                 *)

\* What a call in progress has done: the blocks it visited are where it wants
\* them, and _reload_all_blocks has passed over no registered block.
Progress ==
  call # "none" =>
    /\ \A b \in (gpu \cup cpu) \ todo : b \in gpu <=> b \in onGpu
    /\ call = "reload" => onGpu = Registered /\ Registered \ todo \subseteq gpu

IInv ==
  TypeOK /\ Accounting /\ LostByFaultsOnly /\ Progress /\ ReturnedMeansPlaced

\* Every set of registered ids is finite.
LEMMA RegisteredFinite ==
  ASSUME TypeOK, NEW S \in SUBSET Registered
  PROVE  IsFiniteSet(S)
<1>1. next \in Int
  BY StoreAssumption DEF TypeOK
<1>2. IsFiniteSet(Registered)
  BY <1>1, FS_Interval DEF Registered
<1> QED
  BY <1>2, FS_Subset

\* Moving one block changes a byte total by one block.
LEMMA AddBlock ==
  ASSUME NEW S, IsFiniteSet(S), NEW b, b \notin S
  PROVE  BlockBytes * Cardinality(S \cup {b})
           = BlockBytes * Cardinality(S) + BlockBytes
<1>1. Cardinality(S) \in Nat
  BY FS_CardinalityType
<1>2. Cardinality(S \cup {b}) = Cardinality(S) + 1
  BY FS_AddElement
<1>3. ASSUME NEW m \in Nat PROVE BlockBytes * (m + 1) = BlockBytes * m + BlockBytes
  BY StoreAssumption
<1> QED
  BY <1>1, <1>2, <1>3

LEMMA DropBlock ==
  ASSUME NEW S, IsFiniteSet(S), NEW b \in S
  PROVE  BlockBytes * Cardinality(S \ {b})
           = BlockBytes * Cardinality(S) - BlockBytes
<1> DEFINE T == S \ {b}
<1>1. IsFiniteSet(T)
  BY FS_Subset
<1>2. BlockBytes * Cardinality(T \cup {b})
        = BlockBytes * Cardinality(T) + BlockBytes
  BY <1>1, AddBlock
<1>3. T \cup {b} = S
  OBVIOUS
<1>4. Cardinality(T) \in Nat
  BY <1>1, FS_CardinalityType
<1> HIDE DEF T
<1>5. BlockBytes * Cardinality(T) \in Int
  BY <1>4, StoreAssumption
<1>6. BlockBytes * Cardinality(S) = BlockBytes * Cardinality(T) + BlockBytes
  BY <1>2, <1>3
<1>7. BlockBytes * Cardinality(T) = BlockBytes * Cardinality(S) - BlockBytes
  BY <1>5, <1>6, StoreAssumption
<1> QED
  BY <1>7 DEF T
-----------------------------------------------------------------------------
LEMMA InitInv == Init => IInv
<1> SUFFICES ASSUME Init PROVE IInv
  OBVIOUS
<1>1. TypeOK
  BY StoreAssumption DEF Init, TypeOK, Registered
<1>2. Cardinality({}) = 0
  BY FS_EmptySet
<1>3. Registered = {}
  BY DEF Init, Registered
<1>4. Accounting /\ LostByFaultsOnly
  BY <1>2, <1>3, StoreAssumption DEF Init, Accounting, LostByFaultsOnly
<1>5. Progress /\ ReturnedMeansPlaced
  BY DEF Init, Progress, ReturnedMeansPlaced
<1> QED
  BY <1>1, <1>4, <1>5 DEF IInv

LEMMA NextType == TypeOK /\ [Next]_vars => TypeOK'
<1> SUFFICES ASSUME TypeOK, [Next]_vars PROVE TypeOK'
  OBVIOUS
<1> USE StoreAssumption DEF TypeOK, Registered
<1>1. CASE PutGpu
  BY <1>1 DEF PutGpu
<1>2. ASSUME NEW wanted \in SUBSET Registered, BeginApply(wanted) PROVE TypeOK'
  BY <1>2 DEF BeginApply
<1>3. CASE BeginReload
  BY <1>3 DEF BeginReload
<1>4. ASSUME NEW b \in Ids, Visit(b) PROVE TypeOK'
  <2>1. CASE Skip(b)
    BY <2>1 DEF Skip
  <2>2. CASE OffloadToCpu(b)
    BY <2>2 DEF OffloadToCpu, LeaveGpu, Visits
  <2>3. CASE RefuseOffload(b)
    BY <2>3 DEF RefuseOffload, Raise
  <2>4. CASE LoadToGpu(b)
    BY <2>4 DEF LoadToGpu, LeaveCpu, Visits
  <2>5. CASE LoadMissing(b)
    BY <2>5 DEF LoadMissing, Raise
  <2>6. CASE OffloadFault(b)
    BY <2>6 DEF OffloadFault, LeaveGpu, Raise
  <2>7. CASE LoadFault(b)
    BY <2>7 DEF LoadFault, LeaveCpu, Raise
  <2> QED
    BY <1>4, <2>1, <2>2, <2>3, <2>4, <2>5, <2>6, <2>7 DEF Visit
<1>5. CASE Return
  BY <1>5 DEF Return
<1>6. CASE UNCHANGED vars
  BY <1>6 DEF vars
<1> QED
  BY <1>1, <1>2, <1>3, <1>4, <1>5, <1>6 DEF Next

\* A step moves blocks, or it moves none and leaves the totals alone.
NoMove == UNCHANGED <<gpu, cpu, residentGpu, residentCpu>>

LEMMA NextAccounting == TypeOK /\ Accounting /\ [Next]_vars => Accounting'
<1> SUFFICES ASSUME TypeOK, Accounting, [Next]_vars PROVE Accounting'
  OBVIOUS
<1>1. IsFiniteSet(gpu) /\ IsFiniteSet(cpu)
  BY RegisteredFinite DEF TypeOK
<1>2. CASE NoMove
  BY <1>2 DEF NoMove, Accounting
<1>3. CASE PutGpu
  <2>1. next \notin gpu
    BY DEF TypeOK, Registered
  <2>2. BlockBytes * Cardinality(gpu')
          = BlockBytes * Cardinality(gpu) + BlockBytes
    BY <1>1, <1>3, <2>1, AddBlock DEF PutGpu
  <2> QED
    BY <1>3, <2>2 DEF PutGpu, Accounting
<1>4. ASSUME NEW b \in Ids, OffloadToCpu(b) PROVE Accounting'
  <2>1. b \in gpu /\ b \notin cpu
    BY <1>4 DEF OffloadToCpu
  <2>2. BlockBytes * Cardinality(gpu \ {b})
          = BlockBytes * Cardinality(gpu) - BlockBytes
    BY <1>1, <2>1, DropBlock
  <2>3. BlockBytes * Cardinality(cpu \cup {b})
          = BlockBytes * Cardinality(cpu) + BlockBytes
    BY <1>1, <2>1, AddBlock
  <2> QED
    BY <1>4, <2>1, <2>2, <2>3 DEF OffloadToCpu, LeaveGpu, Accounting
<1>5. ASSUME NEW b \in Ids, LoadToGpu(b) PROVE Accounting'
  <2>1. b \in cpu /\ b \notin gpu
    BY <1>5 DEF LoadToGpu
  <2>2. BlockBytes * Cardinality(cpu \ {b})
          = BlockBytes * Cardinality(cpu) - BlockBytes
    BY <1>1, <2>1, DropBlock
  <2>3. BlockBytes * Cardinality(gpu \cup {b})
          = BlockBytes * Cardinality(gpu) + BlockBytes
    BY <1>1, <2>1, AddBlock
  <2> QED
    BY <1>5, <2>1, <2>2, <2>3 DEF LoadToGpu, LeaveCpu, Accounting
<1>6. ASSUME NEW b \in Ids, OffloadFault(b) PROVE Accounting'
  <2>1. BlockBytes * Cardinality(gpu \ {b})
          = BlockBytes * Cardinality(gpu) - BlockBytes
    BY <1>1, <1>6, DropBlock DEF OffloadFault
  <2> QED
    BY <1>6, <2>1 DEF OffloadFault, LeaveGpu, Accounting
<1>7. ASSUME NEW b \in Ids, LoadFault(b) PROVE Accounting'
  <2>1. BlockBytes * Cardinality(cpu \ {b})
          = BlockBytes * Cardinality(cpu) - BlockBytes
    BY <1>1, <1>7, DropBlock DEF LoadFault
  <2> QED
    BY <1>7, <2>1 DEF LoadFault, LeaveCpu, Accounting
<1>8. ASSUME NEW wanted \in SUBSET Registered, BeginApply(wanted) PROVE NoMove
  BY <1>8 DEF BeginApply, NoMove
<1>9. ASSUME BeginReload \/ Return \/ UNCHANGED vars PROVE NoMove
  BY <1>9 DEF BeginReload, Return, NoMove, vars
<1>10. ASSUME NEW b \in Ids, Skip(b) \/ RefuseOffload(b) \/ LoadMissing(b)
       PROVE  NoMove
  BY <1>10 DEF Skip, RefuseOffload, LoadMissing, NoMove
<1> QED
  BY <1>2, <1>3, <1>4, <1>5, <1>6, <1>7, <1>8, <1>9, <1>10 DEF Next, Visit

\* Blocks registered and on neither side.
Lost == Registered \ (gpu \cup cpu)

\* Most steps lose nothing; a fault loses the block it was moving.
LEMMA NextLost ==
  TypeOK /\ LostByFaultsOnly /\ [Next]_vars => LostByFaultsOnly'
<1> SUFFICES ASSUME TypeOK, LostByFaultsOnly, [Next]_vars
             PROVE  LostByFaultsOnly'
  OBVIOUS
<1>1. IsFiniteSet(Lost) /\ Cardinality(Lost) \in Nat
  BY RegisteredFinite, FS_CardinalityType DEF Lost
<1>2. Cardinality(Lost) <= faults
  BY DEF LostByFaultsOnly, Lost
<1>3. ASSUME Lost' = Lost, faults' = faults PROVE LostByFaultsOnly'
  BY <1>2, <1>3 DEF LostByFaultsOnly, Lost
<1>4. ASSUME NEW b, Lost' = Lost \cup {b}, faults' = faults + 1
      PROVE  LostByFaultsOnly'
  <2>1. Cardinality(Lost \cup {b}) <= Cardinality(Lost) + 1
    BY <1>1, FS_AddElement
  <2>2. Cardinality(Lost \cup {b}) \in Nat
    BY <1>1, FS_AddElement, FS_CardinalityType
  <2>3. Cardinality(Lost') <= faults'
    BY <1>1, <1>2, <1>4, <2>1, <2>2 DEF TypeOK
  <2> QED
    BY <2>3 DEF LostByFaultsOnly, Lost
<1>5. ASSUME PutGpu PROVE Lost' = Lost /\ faults' = faults
  BY <1>5, StoreAssumption DEF PutGpu, Lost, Registered, TypeOK
<1>6. ASSUME NEW wanted \in SUBSET Registered, BeginApply(wanted)
      PROVE  Lost' = Lost /\ faults' = faults
  BY <1>6 DEF BeginApply, Lost, Registered
<1>7. ASSUME BeginReload \/ Return \/ UNCHANGED vars
      PROVE  Lost' = Lost /\ faults' = faults
  BY <1>7 DEF BeginReload, Return, vars, Lost, Registered
<1>8. ASSUME NEW b \in Ids, Skip(b) \/ RefuseOffload(b) \/ LoadMissing(b)
      PROVE  Lost' = Lost /\ faults' = faults
  BY <1>8 DEF Skip, RefuseOffload, LoadMissing, Lost, Registered
<1>9. ASSUME NEW b \in Ids, OffloadToCpu(b) \/ LoadToGpu(b)
      PROVE  Lost' = Lost /\ faults' = faults
  BY <1>9 DEF OffloadToCpu, LoadToGpu, LeaveGpu, LeaveCpu, Lost, Registered
<1>10. ASSUME NEW b \in Ids, OffloadFault(b)
       PROVE  LostByFaultsOnly'
  <2>1. Lost' = Lost \cup {b}
    BY <1>10 DEF OffloadFault, LeaveGpu, Lost, Registered, TypeOK
  <2> QED
    BY <1>4, <1>10, <2>1 DEF OffloadFault
<1>11. ASSUME NEW b \in Ids, LoadFault(b)
       PROVE  LostByFaultsOnly'
  <2>1. Lost' = Lost \cup {b}
    BY <1>11 DEF LoadFault, LeaveCpu, Lost, Registered, TypeOK
  <2> QED
    BY <1>4, <1>11, <2>1 DEF LoadFault
<1> QED
  BY <1>3, <1>5, <1>6, <1>7, <1>8, <1>9, <1>10, <1>11 DEF Next, Visit

\* The prerequisites of Progress that a step can disturb: the blocks a visit
\* leaves behind it are placed, and a new call has visited nothing.
LEMMA NextProgress == TypeOK /\ Accounting /\ Progress /\ [Next]_vars => Progress'
<1> SUFFICES ASSUME TypeOK, Accounting, Progress, [Next]_vars
             PROVE  Progress'
  OBVIOUS
<1>1. CASE PutGpu
  BY <1>1 DEF PutGpu, Progress
<1>2. ASSUME NEW wanted \in SUBSET Registered, BeginApply(wanted)
      PROVE  Progress'
  BY <1>2 DEF BeginApply, Progress
<1>3. CASE BeginReload
  BY <1>3 DEF BeginReload, Progress, TypeOK, Registered
<1>4. ASSUME NEW b \in Ids, Visit(b) PROVE Progress'
  <2>1. CASE Skip(b)
    BY <2>1 DEF Skip, Visits, Progress, Accounting, TypeOK, Registered
  <2>2. CASE OffloadToCpu(b)
    BY <2>2 DEF OffloadToCpu, LeaveGpu, Visits, Progress, TypeOK, Registered
  <2>3. CASE LoadToGpu(b)
    BY <2>3 DEF LoadToGpu, LeaveCpu, Visits, Progress, TypeOK, Registered
  <2>4. CASE RefuseOffload(b) \/ LoadMissing(b) \/ OffloadFault(b) \/ LoadFault(b)
    BY <2>4 DEF RefuseOffload, LoadMissing, OffloadFault, LoadFault, Raise, Progress
  <2> QED
    BY <1>4, <2>1, <2>2, <2>3, <2>4 DEF Visit
<1>5. CASE Return
  BY <1>5 DEF Return, Progress
<1>6. CASE UNCHANGED vars
  BY <1>6 DEF vars, Progress, Registered
<1> QED
  BY <1>1, <1>2, <1>3, <1>4, <1>5, <1>6 DEF Next

\* Only Return ends a call with the name of that call in last.
LEMMA NextReturned ==
  TypeOK /\ Accounting /\ Progress /\ ReturnedMeansPlaced /\ [Next]_vars
    => ReturnedMeansPlaced'
<1> SUFFICES ASSUME TypeOK, Accounting, Progress, ReturnedMeansPlaced,
                    [Next]_vars
             PROVE  ReturnedMeansPlaced'
  OBVIOUS
<1>1. CASE PutGpu
  BY <1>1 DEF PutGpu, ReturnedMeansPlaced
<1>2. ASSUME NEW wanted \in SUBSET Registered, BeginApply(wanted)
      PROVE  ReturnedMeansPlaced'
  BY <1>2 DEF BeginApply, ReturnedMeansPlaced
<1>3. CASE BeginReload
  BY <1>3 DEF BeginReload, ReturnedMeansPlaced
<1>4. ASSUME NEW b \in Ids, Visit(b) PROVE ReturnedMeansPlaced'
  <2>1. CASE Skip(b) \/ OffloadToCpu(b) \/ LoadToGpu(b)
    BY <2>1 DEF Skip, OffloadToCpu, LoadToGpu, Visits, ReturnedMeansPlaced
  <2>2. CASE RefuseOffload(b) \/ LoadMissing(b) \/ OffloadFault(b) \/ LoadFault(b)
    BY <2>2 DEF RefuseOffload, LoadMissing, OffloadFault, LoadFault, Raise,
                ReturnedMeansPlaced
  <2> QED
    BY <1>4, <2>1, <2>2 DEF Visit
<1>5. CASE Return
  <2>1. \A b \in gpu \cup cpu : b \in gpu <=> b \in onGpu
    BY <1>5 DEF Return, Progress
  <2>2. gpu = (gpu \cup cpu) \cap onGpu
    BY <2>1 DEF Accounting
  <2>3. call = "reload" => gpu = Registered
    BY <1>5 DEF Return, Progress, TypeOK
  <2> QED
    BY <1>5, <2>2, <2>3 DEF Return, ReturnedMeansPlaced, Registered
<1>6. CASE UNCHANGED vars
  BY <1>6 DEF vars, ReturnedMeansPlaced, Registered
<1> QED
  BY <1>1, <1>2, <1>3, <1>4, <1>5, <1>6 DEF Next

LEMMA NextInv == IInv /\ [Next]_vars => IInv'
BY NextType, NextAccounting, NextLost, NextProgress, NextReturned DEF IInv

\* The budget check of offload_to_cpu guards the only step that adds to CPU.
LEMMA NextBudget ==
  TypeOK /\ WithinRamBudget /\ [Next]_vars => WithinRamBudget'
<1> SUFFICES ASSUME TypeOK, WithinRamBudget, [Next]_vars
             PROVE  WithinRamBudget'
  OBVIOUS
<1> USE StoreAssumption DEF TypeOK, WithinRamBudget
<1>1. ASSUME NEW b \in Ids, OffloadToCpu(b) PROVE WithinRamBudget'
  BY <1>1 DEF OffloadToCpu, OverBudget
<1>2. ASSUME NEW b \in Ids, LoadToGpu(b) \/ LoadFault(b)
      PROVE  WithinRamBudget'
  BY <1>2 DEF LoadToGpu, LoadFault, LeaveCpu
<1>3. ASSUME NEW b \in Ids,
             Skip(b) \/ RefuseOffload(b) \/ LoadMissing(b) \/ OffloadFault(b)
      PROVE  WithinRamBudget'
  BY <1>3 DEF Skip, RefuseOffload, LoadMissing, OffloadFault
<1>4. ASSUME NEW wanted \in SUBSET Registered, BeginApply(wanted)
      PROVE  WithinRamBudget'
  BY <1>4 DEF BeginApply
<1>5. CASE PutGpu \/ BeginReload \/ Return \/ UNCHANGED vars
  BY <1>5 DEF PutGpu, BeginReload, Return, vars
<1> QED
  BY <1>1, <1>2, <1>3, <1>4, <1>5 DEF Next, Visit
-----------------------------------------------------------------------------
\* The store's bookkeeping survives every sequence of calls, budget refusals
\* and failed copies, for any block size and budget (put_gpu, offload_to_cpu,
\* load_to_gpu, apply_tiers, _reload_all_blocks).
THEOREM InductiveInvariant == Spec => []IInv
BY InitInv, NextInv, PTL DEF Spec

\* The state of the store has its type.
THEOREM TypeCorrect == Spec => []TypeOK
BY InductiveInvariant, PTL DEF IInv

\* _resident_gpu_bytes and _resident_cpu_bytes are what a scan would give, and
\* no block is on both sides.
THEOREM AccountingHolds == Spec => []Accounting
BY InductiveInvariant, PTL DEF IInv

\* No block is lost except to a copy that failed, one each.
THEOREM LosesOnlyByFaults == Spec => []LostByFaultsOnly
BY InductiveInvariant, PTL DEF IInv

\* apply_tiers and _reload_all_blocks that return have placed their blocks.
THEOREM CallsPlace == Spec => []ReturnedMeansPlaced
BY InductiveInvariant, PTL DEF IInv

\* ram_budget_bytes is never exceeded, also between two moves of one call.
THEOREM RamBudgetHolds == Spec => []WithinRamBudget
<1>1. Init => WithinRamBudget
  BY StoreAssumption DEF Init, WithinRamBudget
<1> QED
  BY <1>1, TypeCorrect, NextBudget, PTL DEF Spec

-----------------------------------------------------------------------------
(* The scripts, and how far they can be *)

T == TokensPerBlock

Resident(s) == s \in {greedy_baseline_generate, baseline_generate}
RoundTrips(s) ==
  s \in {kv_roundtrip, logits_roundtrip, generation_roundtrip, cache_block}
Dummies(s) == s \in {kv_offload, pager_integration}
\* The scripts of PagedModel and those of bench/ with the same body.
Appends(s) == s.body = _forward_step
Streams(s) == s.body = _forward_step_streaming

RoundTripPrime == <<"prefill_all", "build", "on_step", "apply", "reload",
                    "reconstruct_blocks">>
LogitsPrime == <<"prefill_all", "build", "on_step", "apply", "reload",
                 "reconstruct_blocks", "refeed">>
GenerationPrime == <<"prefill_all", "build", "refeed", "on_step", "apply",
                     "reload", "reconstruct_blocks">>
PolicyPrime == <<"prefill", "build">>
GreedyPrime == <<"prefill", "keep_past">>
BaselinePrime == <<"chunked_prefill", "keep_past">>
PagedPrime == <<"prefill">>
GroupedPrime == <<"chunked_prefill", "build", "keep_recent">>
CachePrime == <<"prefill_all", "build", "on_step", "apply">>
OffloadPrime == <<"dummy_blocks", "offload", "prefetch">>
TracePrime == <<"dummy_blocks">>
TraceBody == <<"trace_step", "apply">>
PagedBody == <<"rebuild", "on_step", "apply", "reload", "reconstruct", "forward">>
GroupedBody == <<"reload", "stream", "forward", "append_grown", "keep_recent">>
ResidentBody == <<"forward", "keep_past">>

TripStatements ==
  {"prefill_all", "build", "refeed", "on_step", "apply", "reload",
   "reconstruct_blocks"}

LEMMA ConcatIs ==
  ASSUME NEW S, NEW s \in Seq(S), NEW t \in Seq(S), NEW u \in Seq(S),
         Len(u) = Len(s) + Len(t),
         \A i \in 1 .. Len(s) : u[i] = s[i],
         \A i \in 1 .. Len(t) : u[Len(s) + i] = t[i]
  PROVE  s \o t = u
<1>1. Len(s) \in Nat /\ Len(t) \in Nat
  OBVIOUS
<1>2. /\ s \o t \in Seq(S) /\ Len(s \o t) = Len(s) + Len(t)
      /\ \A i \in 1 .. Len(s) + Len(t) :
           (s \o t)[i] = IF i <= Len(s) THEN s[i] ELSE t[i - Len(s)]
  BY ConcatProperties
<1>3. ASSUME NEW i \in 1 .. Len(u) PROVE (s \o t)[i] = u[i]
  <2>1. CASE i <= Len(s)
    BY <1>1, <1>2, <2>1
  <2>2. CASE i > Len(s)
    <3>1. i - Len(s) \in 1 .. Len(t) /\ Len(s) + (i - Len(s)) = i
      BY <1>1, <2>2
    <3>2. u[i] = t[i - Len(s)]
      BY <3>1
    <3> QED
      BY <1>1, <1>2, <2>2, <3>2
  <2> QED
    BY <1>1, <2>1, <2>2
<1> QED
  BY ONLY <1>2, <1>3, s \in Seq(S), u \in Seq(S), Len(u) = Len(s) + Len(t), SeqEqual

LEMMA ConcatenatedPrimes ==
  /\ kv_roundtrip.prime = RoundTripPrime
  /\ logits_roundtrip.prime = LogitsPrime
  /\ generation_roundtrip.prime = GenerationPrime
<1> DEFINE Two == <<"prefill_all", "build">>
           Three == <<"prefill_all", "build", "refeed">>
           More == <<"refeed">>
<1>1. /\ Two \in Seq(TripStatements) /\ Three \in Seq(TripStatements)
      /\ RoundTrip \in Seq(TripStatements) /\ More \in Seq(TripStatements)
  BY DEF RoundTrip, TripStatements
<1>2. Len(Two) = 2 /\ Len(Three) = 3 /\ Len(RoundTrip) = 4 /\ Len(More) = 1
  BY DEF RoundTrip
<1>3. Two \o RoundTrip = RoundTripPrime
  <2>1. /\ RoundTripPrime \in Seq(TripStatements) /\ Len(RoundTripPrime) = 6
        /\ \A i \in 1 .. 2 : RoundTripPrime[i] = Two[i]
        /\ \A i \in 1 .. 4 : RoundTripPrime[2 + i] = RoundTrip[i]
    BY DEF RoundTrip, RoundTripPrime, TripStatements
  <2> HIDE DEF Two, Three, More
  <2>2. /\ Len(RoundTripPrime) = Len(Two) + Len(RoundTrip)
        /\ \A i \in 1 .. Len(Two) : RoundTripPrime[i] = Two[i]
        /\ \A i \in 1 .. Len(RoundTrip) : RoundTripPrime[Len(Two) + i] = RoundTrip[i]
    BY ONLY <1>2, <2>1
  <2> QED
    BY ONLY <1>1, <2>1, <2>2, ConcatIs
<1>4. Three \o RoundTrip = GenerationPrime
  <2>1. /\ GenerationPrime \in Seq(TripStatements) /\ Len(GenerationPrime) = 7
        /\ \A i \in 1 .. 3 : GenerationPrime[i] = Three[i]
        /\ \A i \in 1 .. 4 : GenerationPrime[3 + i] = RoundTrip[i]
    BY DEF RoundTrip, GenerationPrime, TripStatements
  <2> HIDE DEF Two, Three, More
  <2>2. /\ Len(GenerationPrime) = Len(Three) + Len(RoundTrip)
        /\ \A i \in 1 .. Len(Three) : GenerationPrime[i] = Three[i]
        /\ \A i \in 1 .. Len(RoundTrip) : GenerationPrime[Len(Three) + i] = RoundTrip[i]
    BY ONLY <1>2, <2>1
  <2> QED
    BY ONLY <1>1, <2>1, <2>2, ConcatIs
<1>5. RoundTripPrime \o More = LogitsPrime
  <2>1. RoundTripPrime \in Seq(TripStatements) /\ Len(RoundTripPrime) = 6
    BY DEF RoundTripPrime, TripStatements
  <2>2. /\ LogitsPrime \in Seq(TripStatements) /\ Len(LogitsPrime) = 7
        /\ \A i \in 1 .. 6 : LogitsPrime[i] = RoundTripPrime[i]
        /\ \A i \in 1 .. 1 : LogitsPrime[6 + i] = More[i]
    BY DEF RoundTripPrime, LogitsPrime, TripStatements
  <2> HIDE DEF More
  <2>3. /\ Len(LogitsPrime) = Len(RoundTripPrime) + Len(More)
        /\ \A i \in 1 .. Len(RoundTripPrime) : LogitsPrime[i] = RoundTripPrime[i]
        /\ \A i \in 1 .. Len(More) : LogitsPrime[Len(RoundTripPrime) + i] = More[i]
    BY ONLY <1>2, <2>1, <2>2
  <2> QED
    BY ONLY <1>1, <2>1, <2>2, <2>3, ConcatIs
<1> QED
  BY <1>3, <1>4, <1>5
     DEF kv_roundtrip, logits_roundtrip, generation_roundtrip, Script

\* What each script runs, and of which class it is.
Table(s) ==
  \/ /\ s.prime = _start_session
     /\ s.body \in {_forward_step, _forward_step_streaming}
     /\ ~RoundTrips(s) /\ ~Resident(s) /\ ~Dummies(s) /\ ~ReFeeds(s)
     /\ s # paged_generate /\ s # kv_roundtrip
     /\ s # streaming_generate
  \/ /\ s.prime = PolicyPrime /\ s.body = _forward_step /\ s.bench
     /\ ~RoundTrips(s) /\ ~Resident(s) /\ ~Dummies(s) /\ ~ReFeeds(s)
     /\ s # paged_generate /\ s # kv_roundtrip
     /\ s # streaming_generate
  \/ /\ s.prime \in {GreedyPrime, BaselinePrime}
     /\ s.body = ResidentBody /\ s.bench
     /\ ~RoundTrips(s) /\ Resident(s) /\ ~Dummies(s) /\ ~ReFeeds(s)
     /\ s # paged_generate /\ s # kv_roundtrip
     /\ s # streaming_generate
  \/ /\ s.prime = PagedPrime /\ s.body = PagedBody /\ s.bench
     /\ ~RoundTrips(s) /\ ~Resident(s) /\ ~Dummies(s) /\ ~ReFeeds(s)
     /\ s = paged_generate /\ s # kv_roundtrip
     /\ s # streaming_generate
  \/ /\ s.prime = GroupedPrime
     /\ s.body = GroupedBody /\ s.bench
     /\ ~RoundTrips(s) /\ ~Resident(s) /\ ~Dummies(s) /\ ~ReFeeds(s)
     /\ s # paged_generate /\ s # kv_roundtrip
     /\ s = streaming_generate
  \/ /\ s.prime = RoundTripPrime /\ s.body = <<>> /\ s.bench
     /\ RoundTrips(s) /\ ~Resident(s) /\ ~Dummies(s) /\ ~ReFeeds(s)
     /\ s # paged_generate /\ s = kv_roundtrip
     /\ s # streaming_generate
  \/ /\ s.prime \in {LogitsPrime, GenerationPrime} /\ s.body = ResidentBody
     /\ s.bench
     /\ RoundTrips(s) /\ ~Resident(s) /\ ~Dummies(s) /\ ReFeeds(s)
     /\ s # paged_generate /\ s # kv_roundtrip
     /\ s # streaming_generate
  \/ /\ s.prime = CachePrime
     /\ s.body = <<>> /\ s.bench
     /\ RoundTrips(s) /\ ~Resident(s) /\ ~Dummies(s) /\ ~ReFeeds(s)
     /\ s # paged_generate /\ s # kv_roundtrip
     /\ s # streaming_generate
  \/ /\ s.prime = OffloadPrime /\ s.body = <<>>
     /\ s = kv_offload
  \/ /\ s.prime = TracePrime /\ s.body = TraceBody
     /\ s = pager_integration

LEMMA PrimesOf ==
  /\ greedy_baseline_generate.prime = GreedyPrime
  /\ baseline_generate.prime = BaselinePrime
  /\ run_policy.prime = PolicyPrime
  /\ vram_savings_proof.prime = _start_session
  /\ paged_generate.prime = PagedPrime
  /\ streaming_generate.prime = GroupedPrime
  /\ kv_roundtrip.prime = RoundTripPrime
  /\ logits_roundtrip.prime = LogitsPrime
  /\ generation_roundtrip.prime = GenerationPrime
  /\ cache_block.prime = CachePrime
  /\ kv_offload.prime = OffloadPrime
  /\ pager_integration.prime = TracePrime
<1>1. /\ greedy_baseline_generate.prime = GreedyPrime
      /\ baseline_generate.prime = BaselinePrime
  BY DEF greedy_baseline_generate, baseline_generate, Script, GreedyPrime, BaselinePrime
<1>2. run_policy.prime = PolicyPrime
  BY DEF run_policy, Script, PolicyPrime
<1>3. vram_savings_proof.prime = _start_session
  BY DEF vram_savings_proof, Script, _start_session
<1>4. paged_generate.prime = PagedPrime
  BY DEF paged_generate, Script, PagedPrime
<1>5. streaming_generate.prime = GroupedPrime
  BY DEF streaming_generate, Script, GroupedPrime
<1>6. cache_block.prime = CachePrime
  BY DEF cache_block, Script, CachePrime
<1>7. /\ kv_offload.prime = OffloadPrime
      /\ pager_integration.prime = TracePrime
  BY DEF kv_offload, pager_integration, Script, OffloadPrime, TracePrime
<1> QED
  BY <1>1, <1>2, <1>3, <1>4, <1>5, <1>6, <1>7, ConcatenatedPrimes

LEMMA PrimesDiffer ==
  /\ RoundTripPrime \notin {LogitsPrime, GenerationPrime,
       CachePrime}
  /\ CachePrime \notin
       {LogitsPrime, GenerationPrime}
  /\ \A p \in {RoundTripPrime, LogitsPrime, GenerationPrime,
              CachePrime} :
       p \notin {GreedyPrime, BaselinePrime,
                OffloadPrime, TracePrime,
                PagedPrime, GroupedPrime}
<1>1. /\ RoundTripPrime # LogitsPrime /\ RoundTripPrime # GenerationPrime
      /\ RoundTripPrime # CachePrime
      /\ LogitsPrime # CachePrime
      /\ GenerationPrime # CachePrime
  BY DEF PolicyPrime, GreedyPrime, BaselinePrime, PagedPrime,
       GroupedPrime,
   RoundTripPrime, LogitsPrime, GenerationPrime, CachePrime, OffloadPrime,
   TracePrime
<1>2. /\ RoundTripPrime[1] = "prefill_all" /\ LogitsPrime[1] = "prefill_all"
      /\ GenerationPrime[1] = "prefill_all"
  BY DEF PolicyPrime, GreedyPrime, BaselinePrime, PagedPrime,
       GroupedPrime,
   RoundTripPrime, LogitsPrime, GenerationPrime, CachePrime, OffloadPrime,
   TracePrime
<1>3. /\ GreedyPrime[1] = "prefill" /\ BaselinePrime[1] = "chunked_prefill"
      /\ OffloadPrime[1] = "dummy_blocks" /\ TracePrime[1] = "dummy_blocks"
      /\ PagedPrime[1] = "prefill" /\ GroupedPrime[1] = "chunked_prefill"
      /\ CachePrime[1] = "prefill_all"
  BY DEF GreedyPrime, BaselinePrime, PagedPrime, GroupedPrime, CachePrime,
     OffloadPrime, TracePrime
<1> QED
  BY <1>1, <1>2, <1>3

\* The scripts that are not PagedModel's.
LEMMA BenchScripts ==
  ASSUME NEW s \in Scripts, s \notin PagedModelScripts
  PROVE  s \in {greedy_baseline_generate, baseline_generate, run_policy,
               vram_savings_proof, paged_generate, streaming_generate,
               kv_roundtrip, logits_roundtrip, generation_roundtrip,
               cache_block, kv_offload, pager_integration}
BY DEF Scripts, persistent_cpu_paging_loop, persistent_cpu_paging_stress,
       paged_generation_loop

\* The statements a script starts with tell of which class it is.
LEMMA ClassOf ==
  ASSUME NEW s
  PROVE  /\ RoundTrips(s) => s.prime \in {RoundTripPrime, LogitsPrime,
              GenerationPrime, CachePrime}
         /\ ReFeeds(s) => s.prime \in {LogitsPrime, GenerationPrime}
         /\ Resident(s) => s.prime \in {GreedyPrime,
                                       BaselinePrime}
         /\ Dummies(s) => s.prime \in {OffloadPrime,
                                      TracePrime}
         /\ s = paged_generate => s.prime = PagedPrime
         /\ s = kv_roundtrip => s.prime = RoundTripPrime
         /\ s = streaming_generate =>
              s.prime = GroupedPrime
BY PrimesOf DEF RoundTrips, ReFeeds, Resident, Dummies

LEMMA ScriptTable == ASSUME NEW s \in Scripts PROVE Table(s)
<1>1. CASE s \in PagedModelScripts \/ s = vram_savings_proof
  <2>1. s.prime = _start_session /\ s.body \in {_forward_step, _forward_step_streaming}
    <3>1. CASE s \in PagedModelScripts
      <4>1. PICK scored \in BOOLEAN, body \in {_forward_step, _forward_step_streaming} :
              s = Script(FALSE, scored, _start_session, body)
        BY <3>1 DEF PagedModelScripts, Script, _start_session, _forward_step,
           _forward_step_streaming
      <4> QED
        BY <4>1 DEF Script, _start_session, _forward_step, _forward_step_streaming
    <3>2. CASE s = vram_savings_proof
      BY <3>2 DEF vram_savings_proof, Script, _start_session, _forward_step,
         _forward_step_streaming
    <3> QED
      BY <1>1, <3>1, <3>2
  <2> QED
    BY <2>1, ClassOf DEF Table, _start_session, PolicyPrime, GreedyPrime, BaselinePrime, PagedPrime,
       GroupedPrime,
   RoundTripPrime, LogitsPrime, GenerationPrime, CachePrime, OffloadPrime,
   TracePrime
<1>2. CASE s = run_policy
  <2>1. s.prime = PolicyPrime /\ s.body = _forward_step /\ s.bench
    BY <1>2 DEF run_policy, Script, PolicyPrime
  <2> QED
    BY <2>1, ClassOf DEF Table, PolicyPrime, GreedyPrime, BaselinePrime, PagedPrime,
       GroupedPrime,
   RoundTripPrime, LogitsPrime, GenerationPrime, CachePrime, OffloadPrime,
   TracePrime
<1>3. CASE Resident(s)
  <2>1. s.prime \in {GreedyPrime, BaselinePrime}
    BY <1>3, PrimesOf DEF Resident
  <2>2. s.body = ResidentBody /\ s.bench
    BY <1>3 DEF Resident, greedy_baseline_generate, baseline_generate, Script,
       ResidentBody
  <2>3. s.prime \notin {PagedPrime, GroupedPrime, OffloadPrime, TracePrime}
    BY <2>1 DEF GreedyPrime, BaselinePrime, PagedPrime,
       GroupedPrime,
       OffloadPrime, TracePrime
  <2> QED
    BY <1>3, <2>1, <2>2, <2>3, ClassOf, PrimesDiffer DEF Table
<1>4. CASE s = paged_generate
  <2>1. s.prime = PagedPrime /\ s.body = PagedBody /\ s.bench
    BY <1>4 DEF paged_generate, Script, PagedBody, PagedPrime
  <2> QED
    BY <1>4, <2>1, ClassOf DEF Table, PolicyPrime, GreedyPrime, BaselinePrime, PagedPrime,
       GroupedPrime,
   RoundTripPrime, LogitsPrime, GenerationPrime, CachePrime, OffloadPrime,
   TracePrime
<1>5. CASE s = streaming_generate
  <2>1. /\ s.prime = GroupedPrime
        /\ s.body = GroupedBody /\ s.bench
    BY <1>5 DEF streaming_generate, Script, GroupedBody, GroupedPrime
  <2> QED
    BY <1>5, <2>1, ClassOf DEF Table, PolicyPrime, GreedyPrime, BaselinePrime, PagedPrime,
       GroupedPrime,
   RoundTripPrime, LogitsPrime, GenerationPrime, CachePrime, OffloadPrime,
   TracePrime
<1>6. CASE s = kv_roundtrip
  <2>1. s.prime = RoundTripPrime /\ s.body = <<>> /\ s.bench
    BY <1>6, PrimesOf DEF kv_roundtrip, Script
  <2>2. RoundTrips(s)
    BY <1>6 DEF RoundTrips
  <2> QED
    BY <1>6, <2>1, <2>2, ClassOf, PrimesDiffer DEF Table
<1>7. CASE ReFeeds(s)
  <2>1. s.prime \in {LogitsPrime, GenerationPrime}
    BY <1>7, PrimesOf DEF ReFeeds
  <2>2. s.body = ResidentBody /\ s.bench
    BY <1>7 DEF ReFeeds, logits_roundtrip, generation_roundtrip, Script,
       ResidentBody
  <2>3. RoundTrips(s)
    BY <1>7 DEF RoundTrips, ReFeeds
  <2> QED
    BY <1>7, <2>1, <2>2, <2>3, ClassOf, PrimesDiffer DEF Table
<1>8. CASE s = cache_block
  <2>1. /\ s.prime = CachePrime
        /\ s.body = <<>> /\ s.bench
    BY <1>8 DEF cache_block, Script, CachePrime
  <2>2. RoundTrips(s)
    BY <1>8 DEF RoundTrips
  <2> QED
    BY <1>8, <2>1, <2>2, ClassOf, PrimesDiffer DEF Table
<1>9. CASE Dummies(s)
  BY <1>9 DEF Dummies, Table, kv_offload, pager_integration, Script, OffloadPrime,
     TracePrime, TraceBody
<1> QED
  BY <1>1, <1>2, <1>3, <1>4, <1>5, <1>6, <1>7, <1>8, <1>9, BenchScripts
     DEF Resident, ReFeeds, Dummies

-----------------------------------------------------------------------------
(* Numbers and segments of the text *)

LEMMA TIsPositive == T \in Nat /\ T > 0
BY GenerationAssumption DEF T

LEMMA DivMod ==
  ASSUME NEW a \in Nat
  PROVE  /\ a \div T \in Nat /\ a % T \in 0 .. T - 1
         /\ a = (a \div T) * T + (a % T)
BY TIsPositive

LEMMA DivModOf ==
  ASSUME NEW q \in Nat, NEW r \in 0 .. T - 1
  PROVE  (q * T + r) \div T = q /\ (q * T + r) % T = r
BY TIsPositive

LEMMA Products ==
  ASSUME NEW p \in Nat, NEW q \in Nat
  PROVE  /\ p * T \in Nat /\ (p + q) * T = p * T + q * T
         /\ (p + 1) * T = p * T + T
         /\ p <= q => p * T <= q * T
         /\ p * T < q * T => p < q
BY TIsPositive

\* The KV entries of the tokens o + 1 .. o + n, and those of block b.
Segment(o, n) == [i \in 1 .. n |-> o + i]
Block(b) == Segment(b * T, T)

LEMMA SegmentProperties ==
  ASSUME NEW o \in Nat, NEW n \in Nat
  PROVE  /\ Segment(o, n) \in Seq(Nat) /\ Len(Segment(o, n)) = n
         /\ DOMAIN Segment(o, n) = 1 .. n
         /\ \A i \in 1 .. n : Segment(o, n)[i] = o + i
         /\ Segment(0, n) = Upto(n)
BY DEF Segment, Upto

LEMMA IsSegment ==
  ASSUME NEW s \in Seq(Nat), NEW o \in Nat, NEW n \in Nat, Len(s) = n,
         \A i \in 1 .. n : s[i] = o + i
  PROVE  s = Segment(o, n)
<1>1. /\ Segment(o, n) \in Seq(Nat) /\ Len(s) = Len(Segment(o, n))
      /\ \A i \in 1 .. Len(s) : s[i] = Segment(o, n)[i]
  BY SegmentProperties
<1> QED
  BY ONLY <1>1, s \in Seq(Nat), SeqEqual

\* SubSeq under a name that the provers leave folded.
Part(s, a, b) == SubSeq(s, a, b)

LEMMA SubSegment ==
  ASSUME NEW o \in Nat, NEW n \in Nat, NEW a \in Nat, NEW b \in Nat,
         a <= b, b <= n
  PROVE  Part(Segment(o, n), a + 1, b) = Segment(o + a, b - a)
<1> DEFINE s == Segment(o, n)
           t == SubSeq(s, a + 1, b)
<1>1. \A i \in a + 1 .. b : s[i] \in Nat
  <2>1. \A i \in 1 .. n : s[i] = o + i
    BY SegmentProperties
  <2> HIDE DEF s
  <2> QED
    BY <2>1
<1> HIDE DEF s
<1>2. /\ t \in Seq(Nat)
      /\ Len(t) = IF a + 1 <= b THEN b - (a + 1) + 1 ELSE 0
      /\ \A i \in 1 .. b - (a + 1) + 1 : t[i] = s[a + 1 + i - 1]
  BY <1>1, SubSeqProperties
<1> HIDE DEF t
<1>3. Len(t) = b - a /\ b - a \in Nat /\ o + a \in Nat
  BY <1>2
<1>4. ASSUME NEW i \in 1 .. b - a PROVE t[i] = (o + a) + i
  <2>1. t[i] = s[a + i] /\ a + i \in 1 .. n
    BY <1>2
  <2> QED
    BY <2>1, SegmentProperties DEF s
<1>5. t = Segment(o + a, b - a)
  BY <1>2, <1>3, <1>4, IsSegment
<1> QED
  BY <1>5 DEF s, t, Part

\* The same from position a on.
LEMMA SubSegmentFrom ==
  ASSUME NEW o \in Nat, NEW n \in Nat, NEW a \in Nat \ {0}, NEW b \in Nat,
         a <= b + 1, b <= n
  PROVE  Part(Segment(o, n), a, b) = Segment(o + a - 1, b - a + 1)
<1>1. PICK c \in Nat : a = c + 1
  <2>1. a - 1 \in Nat /\ a = (a - 1) + 1
    OBVIOUS
  <2> QED
    BY <2>1
<1>2. Part(Segment(o, n), c + 1, b) = Segment(o + c, b - c)
  <2>1. c <= b
    BY <1>1
  <2> QED
    BY <2>1, SubSegment
<1>3. o + a - 1 = o + c /\ b - a + 1 = b - c
  BY <1>1
<1> QED
  BY ONLY <1>1, <1>2, <1>3

LEMMA ConcatSegments ==
  ASSUME NEW o \in Nat, NEW m \in Nat, NEW n \in Nat
  PROVE  Segment(o, m) \o Segment(o + m, n) = Segment(o, m + n)
<1> DEFINE s == Segment(o, m)
           t == Segment(o + m, n)
           u == Segment(o, m + n)
<1>1. o + m \in Nat /\ m + n \in Nat
  OBVIOUS
<1>2. s \in Seq(Nat) /\ Len(s) = m /\ \A i \in 1 .. m : s[i] = o + i
  BY SegmentProperties
<1>3. t \in Seq(Nat) /\ Len(t) = n /\ \A i \in 1 .. n : t[i] = o + m + i
  BY <1>1, SegmentProperties
<1>4. /\ u \in Seq(Nat) /\ Len(u) = m + n
      /\ \A i \in 1 .. m + n : u[i] = o + i
  BY <1>1, SegmentProperties
<1> HIDE DEF s, t, u
<1>5. /\ Len(u) = Len(s) + Len(t)
      /\ \A i \in 1 .. Len(s) : u[i] = s[i]
      /\ \A i \in 1 .. Len(t) : u[Len(s) + i] = t[i]
  BY <1>2, <1>3, <1>4
<1>6. s \o t = u
  BY ONLY <1>2, <1>3, <1>4, <1>5, ConcatIs
<1> QED
  BY <1>6 DEF s, t, u

LEMMA AppendSegment ==
  ASSUME NEW o \in Nat, NEW n \in Nat
  PROVE  Append(Segment(o, n), o + n + 1) = Segment(o, n + 1)
<1> DEFINE s == Segment(o, n)
           t == Append(s, o + n + 1)
<1>1. s \in Seq(Nat) /\ Len(s) = n /\ \A i \in 1 .. n : s[i] = o + i
  BY SegmentProperties
<1> HIDE DEF s
<1>2. /\ t \in Seq(Nat) /\ Len(t) = n + 1
      /\ \A i \in 1 .. n : t[i] = s[i]
      /\ t[n + 1] = o + n + 1
  BY <1>1, AppendProperties
<1>3. \A i \in 1 .. n + 1 : t[i] = o + i
  BY <1>1, <1>2
<1> HIDE DEF t
<1>4. t = Segment(o, n + 1)
  BY <1>2, <1>3, IsSegment
<1> QED
  BY <1>4 DEF s, t

\* kv_utils on a cache that holds a segment of the text from the start of a
\* block on: the full blocks and the tail.
LEMMA SplitOf ==
  ASSUME NEW q \in Nat, NEW n \in Nat
  PROVE  LET kv == split_full_blocks_and_tail(Segment(q * T, n)) IN
         /\ kv.full = Segment(q * T, (n \div T) * T)
         /\ kv.tail = Segment((q + n \div T) * T, n % T)
<1> DEFINE full == (n \div T) * T
           o == q * T
<1>1. /\ n \div T \in Nat /\ n % T \in Nat
      /\ n = full + (n % T) /\ full \in Nat /\ o \in Nat
      /\ (q + n \div T) * T = o + full
  BY DivMod, Products, TIsPositive
<1>2. Len(Segment(o, n)) = n
  BY <1>1, SegmentProperties
<1>3. split_full_blocks_and_tail(Segment(o, n)) =
        [full |-> Part(Segment(o, n), 1, full),
         tail |-> Part(Segment(o, n), full + 1, n)]
  BY <1>2 DEF split_full_blocks_and_tail, T, Part
<1> HIDE DEF full, o
<1>4. Part(Segment(o, n), 1, full) = Segment(o, full)
  <2>1. 1 <= full + 1 /\ full <= n /\ o + 1 - 1 = o /\ full - 1 + 1 = full
    BY <1>1
  <2>2. Part(Segment(o, n), 1, full) = Segment(o + 1 - 1, full - 1 + 1)
    BY <1>1, <2>1, SubSegmentFrom
  <2> QED
    BY ONLY <2>1, <2>2
<1>5. Part(Segment(o, n), full + 1, n) = Segment(o + full, n - full)
  <2>1. /\ full + 1 \in Nat \ {0} /\ full + 1 <= n + 1
        /\ o + (full + 1) - 1 = o + full /\ n - (full + 1) + 1 = n - full
    BY <1>1
  <2>2. Part(Segment(o, n), full + 1, n) =
          Segment(o + (full + 1) - 1, n - (full + 1) + 1)
    BY <1>1, <2>1, SubSegmentFrom
  <2> QED
    BY ONLY <2>1, <2>2
<1>6. n - full = n % T
  BY <1>1
<1>7. PICK f : f = Part(Segment(o, n), 1, full)
  OBVIOUS
<1>8. PICK l : l = Part(Segment(o, n), full + 1, n)
  OBVIOUS
<1>9. /\ split_full_blocks_and_tail(Segment(o, n)).full = f
      /\ split_full_blocks_and_tail(Segment(o, n)).tail = l
  BY <1>3, <1>7, <1>8
<1>10. /\ f = Segment(q * T, (n \div T) * T)
       /\ l = Segment((q + n \div T) * T, n % T)
  BY <1>1, <1>4, <1>5, <1>6, <1>7, <1>8 DEF full, o
<1> QED
  BY <1>9, <1>10 DEF o

LEMMA ExtractOf ==
  ASSUME NEW q \in Nat, NEW m \in Nat, NEW b \in 0 .. m - 1
  PROVE  extract_single_block_from_past(Segment(q * T, m * T), b) = Block(q + b)
<1> DEFINE o == q * T
           a == b * T
           n == m * T
<1>1. /\ o \in Nat /\ a \in Nat /\ n \in Nat /\ (b + 1) * T = a + T
      /\ (q + b) * T = o + a
  BY Products, b \in Nat
<1>2. a + T <= n
  BY <1>1, Products, b + 1 \in Nat, b + 1 <= m
<1> HIDE DEF o, a, n
<1>3. Part(Segment(o, n), a + 1, a + T) = Segment(o + a, T)
  <2>1. PICK f, l : f = a + 1 /\ l = a + T
    OBVIOUS
  <2>2. /\ f \in Nat \ {0} /\ l \in Nat /\ f <= l + 1 /\ l <= n
        /\ o + f - 1 = o + a /\ l - f + 1 = T
    BY <1>1, <1>2, <2>1, TIsPositive
  <2>3. Part(Segment(o, n), f, l) = Segment(o + f - 1, l - f + 1)
    BY <1>1, <2>2, SubSegmentFrom
  <2> QED
    BY ONLY <2>1, <2>2, <2>3
<1>4. Part(Segment(o, n), b * T + 1, (b + 1) * T) = Block(q + b)
  BY <1>1, <1>3 DEF a, Block, o
<1> QED
  BY <1>4 DEF o, n, extract_single_block_from_past, T, Part

LEMMA BlocksOf ==
  ASSUME NEW q \in Nat, NEW m \in Nat
  PROVE  real_past_to_blocks(Segment(q * T, m * T)) =
           [i \in 1 .. m |-> Block(q + i - 1)]
<1>1. m * T \in Nat /\ q * T \in Nat
  BY Products
<1>2. (m * T) \div T = m
  <2>1. 0 \in 0 .. T - 1 /\ m * T + 0 = m * T
    BY <1>1, TIsPositive
  <2> QED
    BY <2>1, DivModOf
<1>3. Len(Segment(q * T, m * T)) = m * T
  BY <1>1, SegmentProperties
<1>4. ASSUME NEW i \in 1 .. m
      PROVE  extract_single_block_from_past(Segment(q * T, m * T), i - 1)
               = Block(q + i - 1)
  <2>1. i - 1 \in 0 .. m - 1 /\ q + (i - 1) = q + i - 1
    OBVIOUS
  <2> QED
    BY <2>1, ExtractOf
<1> QED
  BY <1>2, <1>3, <1>4 DEF real_past_to_blocks, T

\* The blocks of a store with the right contents hold the text up to their end.
LEMMA StoredText ==
  ASSUME next \in Nat, \A b \in Registered : content[b] = Block(b)
  PROVE  StoredBlocks = Segment(0, next * T)
<1> DEFINE n == next * T
<1>1. n \in Nat
  BY Products
<1>2. StoredBlocks =
        [i \in 1 .. n |-> content[(i - 1) \div T][1 + ((i - 1) % T)]]
  BY DEF StoredBlocks, T
<1>3. ASSUME NEW i \in 1 .. n
      PROVE  content[(i - 1) \div T][1 + ((i - 1) % T)] = i
  <2>1. PICK q \in Nat, r \in 0 .. T - 1 :
          q = (i - 1) \div T /\ r = (i - 1) % T /\ i - 1 = q * T + r
    BY <1>1, DivMod, i - 1 \in Nat
  <2>2. q * T \in Nat /\ q * T < next * T
    BY <1>1, <2>1, Products, TIsPositive
  <2>3. q \in Registered
    BY <2>2, Products DEF Registered
  <2>4. content[q] = Segment(q * T, T)
    BY <2>3 DEF Block
  <2>5. 1 + r \in 1 .. T
    BY TIsPositive
  <2>6. content[q][1 + r] = q * T + (1 + r)
    BY <2>2, <2>4, <2>5, SegmentProperties, TIsPositive
  <2> QED
    BY <2>1, <2>2, <2>6
<1> HIDE DEF n
<1>4. StoredBlocks = [i \in 1 .. n |-> i]
  BY <1>2, <1>3
<1>5. Segment(0, n) = [i \in 1 .. n |-> i]
  BY <1>1, SegmentProperties DEF Upto
<1> QED
  BY <1>4, <1>5 DEF n

\* One token after the right context.
LEMMA EncodeNext ==
  ASSUME NEW n \in Nat
  PROVE  /\ Encode(Segment(0, n), n + 1) = n + 1
         /\ Predict(Segment(0, n), n + 1) = n + 2
<1>1. n + 1 - 1 = n /\ n + 1 > 0 /\ n + 1 + 1 = n + 2
  OBVIOUS
<1>2. Segment(0, n) = Upto(n)
  BY SegmentProperties
<1>3. Encode(Segment(0, n), n + 1) = n + 1
  BY <1>1, <1>2 DEF Encode
<1> QED
  BY <1>1, <1>3 DEF Predict

\* The number of blocks a text of n tokens fills, and what one token more adds.
LEMMA NextBlock ==
  ASSUME NEW n \in Nat, NEW q \in Nat, NEW r \in 0 .. T - 1, n = q * T + r
  PROVE  /\ n \div T = q /\ n % T = r
         /\ (n + 1) \div T - q \in {0, 1}
<1>1. n \div T = q /\ n % T = r
  BY DivModOf
<1>2. CASE r + 1 < T
  <2>1. n + 1 = q * T + (r + 1) /\ r + 1 \in 0 .. T - 1 /\ q * T \in Nat
    BY <1>2, Products, TIsPositive
  <2>2. (n + 1) \div T = q
    BY <2>1, DivModOf
  <2> QED
    BY <1>1, <2>2
<1>3. CASE r + 1 = T
  <2>1. n + 1 = (q + 1) * T + 0 /\ 0 \in 0 .. T - 1 /\ q + 1 \in Nat
    BY <1>3, Products, TIsPositive
  <2>2. (n + 1) \div T = q + 1
    BY <2>1, DivModOf
  <2> QED
    BY <1>1, <2>2
<1> QED
  BY <1>2, <1>3, TIsPositive

-----------------------------------------------------------------------------
(* How far a script can be *)

Statements ==
  {"chunked_prefill", "prefill", "prefill_all", "build", "rebuild",
   "dummy_blocks", "reload", "reconstruct", "reconstruct_blocks", "stream",
   "keep_past", "refeed", "forward", "append", "append_grown", "on_step",
   "trace_step", "force", "apply", "keep_recent", "offload", "prefetch"}

\* What is left of a sequence of statements before its k-th one.
Before(p, k) == SubSeq(p, k, Len(p))
Among(p, k, x) == \E j \in k .. Len(p) : p[j] = x

\* A script is somewhere in the statements it starts with, or in a round.
Control ==
  \E p \in {run.script.prime, run.script.body} :
    \E k \in 1 .. Len(p) + 1 : rest = Before(p, k)

\* Some statement of this name is left.
Left(x) == \E i \in DOMAIN rest : rest[i] = x

LEMMA StatementsOf ==
  ASSUME NEW s \in Scripts
  PROVE  s.prime \in Seq(Statements) /\ s.body \in Seq(Statements)
<1>1. /\ _start_session \in Seq(Statements)
      /\ _forward_step \in Seq(Statements)
      /\ _forward_step_streaming \in Seq(Statements)
  BY DEF Statements, _start_session, _forward_step, _forward_step_streaming
<1>2. /\ RoundTripPrime \in Seq(Statements) /\ LogitsPrime \in Seq(Statements)
      /\ GenerationPrime \in Seq(Statements)
  BY DEF Statements, PolicyPrime, GreedyPrime, BaselinePrime, PagedPrime,
       GroupedPrime,
   RoundTripPrime, LogitsPrime, GenerationPrime, CachePrime, OffloadPrime,
   TracePrime
<1>3. /\ PagedBody \in Seq(Statements) /\ GroupedBody \in Seq(Statements)
      /\ ResidentBody \in Seq(Statements) /\ <<>> \in Seq(Statements)
  BY DEF Statements, PagedBody, GroupedBody, ResidentBody
<1>4. /\ PolicyPrime \in Seq(Statements)
      /\ GreedyPrime \in Seq(Statements)
      /\ BaselinePrime \in Seq(Statements)
      /\ PagedPrime \in Seq(Statements)
      /\ GroupedPrime \in Seq(Statements)
      /\ CachePrime \in Seq(Statements)
      /\ OffloadPrime \in Seq(Statements)
      /\ TracePrime \in Seq(Statements)
      /\ TraceBody \in Seq(Statements)
  BY DEF Statements, PolicyPrime, GreedyPrime, BaselinePrime, PagedPrime,
     GroupedPrime, CachePrime, OffloadPrime, TracePrime, TraceBody
<1>5. Table(s)
  BY ScriptTable
<1> QED
  BY <1>1, <1>2, <1>3, <1>4, <1>5 DEF Table

LEMMA BeforeProperties ==
  ASSUME NEW p \in Seq(Statements), NEW k \in 1 .. Len(p) + 1
  PROVE  /\ Before(p, k) \in Seq(Statements)
         /\ Before(p, k) = <<>> <=> k = Len(p) + 1
         /\ \A x : (\E i \in DOMAIN Before(p, k) : Before(p, k)[i] = x)
                     <=> Among(p, k, x)
         /\ k <= Len(p) => /\ Head(Before(p, k)) = p[k]
                           /\ Tail(Before(p, k)) = Before(p, k + 1)
<1> DEFINE n == Len(p)
           t == Before(p, k)
<1>1. n \in Nat /\ k \in Int /\ n \in Int
  OBVIOUS
<1>2. \A i \in k .. n : p[i] \in Statements
  BY <1>1, ElementOfSeq
<1>3. /\ t \in Seq(Statements)
      /\ Len(t) = IF k <= n THEN n - k + 1 ELSE 0
      /\ \A i \in 1 .. n - k + 1 : t[i] = p[k + i - 1]
  BY <1>1, <1>2, SubSeqProperties DEF Before
<1>4. DOMAIN t = 1 .. n - k + 1
  BY <1>1, <1>3, LenProperties
<1>5. t = <<>> <=> k = n + 1
  <2>1. t = <<>> <=> Len(t) = 0
    BY <1>3, EmptySeq
  <2> QED
    BY <1>1, <1>3, <2>1
<1>6. ASSUME NEW x PROVE (\E i \in DOMAIN t : t[i] = x) <=> Among(p, k, x)
  <2>1. ASSUME NEW i \in DOMAIN t, t[i] = x PROVE Among(p, k, x)
    <3>1. k + i - 1 \in k .. n /\ p[k + i - 1] = x
      BY <1>1, <1>3, <1>4, <2>1
    <3> QED
      BY <3>1 DEF Among
  <2>2. ASSUME NEW j \in k .. n, p[j] = x PROVE \E i \in DOMAIN t : t[i] = x
    <3>1. j - k + 1 \in 1 .. n - k + 1 /\ k + (j - k + 1) - 1 = j
      BY <1>1
    <3>2. t[j - k + 1] = p[j]
      BY <1>3, <3>1
    <3> QED
      BY <1>4, <2>2, <3>1, <3>2
  <2> QED
    BY <2>1, <2>2 DEF Among
<1>7. ASSUME k <= n PROVE Head(t) = p[k] /\ Tail(t) = Before(p, k + 1)
  <2>1. k \in 1 .. n /\ n \in k .. n
    BY <1>1, <1>7
  <2> QED
    BY <2>1, HeadTailOfSubSeq DEF Before
<1> HIDE DEF t, n
<1> QED
  BY <1>3, <1>5, <1>6, <1>7 DEF t, n

\* Where a script is that is about to execute statement x.
Located(p, k, x) ==
  /\ p \in {run.script.prime, run.script.body} /\ k \in 1 .. Len(p)
  /\ p[k] = x
  /\ \A y : Left(y) <=> Among(p, k, y)
  /\ rest' = Tail(rest) => /\ \A y : Left(y)' <=> Among(p, k + 1, y)
                           /\ (rest = <<>>)' <=> k = Len(p)

LEMMA Locate ==
  ASSUME run.script \in Scripts, Control, NEW x, At(x)
  PROVE  \E p, k : Located(p, k, x)
<1>1. PICK p, k : /\ p \in {run.script.prime, run.script.body}
                  /\ k \in 1 .. Len(p) + 1 /\ rest = Before(p, k)
  BY DEF Control
<1>2. p \in Seq(Statements)
  BY <1>1, StatementsOf
<1>3. rest # <<>> /\ Head(rest) = x /\ Len(p) \in Nat
  BY <1>2 DEF At
<1>4. k # Len(p) + 1 /\ k \in 1 .. Len(p) /\ k + 1 \in 1 .. Len(p) + 1
  BY <1>1, <1>2, <1>3, BeforeProperties
<1>5. p[k] = x /\ Tail(rest) = Before(p, k + 1)
  BY <1>1, <1>2, <1>3, <1>4, BeforeProperties
<1>6. \A y : Left(y) <=> Among(p, k, y)
  BY <1>1, <1>2, BeforeProperties DEF Left
<1>7. ASSUME rest' = Tail(rest)
      PROVE  /\ \A y : Left(y)' <=> Among(p, k + 1, y)
             /\ (rest = <<>>)' <=> k = Len(p)
  <2>1. rest' = Before(p, k + 1)
    BY <1>5, <1>7
  <2>2. \A y : Left(y)' <=> Among(p, k + 1, y)
    BY <1>2, <1>4, <2>1, BeforeProperties DEF Left
  <2>3. rest' = <<>> <=> k + 1 = Len(p) + 1
    BY <1>2, <1>4, <2>1, BeforeProperties
  <2>4. k + 1 = Len(p) + 1 <=> k = Len(p)
    BY <1>3, <1>4
  <2>5. (rest = <<>>)' <=> k = Len(p)
    BY <2>3, <2>4
  <2> QED
    BY ONLY <2>2, <2>5
<1> QED
  BY <1>1, <1>4, <1>5, <1>6, <1>7 DEF Located

-----------------------------------------------------------------------------
(* The statements of each sequence, and which are left from its k-th on *)

LEMMA StatementTable ==
  /\ Len(_start_session) = 2 /\ _start_session[1] = "chunked_prefill"
     /\ _start_session[2] = "build"
  /\ Len(PolicyPrime) = 2 /\ PolicyPrime[1] = "prefill"
     /\ PolicyPrime[2] = "build"
  /\ Len(GreedyPrime) = 2 /\ GreedyPrime[1] = "prefill"
     /\ GreedyPrime[2] = "keep_past"
  /\ Len(BaselinePrime) = 2 /\ BaselinePrime[1] = "chunked_prefill"
     /\ BaselinePrime[2] = "keep_past"
  /\ Len(PagedPrime) = 1 /\ PagedPrime[1] = "prefill"
  /\ Len(GroupedPrime) = 3 /\ GroupedPrime[1] = "chunked_prefill"
     /\ GroupedPrime[2] = "build" /\ GroupedPrime[3] = "keep_recent"
  /\ Len(RoundTripPrime) = 6 /\ RoundTripPrime[1] = "prefill_all"
     /\ RoundTripPrime[2] = "build" /\ RoundTripPrime[3] = "on_step"
     /\ RoundTripPrime[4] = "apply" /\ RoundTripPrime[5] = "reload"
     /\ RoundTripPrime[6] = "reconstruct_blocks"
  /\ Len(LogitsPrime) = 7 /\ LogitsPrime[1] = "prefill_all"
     /\ LogitsPrime[2] = "build" /\ LogitsPrime[3] = "on_step"
     /\ LogitsPrime[4] = "apply" /\ LogitsPrime[5] = "reload"
     /\ LogitsPrime[6] = "reconstruct_blocks" /\ LogitsPrime[7] = "refeed"
  /\ Len(GenerationPrime) = 7 /\ GenerationPrime[1] = "prefill_all"
     /\ GenerationPrime[2] = "build" /\ GenerationPrime[3] = "refeed"
     /\ GenerationPrime[4] = "on_step" /\ GenerationPrime[5] = "apply"
     /\ GenerationPrime[6] = "reload"
     /\ GenerationPrime[7] = "reconstruct_blocks"
  /\ Len(CachePrime) = 4 /\ CachePrime[1] = "prefill_all"
     /\ CachePrime[2] = "build" /\ CachePrime[3] = "on_step"
     /\ CachePrime[4] = "apply"
  /\ Len(OffloadPrime) = 3 /\ OffloadPrime[1] = "dummy_blocks"
     /\ OffloadPrime[2] = "offload" /\ OffloadPrime[3] = "prefetch"
  /\ Len(TracePrime) = 1 /\ TracePrime[1] = "dummy_blocks"
  /\ Len(_forward_step) = 7 /\ _forward_step[1] = "reload"
     /\ _forward_step[2] = "reconstruct" /\ _forward_step[3] = "forward"
     /\ _forward_step[4] = "append" /\ _forward_step[5] = "on_step"
     /\ _forward_step[6] = "force" /\ _forward_step[7] = "apply"
  /\ Len(_forward_step_streaming) = 6
     /\ _forward_step_streaming[1] = "stream"
     /\ _forward_step_streaming[2] = "forward"
     /\ _forward_step_streaming[3] = "append_grown"
     /\ _forward_step_streaming[4] = "on_step"
     /\ _forward_step_streaming[5] = "force"
     /\ _forward_step_streaming[6] = "apply"
  /\ Len(ResidentBody) = 2 /\ ResidentBody[1] = "forward"
     /\ ResidentBody[2] = "keep_past"
  /\ Len(PagedBody) = 6 /\ PagedBody[1] = "rebuild"
     /\ PagedBody[2] = "on_step" /\ PagedBody[3] = "apply"
     /\ PagedBody[4] = "reload" /\ PagedBody[5] = "reconstruct"
     /\ PagedBody[6] = "forward"
  /\ Len(GroupedBody) = 5 /\ GroupedBody[1] = "reload"
     /\ GroupedBody[2] = "stream" /\ GroupedBody[3] = "forward"
     /\ GroupedBody[4] = "append_grown" /\ GroupedBody[5] = "keep_recent"
  /\ Len(TraceBody) = 2 /\ TraceBody[1] = "trace_step"
     /\ TraceBody[2] = "apply"
BY DEF _start_session, PolicyPrime, GreedyPrime, BaselinePrime, PagedPrime,
       GroupedPrime,
   RoundTripPrime, LogitsPrime, GenerationPrime, CachePrime, OffloadPrime, TracePrime,
   _forward_step, _forward_step_streaming, ResidentBody, PagedBody, GroupedBody, TraceBody

\* Which statements are left from the k-th on.
LEMMA LeftOf ==
  ASSUME NEW k \in Nat \ {0}, NEW y
  PROVE
  /\ Among(_start_session, k, y) <=> (k <= 1 /\ y = "chunked_prefill") \/
         (k <= 2 /\ y = "build")
  /\ Among(PolicyPrime, k, y) <=> (k <= 1 /\ y = "prefill") \/
         (k <= 2 /\ y = "build")
  /\ Among(GreedyPrime, k, y) <=> (k <= 1 /\ y = "prefill") \/
         (k <= 2 /\ y = "keep_past")
  /\ Among(BaselinePrime, k, y) <=> (k <= 1 /\ y = "chunked_prefill") \/
         (k <= 2 /\ y = "keep_past")
  /\ Among(PagedPrime, k, y) <=> (k <= 1 /\ y = "prefill")
  /\ Among(GroupedPrime, k, y) <=> (k <= 1 /\ y = "chunked_prefill") \/
         (k <= 2 /\ y = "build") \/ (k <= 3 /\ y = "keep_recent")
  /\ Among(RoundTripPrime, k, y) <=> (k <= 1 /\ y = "prefill_all") \/
         (k <= 2 /\ y = "build") \/ (k <= 3 /\ y = "on_step") \/
         (k <= 4 /\ y = "apply") \/ (k <= 5 /\ y = "reload") \/
         (k <= 6 /\ y = "reconstruct_blocks")
  /\ Among(LogitsPrime, k, y) <=> (k <= 1 /\ y = "prefill_all") \/
         (k <= 2 /\ y = "build") \/ (k <= 3 /\ y = "on_step") \/
         (k <= 4 /\ y = "apply") \/ (k <= 5 /\ y = "reload") \/
         (k <= 6 /\ y = "reconstruct_blocks") \/ (k <= 7 /\ y = "refeed")
  /\ Among(GenerationPrime, k, y) <=> (k <= 1 /\ y = "prefill_all") \/
         (k <= 2 /\ y = "build") \/ (k <= 3 /\ y = "refeed") \/
         (k <= 4 /\ y = "on_step") \/ (k <= 5 /\ y = "apply") \/
         (k <= 6 /\ y = "reload") \/ (k <= 7 /\ y = "reconstruct_blocks")
  /\ Among(CachePrime, k, y) <=> (k <= 1 /\ y = "prefill_all") \/
         (k <= 2 /\ y = "build") \/ (k <= 3 /\ y = "on_step") \/
         (k <= 4 /\ y = "apply")
  /\ Among(OffloadPrime, k, y) <=> (k <= 1 /\ y = "dummy_blocks") \/
         (k <= 2 /\ y = "offload") \/ (k <= 3 /\ y = "prefetch")
  /\ Among(TracePrime, k, y) <=> (k <= 1 /\ y = "dummy_blocks")
  /\ Among(_forward_step, k, y) <=> (k <= 1 /\ y = "reload") \/
         (k <= 2 /\ y = "reconstruct") \/ (k <= 3 /\ y = "forward") \/
         (k <= 4 /\ y = "append") \/ (k <= 5 /\ y = "on_step") \/
         (k <= 6 /\ y = "force") \/ (k <= 7 /\ y = "apply")
  /\ Among(_forward_step_streaming, k, y) <=> (k <= 1 /\ y = "stream") \/
         (k <= 2 /\ y = "forward") \/ (k <= 3 /\ y = "append_grown") \/
         (k <= 4 /\ y = "on_step") \/ (k <= 5 /\ y = "force") \/
         (k <= 6 /\ y = "apply")
  /\ Among(ResidentBody, k, y) <=> (k <= 1 /\ y = "forward") \/
         (k <= 2 /\ y = "keep_past")
  /\ Among(PagedBody, k, y) <=> (k <= 1 /\ y = "rebuild") \/
         (k <= 2 /\ y = "on_step") \/ (k <= 3 /\ y = "apply") \/
         (k <= 4 /\ y = "reload") \/ (k <= 5 /\ y = "reconstruct") \/
         (k <= 6 /\ y = "forward")
  /\ Among(GroupedBody, k, y) <=> (k <= 1 /\ y = "reload") \/
         (k <= 2 /\ y = "stream") \/ (k <= 3 /\ y = "forward") \/
         (k <= 4 /\ y = "append_grown") \/ (k <= 5 /\ y = "keep_recent")
  /\ Among(TraceBody, k, y) <=> (k <= 1 /\ y = "trace_step") \/
         (k <= 2 /\ y = "apply")
  /\ ~Among(<<>>, k, y)
<1>1. Among(_start_session, k, y) <=> (k <= 1 /\ y = "chunked_prefill") \/
       (k <= 2 /\ y = "build")
  <2>1. /\ Len(_start_session) = 2 /\ _start_session[1] = "chunked_prefill"
        /\ _start_session[2] = "build"
    BY StatementTable
  <2>2. ASSUME NEW j \in k .. Len(_start_session), _start_session[j] = y
        PROVE  \E i \in 1 .. 2 : k <= i /\ y = _start_session[i]
    BY ONLY <2>1, <2>2, k \in Nat \ {0}
  <2>3. \A i \in 1 .. 2 : k <= i /\ y = _start_session[i] => Among(_start_session, k, y)
    BY ONLY <2>1, k \in Nat \ {0} DEF Among
  <2>4. Among(_start_session, k, y) <=> \E i \in 1 .. 2 : k <= i /\ y = _start_session[i]
    BY <2>2, <2>3 DEF Among
  <2> QED
    BY ONLY <2>1, <2>4, k \in Nat \ {0}
<1>2. Among(PolicyPrime, k, y) <=> (k <= 1 /\ y = "prefill") \/
       (k <= 2 /\ y = "build")
  <2>1. /\ Len(PolicyPrime) = 2 /\ PolicyPrime[1] = "prefill"
        /\ PolicyPrime[2] = "build"
    BY StatementTable
  <2>2. ASSUME NEW j \in k .. Len(PolicyPrime), PolicyPrime[j] = y
        PROVE  \E i \in 1 .. 2 : k <= i /\ y = PolicyPrime[i]
    BY ONLY <2>1, <2>2, k \in Nat \ {0}
  <2>3. \A i \in 1 .. 2 : k <= i /\ y = PolicyPrime[i] => Among(PolicyPrime, k, y)
    BY ONLY <2>1, k \in Nat \ {0} DEF Among
  <2>4. Among(PolicyPrime, k, y) <=> \E i \in 1 .. 2 : k <= i /\ y = PolicyPrime[i]
    BY <2>2, <2>3 DEF Among
  <2> QED
    BY ONLY <2>1, <2>4, k \in Nat \ {0}
<1>3. Among(GreedyPrime, k, y) <=> (k <= 1 /\ y = "prefill") \/
       (k <= 2 /\ y = "keep_past")
  <2>1. /\ Len(GreedyPrime) = 2 /\ GreedyPrime[1] = "prefill"
        /\ GreedyPrime[2] = "keep_past"
    BY StatementTable
  <2>2. ASSUME NEW j \in k .. Len(GreedyPrime), GreedyPrime[j] = y
        PROVE  \E i \in 1 .. 2 : k <= i /\ y = GreedyPrime[i]
    BY ONLY <2>1, <2>2, k \in Nat \ {0}
  <2>3. \A i \in 1 .. 2 : k <= i /\ y = GreedyPrime[i] => Among(GreedyPrime, k, y)
    BY ONLY <2>1, k \in Nat \ {0} DEF Among
  <2>4. Among(GreedyPrime, k, y) <=> \E i \in 1 .. 2 : k <= i /\ y = GreedyPrime[i]
    BY <2>2, <2>3 DEF Among
  <2> QED
    BY ONLY <2>1, <2>4, k \in Nat \ {0}
<1>4. Among(BaselinePrime, k, y) <=> (k <= 1 /\ y = "chunked_prefill") \/
       (k <= 2 /\ y = "keep_past")
  <2>1. /\ Len(BaselinePrime) = 2 /\ BaselinePrime[1] = "chunked_prefill"
        /\ BaselinePrime[2] = "keep_past"
    BY StatementTable
  <2>2. ASSUME NEW j \in k .. Len(BaselinePrime), BaselinePrime[j] = y
        PROVE  \E i \in 1 .. 2 : k <= i /\ y = BaselinePrime[i]
    BY ONLY <2>1, <2>2, k \in Nat \ {0}
  <2>3. \A i \in 1 .. 2 : k <= i /\ y = BaselinePrime[i] => Among(BaselinePrime, k, y)
    BY ONLY <2>1, k \in Nat \ {0} DEF Among
  <2>4. Among(BaselinePrime, k, y) <=> \E i \in 1 .. 2 : k <= i /\ y = BaselinePrime[i]
    BY <2>2, <2>3 DEF Among
  <2> QED
    BY ONLY <2>1, <2>4, k \in Nat \ {0}
<1>5. Among(PagedPrime, k, y) <=> (k <= 1 /\ y = "prefill")
  <2>1. /\ Len(PagedPrime) = 1 /\ PagedPrime[1] = "prefill"
    BY StatementTable
  <2>2. ASSUME NEW j \in k .. Len(PagedPrime), PagedPrime[j] = y
        PROVE  \E i \in 1 .. 1 : k <= i /\ y = PagedPrime[i]
    BY ONLY <2>1, <2>2, k \in Nat \ {0}
  <2>3. \A i \in 1 .. 1 : k <= i /\ y = PagedPrime[i] => Among(PagedPrime, k, y)
    BY ONLY <2>1, k \in Nat \ {0} DEF Among
  <2>4. Among(PagedPrime, k, y) <=> \E i \in 1 .. 1 : k <= i /\ y = PagedPrime[i]
    BY <2>2, <2>3 DEF Among
  <2> QED
    BY ONLY <2>1, <2>4, k \in Nat \ {0}
<1>6. Among(GroupedPrime, k, y) <=> (k <= 1 /\ y = "chunked_prefill") \/
       (k <= 2 /\ y = "build") \/ (k <= 3 /\ y = "keep_recent")
  <2>1. /\ Len(GroupedPrime) = 3 /\ GroupedPrime[1] = "chunked_prefill"
        /\ GroupedPrime[2] = "build" /\ GroupedPrime[3] = "keep_recent"
    BY StatementTable
  <2>2. ASSUME NEW j \in k .. Len(GroupedPrime), GroupedPrime[j] = y
        PROVE  \E i \in 1 .. 3 : k <= i /\ y = GroupedPrime[i]
    BY ONLY <2>1, <2>2, k \in Nat \ {0}
  <2>3. \A i \in 1 .. 3 : k <= i /\ y = GroupedPrime[i] => Among(GroupedPrime, k, y)
    BY ONLY <2>1, k \in Nat \ {0} DEF Among
  <2>4. Among(GroupedPrime, k, y) <=> \E i \in 1 .. 3 : k <= i /\ y = GroupedPrime[i]
    BY <2>2, <2>3 DEF Among
  <2> QED
    BY ONLY <2>1, <2>4, k \in Nat \ {0}
<1>7. Among(RoundTripPrime, k, y) <=> (k <= 1 /\ y = "prefill_all") \/
       (k <= 2 /\ y = "build") \/ (k <= 3 /\ y = "on_step") \/
       (k <= 4 /\ y = "apply") \/ (k <= 5 /\ y = "reload") \/
       (k <= 6 /\ y = "reconstruct_blocks")
  <2>1. /\ Len(RoundTripPrime) = 6 /\ RoundTripPrime[1] = "prefill_all"
        /\ RoundTripPrime[2] = "build" /\ RoundTripPrime[3] = "on_step"
        /\ RoundTripPrime[4] = "apply" /\ RoundTripPrime[5] = "reload"
        /\ RoundTripPrime[6] = "reconstruct_blocks"
    BY StatementTable
  <2>2. ASSUME NEW j \in k .. Len(RoundTripPrime), RoundTripPrime[j] = y
        PROVE  \E i \in 1 .. 6 : k <= i /\ y = RoundTripPrime[i]
    BY ONLY <2>1, <2>2, k \in Nat \ {0}
  <2>3. \A i \in 1 .. 6 : k <= i /\ y = RoundTripPrime[i] => Among(RoundTripPrime, k, y)
    BY ONLY <2>1, k \in Nat \ {0} DEF Among
  <2>4. Among(RoundTripPrime, k, y) <=> \E i \in 1 .. 6 : k <= i /\ y = RoundTripPrime[i]
    BY <2>2, <2>3 DEF Among
  <2> QED
    BY ONLY <2>1, <2>4, k \in Nat \ {0}
<1>8. Among(LogitsPrime, k, y) <=> (k <= 1 /\ y = "prefill_all") \/
       (k <= 2 /\ y = "build") \/ (k <= 3 /\ y = "on_step") \/
       (k <= 4 /\ y = "apply") \/ (k <= 5 /\ y = "reload") \/
       (k <= 6 /\ y = "reconstruct_blocks") \/ (k <= 7 /\ y = "refeed")
  <2>1. /\ Len(LogitsPrime) = 7 /\ LogitsPrime[1] = "prefill_all"
        /\ LogitsPrime[2] = "build" /\ LogitsPrime[3] = "on_step"
        /\ LogitsPrime[4] = "apply" /\ LogitsPrime[5] = "reload"
        /\ LogitsPrime[6] = "reconstruct_blocks" /\ LogitsPrime[7] = "refeed"
    BY StatementTable
  <2>2. ASSUME NEW j \in k .. Len(LogitsPrime), LogitsPrime[j] = y
        PROVE  \E i \in 1 .. 7 : k <= i /\ y = LogitsPrime[i]
    BY ONLY <2>1, <2>2, k \in Nat \ {0}
  <2>3. \A i \in 1 .. 7 : k <= i /\ y = LogitsPrime[i] => Among(LogitsPrime, k, y)
    BY ONLY <2>1, k \in Nat \ {0} DEF Among
  <2>4. Among(LogitsPrime, k, y) <=> \E i \in 1 .. 7 : k <= i /\ y = LogitsPrime[i]
    BY <2>2, <2>3 DEF Among
  <2> QED
    BY ONLY <2>1, <2>4, k \in Nat \ {0}
<1>9. Among(GenerationPrime, k, y) <=> (k <= 1 /\ y = "prefill_all") \/
       (k <= 2 /\ y = "build") \/ (k <= 3 /\ y = "refeed") \/
       (k <= 4 /\ y = "on_step") \/ (k <= 5 /\ y = "apply") \/
       (k <= 6 /\ y = "reload") \/ (k <= 7 /\ y = "reconstruct_blocks")
  <2>1. /\ Len(GenerationPrime) = 7 /\ GenerationPrime[1] = "prefill_all"
        /\ GenerationPrime[2] = "build" /\ GenerationPrime[3] = "refeed"
        /\ GenerationPrime[4] = "on_step" /\ GenerationPrime[5] = "apply"
        /\ GenerationPrime[6] = "reload"
        /\ GenerationPrime[7] = "reconstruct_blocks"
    BY StatementTable
  <2>2. ASSUME NEW j \in k .. Len(GenerationPrime), GenerationPrime[j] = y
        PROVE  \E i \in 1 .. 7 : k <= i /\ y = GenerationPrime[i]
    BY ONLY <2>1, <2>2, k \in Nat \ {0}
  <2>3. \A i \in 1 .. 7 : k <= i /\ y = GenerationPrime[i] => Among(GenerationPrime, k, y)
    BY ONLY <2>1, k \in Nat \ {0} DEF Among
  <2>4. Among(GenerationPrime, k, y) <=> \E i \in 1 .. 7 : k <= i /\ y = GenerationPrime[i]
    BY <2>2, <2>3 DEF Among
  <2> QED
    BY ONLY <2>1, <2>4, k \in Nat \ {0}
<1>10. Among(CachePrime, k, y) <=> (k <= 1 /\ y = "prefill_all") \/
       (k <= 2 /\ y = "build") \/ (k <= 3 /\ y = "on_step") \/
       (k <= 4 /\ y = "apply")
  <2>1. /\ Len(CachePrime) = 4 /\ CachePrime[1] = "prefill_all"
        /\ CachePrime[2] = "build" /\ CachePrime[3] = "on_step"
        /\ CachePrime[4] = "apply"
    BY StatementTable
  <2>2. ASSUME NEW j \in k .. Len(CachePrime), CachePrime[j] = y
        PROVE  \E i \in 1 .. 4 : k <= i /\ y = CachePrime[i]
    BY ONLY <2>1, <2>2, k \in Nat \ {0}
  <2>3. \A i \in 1 .. 4 : k <= i /\ y = CachePrime[i] => Among(CachePrime, k, y)
    BY ONLY <2>1, k \in Nat \ {0} DEF Among
  <2>4. Among(CachePrime, k, y) <=> \E i \in 1 .. 4 : k <= i /\ y = CachePrime[i]
    BY <2>2, <2>3 DEF Among
  <2> QED
    BY ONLY <2>1, <2>4, k \in Nat \ {0}
<1>11. Among(OffloadPrime, k, y) <=> (k <= 1 /\ y = "dummy_blocks") \/
       (k <= 2 /\ y = "offload") \/ (k <= 3 /\ y = "prefetch")
  <2>1. /\ Len(OffloadPrime) = 3 /\ OffloadPrime[1] = "dummy_blocks"
        /\ OffloadPrime[2] = "offload" /\ OffloadPrime[3] = "prefetch"
    BY StatementTable
  <2>2. ASSUME NEW j \in k .. Len(OffloadPrime), OffloadPrime[j] = y
        PROVE  \E i \in 1 .. 3 : k <= i /\ y = OffloadPrime[i]
    BY ONLY <2>1, <2>2, k \in Nat \ {0}
  <2>3. \A i \in 1 .. 3 : k <= i /\ y = OffloadPrime[i] => Among(OffloadPrime, k, y)
    BY ONLY <2>1, k \in Nat \ {0} DEF Among
  <2>4. Among(OffloadPrime, k, y) <=> \E i \in 1 .. 3 : k <= i /\ y = OffloadPrime[i]
    BY <2>2, <2>3 DEF Among
  <2> QED
    BY ONLY <2>1, <2>4, k \in Nat \ {0}
<1>12. Among(TracePrime, k, y) <=> (k <= 1 /\ y = "dummy_blocks")
  <2>1. /\ Len(TracePrime) = 1 /\ TracePrime[1] = "dummy_blocks"
    BY StatementTable
  <2>2. ASSUME NEW j \in k .. Len(TracePrime), TracePrime[j] = y
        PROVE  \E i \in 1 .. 1 : k <= i /\ y = TracePrime[i]
    BY ONLY <2>1, <2>2, k \in Nat \ {0}
  <2>3. \A i \in 1 .. 1 : k <= i /\ y = TracePrime[i] => Among(TracePrime, k, y)
    BY ONLY <2>1, k \in Nat \ {0} DEF Among
  <2>4. Among(TracePrime, k, y) <=> \E i \in 1 .. 1 : k <= i /\ y = TracePrime[i]
    BY <2>2, <2>3 DEF Among
  <2> QED
    BY ONLY <2>1, <2>4, k \in Nat \ {0}
<1>13. Among(_forward_step, k, y) <=> (k <= 1 /\ y = "reload") \/
       (k <= 2 /\ y = "reconstruct") \/ (k <= 3 /\ y = "forward") \/
       (k <= 4 /\ y = "append") \/ (k <= 5 /\ y = "on_step") \/
       (k <= 6 /\ y = "force") \/ (k <= 7 /\ y = "apply")
  <2>1. /\ Len(_forward_step) = 7 /\ _forward_step[1] = "reload"
        /\ _forward_step[2] = "reconstruct" /\ _forward_step[3] = "forward"
        /\ _forward_step[4] = "append" /\ _forward_step[5] = "on_step"
        /\ _forward_step[6] = "force" /\ _forward_step[7] = "apply"
    BY StatementTable
  <2>2. ASSUME NEW j \in k .. Len(_forward_step), _forward_step[j] = y
        PROVE  \E i \in 1 .. 7 : k <= i /\ y = _forward_step[i]
    BY ONLY <2>1, <2>2, k \in Nat \ {0}
  <2>3. \A i \in 1 .. 7 : k <= i /\ y = _forward_step[i] => Among(_forward_step, k, y)
    BY ONLY <2>1, k \in Nat \ {0} DEF Among
  <2>4. Among(_forward_step, k, y) <=> \E i \in 1 .. 7 : k <= i /\ y = _forward_step[i]
    BY <2>2, <2>3 DEF Among
  <2> QED
    BY ONLY <2>1, <2>4, k \in Nat \ {0}
<1>14. Among(_forward_step_streaming, k, y) <=> (k <= 1 /\ y = "stream") \/
       (k <= 2 /\ y = "forward") \/ (k <= 3 /\ y = "append_grown") \/
       (k <= 4 /\ y = "on_step") \/ (k <= 5 /\ y = "force") \/
       (k <= 6 /\ y = "apply")
  <2>1. /\ Len(_forward_step_streaming) = 6 /\ _forward_step_streaming[1] = "stream"
        /\ _forward_step_streaming[2] = "forward"
        /\ _forward_step_streaming[3] = "append_grown"
        /\ _forward_step_streaming[4] = "on_step"
        /\ _forward_step_streaming[5] = "force"
        /\ _forward_step_streaming[6] = "apply"
    BY StatementTable
  <2>2. ASSUME NEW j \in k .. Len(_forward_step_streaming), _forward_step_streaming[j] = y
        PROVE  \E i \in 1 .. 6 : k <= i /\ y = _forward_step_streaming[i]
    BY ONLY <2>1, <2>2, k \in Nat \ {0}
  <2>3. \A i \in 1 .. 6 :
          k <= i /\ y = _forward_step_streaming[i] => Among(_forward_step_streaming, k, y)
    BY ONLY <2>1, k \in Nat \ {0} DEF Among
  <2>4. Among(_forward_step_streaming, k, y) <=>
          \E i \in 1 .. 6 : k <= i /\ y = _forward_step_streaming[i]
    BY <2>2, <2>3 DEF Among
  <2> QED
    BY ONLY <2>1, <2>4, k \in Nat \ {0}
<1>15. Among(ResidentBody, k, y) <=> (k <= 1 /\ y = "forward") \/
       (k <= 2 /\ y = "keep_past")
  <2>1. /\ Len(ResidentBody) = 2 /\ ResidentBody[1] = "forward"
        /\ ResidentBody[2] = "keep_past"
    BY StatementTable
  <2>2. ASSUME NEW j \in k .. Len(ResidentBody), ResidentBody[j] = y
        PROVE  \E i \in 1 .. 2 : k <= i /\ y = ResidentBody[i]
    BY ONLY <2>1, <2>2, k \in Nat \ {0}
  <2>3. \A i \in 1 .. 2 : k <= i /\ y = ResidentBody[i] => Among(ResidentBody, k, y)
    BY ONLY <2>1, k \in Nat \ {0} DEF Among
  <2>4. Among(ResidentBody, k, y) <=> \E i \in 1 .. 2 : k <= i /\ y = ResidentBody[i]
    BY <2>2, <2>3 DEF Among
  <2> QED
    BY ONLY <2>1, <2>4, k \in Nat \ {0}
<1>16. Among(PagedBody, k, y) <=> (k <= 1 /\ y = "rebuild") \/
       (k <= 2 /\ y = "on_step") \/ (k <= 3 /\ y = "apply") \/
       (k <= 4 /\ y = "reload") \/ (k <= 5 /\ y = "reconstruct") \/
       (k <= 6 /\ y = "forward")
  <2>1. /\ Len(PagedBody) = 6 /\ PagedBody[1] = "rebuild" /\ PagedBody[2] = "on_step"
        /\ PagedBody[3] = "apply" /\ PagedBody[4] = "reload"
        /\ PagedBody[5] = "reconstruct" /\ PagedBody[6] = "forward"
    BY StatementTable
  <2>2. ASSUME NEW j \in k .. Len(PagedBody), PagedBody[j] = y
        PROVE  \E i \in 1 .. 6 : k <= i /\ y = PagedBody[i]
    BY ONLY <2>1, <2>2, k \in Nat \ {0}
  <2>3. \A i \in 1 .. 6 : k <= i /\ y = PagedBody[i] => Among(PagedBody, k, y)
    BY ONLY <2>1, k \in Nat \ {0} DEF Among
  <2>4. Among(PagedBody, k, y) <=> \E i \in 1 .. 6 : k <= i /\ y = PagedBody[i]
    BY <2>2, <2>3 DEF Among
  <2> QED
    BY ONLY <2>1, <2>4, k \in Nat \ {0}
<1>17. Among(GroupedBody, k, y) <=> (k <= 1 /\ y = "reload") \/
       (k <= 2 /\ y = "stream") \/ (k <= 3 /\ y = "forward") \/
       (k <= 4 /\ y = "append_grown") \/ (k <= 5 /\ y = "keep_recent")
  <2>1. /\ Len(GroupedBody) = 5 /\ GroupedBody[1] = "reload"
        /\ GroupedBody[2] = "stream" /\ GroupedBody[3] = "forward"
        /\ GroupedBody[4] = "append_grown" /\ GroupedBody[5] = "keep_recent"
    BY StatementTable
  <2>2. ASSUME NEW j \in k .. Len(GroupedBody), GroupedBody[j] = y
        PROVE  \E i \in 1 .. 5 : k <= i /\ y = GroupedBody[i]
    BY ONLY <2>1, <2>2, k \in Nat \ {0}
  <2>3. \A i \in 1 .. 5 : k <= i /\ y = GroupedBody[i] => Among(GroupedBody, k, y)
    BY ONLY <2>1, k \in Nat \ {0} DEF Among
  <2>4. Among(GroupedBody, k, y) <=> \E i \in 1 .. 5 : k <= i /\ y = GroupedBody[i]
    BY <2>2, <2>3 DEF Among
  <2> QED
    BY ONLY <2>1, <2>4, k \in Nat \ {0}
<1>18. Among(TraceBody, k, y) <=> (k <= 1 /\ y = "trace_step") \/
       (k <= 2 /\ y = "apply")
  <2>1. /\ Len(TraceBody) = 2 /\ TraceBody[1] = "trace_step"
        /\ TraceBody[2] = "apply"
    BY StatementTable
  <2>2. ASSUME NEW j \in k .. Len(TraceBody), TraceBody[j] = y
        PROVE  \E i \in 1 .. 2 : k <= i /\ y = TraceBody[i]
    BY ONLY <2>1, <2>2, k \in Nat \ {0}
  <2>3. \A i \in 1 .. 2 : k <= i /\ y = TraceBody[i] => Among(TraceBody, k, y)
    BY ONLY <2>1, k \in Nat \ {0} DEF Among
  <2>4. Among(TraceBody, k, y) <=> \E i \in 1 .. 2 : k <= i /\ y = TraceBody[i]
    BY <2>2, <2>3 DEF Among
  <2> QED
    BY ONLY <2>1, <2>4, k \in Nat \ {0}
<1>19. ~Among(<<>>, k, y)
  BY DEF Among
<1> QED
  BY ONLY <1>1, <1>2, <1>3, <1>4, <1>5, <1>6, <1>7, <1>8, <1>9, <1>10,
     <1>11, <1>12, <1>13, <1>14, <1>15, <1>16, <1>17, <1>18, <1>19

-----------------------------------------------------------------------------
(* What is left when a statement is next *)

\* The statements that say where in the script a state belongs.
Marks ==
  {"chunked_prefill", "prefill", "prefill_all", "build", "rebuild",
   "dummy_blocks", "reconstruct", "reconstruct_blocks", "stream", "keep_past",
   "refeed", "forward", "append", "append_grown"}
Only(A) == \A y \in Marks : Left(y) => y \in A

\* The store of the script grows by the tokens it generates.
Grows(s) == Appends(s) \/ Streams(s) \/ s = streaming_generate
Grown(s) == Streams(s) \/ s = streaming_generate
Rebuilds(s) == s = paged_generate
\* The script is of one class only.
Class(s) ==
  /\ Grows(s) => ~RoundTrips(s) /\ ~Resident(s) /\ ~Dummies(s) /\ ~Rebuilds(s)
  /\ RoundTrips(s) => ~Resident(s) /\ ~Dummies(s) /\ ~Rebuilds(s)
  /\ Resident(s) => ~Dummies(s) /\ ~Rebuilds(s)
  /\ Rebuilds(s) => ~Dummies(s)
  /\ ReFeeds(s) => RoundTrips(s)
  /\ s = kv_roundtrip => RoundTrips(s) /\ ~ReFeeds(s)
  /\ Appends(s) => ~Grown(s)
  /\ Grows(s) \/ RoundTrips(s) \/ Resident(s) \/ Rebuilds(s) \/ Dummies(s)

LEMMA ClassTable == ASSUME NEW s \in Scripts PROVE Class(s)
<1>1. Table(s)
  BY ScriptTable
<1>2. /\ _forward_step # _forward_step_streaming
      /\ \A p \in {_forward_step, _forward_step_streaming} :
           p \notin {ResidentBody, PagedBody, TraceBody, GroupedBody, <<>>}
  BY DEF _forward_step, _forward_step_streaming, ResidentBody, PagedBody,
         TraceBody, GroupedBody
<1>3. /\ \A p \in {GreedyPrime, BaselinePrime} :
           p \notin {OffloadPrime, TracePrime, PagedPrime, GroupedPrime}
      /\ \A p \in {OffloadPrime, TracePrime} : p \notin {PagedPrime, GroupedPrime}
      /\ PagedPrime # GroupedPrime
  BY DEF GreedyPrime, BaselinePrime, PagedPrime, GroupedPrime, OffloadPrime,
     TracePrime
<1>4. /\ s.body \in {<<>>, ResidentBody, PagedBody, TraceBody} =>
           ~Appends(s) /\ ~Streams(s)
      /\ s.body = GroupedBody => ~Appends(s) /\ ~Streams(s)
      /\ ~(Appends(s) /\ Streams(s))
      /\ s.body \in {_forward_step, _forward_step_streaming} =>
           Appends(s) \/ Streams(s)
  BY <1>2 DEF Appends, Streams
<1>5. Dummies(s) <=> s = kv_offload \/ s = pager_integration
  BY DEF Dummies
<1>6. ReFeeds(s) => RoundTrips(s)
  BY DEF ReFeeds, RoundTrips
<1>7. s = kv_roundtrip => s.prime = RoundTripPrime
  BY ClassOf
<1> QED
  BY <1>1, <1>3, <1>4, <1>5, <1>6, <1>7, ClassOf, PrimesDiffer
     DEF Table, Class, Grows, Grown, Rebuilds

LEMMA Mapped ==
  ASSUME run.script \in Scripts, Control, NEW x, At(x), rest' = Tail(rest)
  PROVE  \A y : y # x => (Left(y)' <=> Left(y))
<1>1. PICK p, k : Located(p, k, x)
  BY Locate
<1>2. p \in Seq(Statements) /\ k \in 1 .. Len(p)
  BY <1>1, StatementsOf DEF Located
<1>3. \A y : Among(p, k, y) <=> p[k] = y \/ Among(p, k + 1, y)
  <2>1. ASSUME NEW y, NEW j \in k .. Len(p), p[j] = y PROVE p[k] = y \/ Among(p, k + 1, y)
    <3>1. j = k \/ j \in k + 1 .. Len(p)
      BY <1>2
    <3> QED
      BY <2>1, <3>1 DEF Among
  <2>2. \A j \in k + 1 .. Len(p) : j \in k .. Len(p)
    BY <1>2
  <2>3. k \in k .. Len(p)
    BY <1>2
  <2> QED
    BY <2>1, <2>2, <2>3 DEF Among
<1> QED
  BY <1>1, <1>3 DEF Located

\* The names of the sequences, and of which class the script is that has them.
Named(p, s) ==
  \/ p \in {_start_session, PolicyPrime} /\ Grows(s)
  \/ p \in {GreedyPrime, BaselinePrime} /\ Resident(s)
  \/ p \in {PagedPrime, PagedBody} /\ Rebuilds(s)
  \/ p \in {GroupedPrime, GroupedBody} /\ Grown(s)
  \/ p = RoundTripPrime /\ s = kv_roundtrip
  \/ p \in {LogitsPrime, GenerationPrime} /\ ReFeeds(s)
  \/ p = CachePrime /\ RoundTrips(s) /\ s # kv_roundtrip /\ ~ReFeeds(s)
  \/ p \in {OffloadPrime, TracePrime, TraceBody} /\ Dummies(s)
  \/ p = _forward_step /\ Appends(s)
  \/ p = _forward_step_streaming /\ Grown(s)
  \/ p = ResidentBody /\ (Resident(s) \/ ReFeeds(s))
  \/ p = <<>>

LEMMA NameOf ==
  ASSUME NEW s \in Scripts, NEW p \in {s.prime, s.body}
  PROVE  Named(p, s)
<1>1. Table(s)
  BY ScriptTable
<1>2. s \in {kv_offload, pager_integration} => Dummies(s)
  BY DEF Dummies
<1>3. Appends(s) <=> s.body = _forward_step
  BY DEF Appends
<1>4. Streams(s) <=> s.body = _forward_step_streaming
  BY DEF Streams
<1> QED
  BY <1>1, <1>2, <1>3, <1>4 DEF Table, Named, Grows, Grown, Rebuilds


\* Which statement is where.
LEMMA PlaceOf ==
  ASSUME NEW p, NEW k \in 1 .. Len(p)
  PROVE
  /\ p = _start_session => (k = 1 /\ p[k] = "chunked_prefill") \/
         (k = 2 /\ p[k] = "build")
  /\ p = PolicyPrime => (k = 1 /\ p[k] = "prefill") \/
         (k = 2 /\ p[k] = "build")
  /\ p = GreedyPrime => (k = 1 /\ p[k] = "prefill") \/
         (k = 2 /\ p[k] = "keep_past")
  /\ p = BaselinePrime => (k = 1 /\ p[k] = "chunked_prefill") \/
         (k = 2 /\ p[k] = "keep_past")
  /\ p = PagedPrime => (k = 1 /\ p[k] = "prefill")
  /\ p = GroupedPrime => (k = 1 /\ p[k] = "chunked_prefill") \/
         (k = 2 /\ p[k] = "build") \/ (k = 3 /\ p[k] = "keep_recent")
  /\ p = RoundTripPrime => (k = 1 /\ p[k] = "prefill_all") \/
         (k = 2 /\ p[k] = "build") \/ (k = 3 /\ p[k] = "on_step") \/
         (k = 4 /\ p[k] = "apply") \/ (k = 5 /\ p[k] = "reload") \/
         (k = 6 /\ p[k] = "reconstruct_blocks")
  /\ p = LogitsPrime => (k = 1 /\ p[k] = "prefill_all") \/
         (k = 2 /\ p[k] = "build") \/ (k = 3 /\ p[k] = "on_step") \/
         (k = 4 /\ p[k] = "apply") \/ (k = 5 /\ p[k] = "reload") \/
         (k = 6 /\ p[k] = "reconstruct_blocks") \/ (k = 7 /\ p[k] = "refeed")
  /\ p = GenerationPrime => (k = 1 /\ p[k] = "prefill_all") \/
         (k = 2 /\ p[k] = "build") \/ (k = 3 /\ p[k] = "refeed") \/
         (k = 4 /\ p[k] = "on_step") \/ (k = 5 /\ p[k] = "apply") \/
         (k = 6 /\ p[k] = "reload") \/ (k = 7 /\ p[k] = "reconstruct_blocks")
  /\ p = CachePrime => (k = 1 /\ p[k] = "prefill_all") \/
         (k = 2 /\ p[k] = "build") \/ (k = 3 /\ p[k] = "on_step") \/
         (k = 4 /\ p[k] = "apply")
  /\ p = OffloadPrime => (k = 1 /\ p[k] = "dummy_blocks") \/
         (k = 2 /\ p[k] = "offload") \/ (k = 3 /\ p[k] = "prefetch")
  /\ p = TracePrime => (k = 1 /\ p[k] = "dummy_blocks")
  /\ p = _forward_step => (k = 1 /\ p[k] = "reload") \/
         (k = 2 /\ p[k] = "reconstruct") \/ (k = 3 /\ p[k] = "forward") \/
         (k = 4 /\ p[k] = "append") \/ (k = 5 /\ p[k] = "on_step") \/
         (k = 6 /\ p[k] = "force") \/ (k = 7 /\ p[k] = "apply")
  /\ p = _forward_step_streaming => (k = 1 /\ p[k] = "stream") \/
         (k = 2 /\ p[k] = "forward") \/ (k = 3 /\ p[k] = "append_grown") \/
         (k = 4 /\ p[k] = "on_step") \/ (k = 5 /\ p[k] = "force") \/
         (k = 6 /\ p[k] = "apply")
  /\ p = ResidentBody => (k = 1 /\ p[k] = "forward") \/
         (k = 2 /\ p[k] = "keep_past")
  /\ p = PagedBody => (k = 1 /\ p[k] = "rebuild") \/
         (k = 2 /\ p[k] = "on_step") \/ (k = 3 /\ p[k] = "apply") \/
         (k = 4 /\ p[k] = "reload") \/ (k = 5 /\ p[k] = "reconstruct") \/
         (k = 6 /\ p[k] = "forward")
  /\ p = GroupedBody => (k = 1 /\ p[k] = "reload") \/
         (k = 2 /\ p[k] = "stream") \/ (k = 3 /\ p[k] = "forward") \/
         (k = 4 /\ p[k] = "append_grown") \/ (k = 5 /\ p[k] = "keep_recent")
  /\ p = TraceBody => (k = 1 /\ p[k] = "trace_step") \/
         (k = 2 /\ p[k] = "apply")
  /\ p # <<>>
<1>1. p = _start_session => (k = 1 /\ p[k] = "chunked_prefill") \/
       (k = 2 /\ p[k] = "build")
  <2>1. /\ Len(_start_session) = 2 /\ _start_session[1] = "chunked_prefill"
        /\ _start_session[2] = "build"
    BY StatementTable
  <2>2. ASSUME p = _start_session PROVE k \in 1 .. 2
    BY <2>1, <2>2
  <2>3. \A j \in 1 .. 2 : j = 1 \/ j = 2
    OBVIOUS
  <2> QED
    BY ONLY <2>1, <2>2, <2>3
<1>2. p = PolicyPrime => (k = 1 /\ p[k] = "prefill") \/
       (k = 2 /\ p[k] = "build")
  <2>1. /\ Len(PolicyPrime) = 2 /\ PolicyPrime[1] = "prefill"
        /\ PolicyPrime[2] = "build"
    BY StatementTable
  <2>2. ASSUME p = PolicyPrime PROVE k \in 1 .. 2
    BY <2>1, <2>2
  <2>3. \A j \in 1 .. 2 : j = 1 \/ j = 2
    OBVIOUS
  <2> QED
    BY ONLY <2>1, <2>2, <2>3
<1>3. p = GreedyPrime => (k = 1 /\ p[k] = "prefill") \/
       (k = 2 /\ p[k] = "keep_past")
  <2>1. /\ Len(GreedyPrime) = 2 /\ GreedyPrime[1] = "prefill"
        /\ GreedyPrime[2] = "keep_past"
    BY StatementTable
  <2>2. ASSUME p = GreedyPrime PROVE k \in 1 .. 2
    BY <2>1, <2>2
  <2>3. \A j \in 1 .. 2 : j = 1 \/ j = 2
    OBVIOUS
  <2> QED
    BY ONLY <2>1, <2>2, <2>3
<1>4. p = BaselinePrime => (k = 1 /\ p[k] = "chunked_prefill") \/
       (k = 2 /\ p[k] = "keep_past")
  <2>1. /\ Len(BaselinePrime) = 2 /\ BaselinePrime[1] = "chunked_prefill"
        /\ BaselinePrime[2] = "keep_past"
    BY StatementTable
  <2>2. ASSUME p = BaselinePrime PROVE k \in 1 .. 2
    BY <2>1, <2>2
  <2>3. \A j \in 1 .. 2 : j = 1 \/ j = 2
    OBVIOUS
  <2> QED
    BY ONLY <2>1, <2>2, <2>3
<1>5. p = PagedPrime => (k = 1 /\ p[k] = "prefill")
  <2>1. /\ Len(PagedPrime) = 1 /\ PagedPrime[1] = "prefill"
    BY StatementTable
  <2>2. ASSUME p = PagedPrime PROVE k \in 1 .. 1
    BY <2>1, <2>2
  <2>3. \A j \in 1 .. 1 : j = 1
    OBVIOUS
  <2> QED
    BY ONLY <2>1, <2>2, <2>3
<1>6. p = GroupedPrime => (k = 1 /\ p[k] = "chunked_prefill") \/
       (k = 2 /\ p[k] = "build") \/ (k = 3 /\ p[k] = "keep_recent")
  <2>1. /\ Len(GroupedPrime) = 3 /\ GroupedPrime[1] = "chunked_prefill"
        /\ GroupedPrime[2] = "build" /\ GroupedPrime[3] = "keep_recent"
    BY StatementTable
  <2>2. ASSUME p = GroupedPrime PROVE k \in 1 .. 3
    BY <2>1, <2>2
  <2>3. \A j \in 1 .. 3 : j = 1 \/ j = 2 \/ j = 3
    OBVIOUS
  <2> QED
    BY ONLY <2>1, <2>2, <2>3
<1>7. p = RoundTripPrime => (k = 1 /\ p[k] = "prefill_all") \/
       (k = 2 /\ p[k] = "build") \/ (k = 3 /\ p[k] = "on_step") \/
       (k = 4 /\ p[k] = "apply") \/ (k = 5 /\ p[k] = "reload") \/
       (k = 6 /\ p[k] = "reconstruct_blocks")
  <2>1. /\ Len(RoundTripPrime) = 6 /\ RoundTripPrime[1] = "prefill_all"
        /\ RoundTripPrime[2] = "build" /\ RoundTripPrime[3] = "on_step"
        /\ RoundTripPrime[4] = "apply" /\ RoundTripPrime[5] = "reload"
        /\ RoundTripPrime[6] = "reconstruct_blocks"
    BY StatementTable
  <2>2. ASSUME p = RoundTripPrime PROVE k \in 1 .. 6
    BY <2>1, <2>2
  <2>3. \A j \in 1 .. 6 : j = 1 \/ j = 2 \/ j = 3 \/ j = 4 \/ j = 5 \/ j = 6
    OBVIOUS
  <2> QED
    BY ONLY <2>1, <2>2, <2>3
<1>8. p = LogitsPrime => (k = 1 /\ p[k] = "prefill_all") \/
       (k = 2 /\ p[k] = "build") \/ (k = 3 /\ p[k] = "on_step") \/
       (k = 4 /\ p[k] = "apply") \/ (k = 5 /\ p[k] = "reload") \/
       (k = 6 /\ p[k] = "reconstruct_blocks") \/ (k = 7 /\ p[k] = "refeed")
  <2>1. /\ Len(LogitsPrime) = 7 /\ LogitsPrime[1] = "prefill_all"
        /\ LogitsPrime[2] = "build" /\ LogitsPrime[3] = "on_step"
        /\ LogitsPrime[4] = "apply" /\ LogitsPrime[5] = "reload"
        /\ LogitsPrime[6] = "reconstruct_blocks" /\ LogitsPrime[7] = "refeed"
    BY StatementTable
  <2>2. ASSUME p = LogitsPrime PROVE k \in 1 .. 7
    BY <2>1, <2>2
  <2>3. \A j \in 1 .. 7 : j = 1 \/ j = 2 \/ j = 3 \/ j = 4 \/ j = 5 \/ j = 6 \/ j = 7
    OBVIOUS
  <2> QED
    BY ONLY <2>1, <2>2, <2>3
<1>9. p = GenerationPrime => (k = 1 /\ p[k] = "prefill_all") \/
       (k = 2 /\ p[k] = "build") \/ (k = 3 /\ p[k] = "refeed") \/
       (k = 4 /\ p[k] = "on_step") \/ (k = 5 /\ p[k] = "apply") \/
       (k = 6 /\ p[k] = "reload") \/ (k = 7 /\ p[k] = "reconstruct_blocks")
  <2>1. /\ Len(GenerationPrime) = 7 /\ GenerationPrime[1] = "prefill_all"
        /\ GenerationPrime[2] = "build" /\ GenerationPrime[3] = "refeed"
        /\ GenerationPrime[4] = "on_step" /\ GenerationPrime[5] = "apply"
        /\ GenerationPrime[6] = "reload"
        /\ GenerationPrime[7] = "reconstruct_blocks"
    BY StatementTable
  <2>2. ASSUME p = GenerationPrime PROVE k \in 1 .. 7
    BY <2>1, <2>2
  <2>3. \A j \in 1 .. 7 : j = 1 \/ j = 2 \/ j = 3 \/ j = 4 \/ j = 5 \/ j = 6 \/ j = 7
    OBVIOUS
  <2> QED
    BY ONLY <2>1, <2>2, <2>3
<1>10. p = CachePrime => (k = 1 /\ p[k] = "prefill_all") \/
       (k = 2 /\ p[k] = "build") \/ (k = 3 /\ p[k] = "on_step") \/
       (k = 4 /\ p[k] = "apply")
  <2>1. /\ Len(CachePrime) = 4 /\ CachePrime[1] = "prefill_all"
        /\ CachePrime[2] = "build" /\ CachePrime[3] = "on_step"
        /\ CachePrime[4] = "apply"
    BY StatementTable
  <2>2. ASSUME p = CachePrime PROVE k \in 1 .. 4
    BY <2>1, <2>2
  <2>3. \A j \in 1 .. 4 : j = 1 \/ j = 2 \/ j = 3 \/ j = 4
    OBVIOUS
  <2> QED
    BY ONLY <2>1, <2>2, <2>3
<1>11. p = OffloadPrime => (k = 1 /\ p[k] = "dummy_blocks") \/
       (k = 2 /\ p[k] = "offload") \/ (k = 3 /\ p[k] = "prefetch")
  <2>1. /\ Len(OffloadPrime) = 3 /\ OffloadPrime[1] = "dummy_blocks"
        /\ OffloadPrime[2] = "offload" /\ OffloadPrime[3] = "prefetch"
    BY StatementTable
  <2>2. ASSUME p = OffloadPrime PROVE k \in 1 .. 3
    BY <2>1, <2>2
  <2>3. \A j \in 1 .. 3 : j = 1 \/ j = 2 \/ j = 3
    OBVIOUS
  <2> QED
    BY ONLY <2>1, <2>2, <2>3
<1>12. p = TracePrime => (k = 1 /\ p[k] = "dummy_blocks")
  <2>1. /\ Len(TracePrime) = 1 /\ TracePrime[1] = "dummy_blocks"
    BY StatementTable
  <2>2. ASSUME p = TracePrime PROVE k \in 1 .. 1
    BY <2>1, <2>2
  <2>3. \A j \in 1 .. 1 : j = 1
    OBVIOUS
  <2> QED
    BY ONLY <2>1, <2>2, <2>3
<1>13. p = _forward_step => (k = 1 /\ p[k] = "reload") \/
       (k = 2 /\ p[k] = "reconstruct") \/ (k = 3 /\ p[k] = "forward") \/
       (k = 4 /\ p[k] = "append") \/ (k = 5 /\ p[k] = "on_step") \/
       (k = 6 /\ p[k] = "force") \/ (k = 7 /\ p[k] = "apply")
  <2>1. /\ Len(_forward_step) = 7 /\ _forward_step[1] = "reload"
        /\ _forward_step[2] = "reconstruct" /\ _forward_step[3] = "forward"
        /\ _forward_step[4] = "append" /\ _forward_step[5] = "on_step"
        /\ _forward_step[6] = "force" /\ _forward_step[7] = "apply"
    BY StatementTable
  <2>2. ASSUME p = _forward_step PROVE k \in 1 .. 7
    BY <2>1, <2>2
  <2>3. \A j \in 1 .. 7 : j = 1 \/ j = 2 \/ j = 3 \/ j = 4 \/ j = 5 \/ j = 6 \/ j = 7
    OBVIOUS
  <2> QED
    BY ONLY <2>1, <2>2, <2>3
<1>14. p = _forward_step_streaming => (k = 1 /\ p[k] = "stream") \/
       (k = 2 /\ p[k] = "forward") \/ (k = 3 /\ p[k] = "append_grown") \/
       (k = 4 /\ p[k] = "on_step") \/ (k = 5 /\ p[k] = "force") \/
       (k = 6 /\ p[k] = "apply")
  <2>1. /\ Len(_forward_step_streaming) = 6 /\ _forward_step_streaming[1] = "stream"
        /\ _forward_step_streaming[2] = "forward"
        /\ _forward_step_streaming[3] = "append_grown"
        /\ _forward_step_streaming[4] = "on_step"
        /\ _forward_step_streaming[5] = "force"
        /\ _forward_step_streaming[6] = "apply"
    BY StatementTable
  <2>2. ASSUME p = _forward_step_streaming PROVE k \in 1 .. 6
    BY <2>1, <2>2
  <2>3. \A j \in 1 .. 6 : j = 1 \/ j = 2 \/ j = 3 \/ j = 4 \/ j = 5 \/ j = 6
    OBVIOUS
  <2> QED
    BY ONLY <2>1, <2>2, <2>3
<1>15. p = ResidentBody => (k = 1 /\ p[k] = "forward") \/
       (k = 2 /\ p[k] = "keep_past")
  <2>1. /\ Len(ResidentBody) = 2 /\ ResidentBody[1] = "forward"
        /\ ResidentBody[2] = "keep_past"
    BY StatementTable
  <2>2. ASSUME p = ResidentBody PROVE k \in 1 .. 2
    BY <2>1, <2>2
  <2>3. \A j \in 1 .. 2 : j = 1 \/ j = 2
    OBVIOUS
  <2> QED
    BY ONLY <2>1, <2>2, <2>3
<1>16. p = PagedBody => (k = 1 /\ p[k] = "rebuild") \/
       (k = 2 /\ p[k] = "on_step") \/ (k = 3 /\ p[k] = "apply") \/
       (k = 4 /\ p[k] = "reload") \/ (k = 5 /\ p[k] = "reconstruct") \/
       (k = 6 /\ p[k] = "forward")
  <2>1. /\ Len(PagedBody) = 6 /\ PagedBody[1] = "rebuild" /\ PagedBody[2] = "on_step"
        /\ PagedBody[3] = "apply" /\ PagedBody[4] = "reload"
        /\ PagedBody[5] = "reconstruct" /\ PagedBody[6] = "forward"
    BY StatementTable
  <2>2. ASSUME p = PagedBody PROVE k \in 1 .. 6
    BY <2>1, <2>2
  <2>3. \A j \in 1 .. 6 : j = 1 \/ j = 2 \/ j = 3 \/ j = 4 \/ j = 5 \/ j = 6
    OBVIOUS
  <2> QED
    BY ONLY <2>1, <2>2, <2>3
<1>17. p = GroupedBody => (k = 1 /\ p[k] = "reload") \/
       (k = 2 /\ p[k] = "stream") \/ (k = 3 /\ p[k] = "forward") \/
       (k = 4 /\ p[k] = "append_grown") \/ (k = 5 /\ p[k] = "keep_recent")
  <2>1. /\ Len(GroupedBody) = 5 /\ GroupedBody[1] = "reload"
        /\ GroupedBody[2] = "stream" /\ GroupedBody[3] = "forward"
        /\ GroupedBody[4] = "append_grown" /\ GroupedBody[5] = "keep_recent"
    BY StatementTable
  <2>2. ASSUME p = GroupedBody PROVE k \in 1 .. 5
    BY <2>1, <2>2
  <2>3. \A j \in 1 .. 5 : j = 1 \/ j = 2 \/ j = 3 \/ j = 4 \/ j = 5
    OBVIOUS
  <2> QED
    BY ONLY <2>1, <2>2, <2>3
<1>18. p = TraceBody => (k = 1 /\ p[k] = "trace_step") \/
       (k = 2 /\ p[k] = "apply")
  <2>1. /\ Len(TraceBody) = 2 /\ TraceBody[1] = "trace_step"
        /\ TraceBody[2] = "apply"
    BY StatementTable
  <2>2. ASSUME p = TraceBody PROVE k \in 1 .. 2
    BY <2>1, <2>2
  <2>3. \A j \in 1 .. 2 : j = 1 \/ j = 2
    OBVIOUS
  <2> QED
    BY ONLY <2>1, <2>2, <2>3
<1>19. p # <<>>
  <2>1. ASSUME p = <<>> PROVE FALSE
    <3>1. Len(p) = 0
      BY <2>1
    <3> QED
      BY <3>1
  <2> QED
    BY <2>1
<1> QED
  BY ONLY <1>1, <1>2, <1>3, <1>4, <1>5, <1>6, <1>7, <1>8, <1>9, <1>10,
     <1>11, <1>12, <1>13, <1>14, <1>15, <1>16, <1>17, <1>18, <1>19


LEMMA LeftAtChunkedPrefill ==
  ASSUME run.script \in Scripts, Control, At("chunked_prefill")
  PROVE  /\ Left("chunked_prefill")
         /\ Only({"chunked_prefill", "build", "keep_past"})
         /\ Grows(run.script) \/ Resident(run.script)
         /\ Left("build") <=> Grows(run.script)
         /\ Left("keep_past") <=> Resident(run.script)
<1>1. PICK p, k : Located(p, k, "chunked_prefill")
  BY Locate
<1>2. Table(run.script) /\ Class(run.script)
  BY ScriptTable, ClassTable
<1>3. \/ p = _start_session /\ k = 1 /\ Grows(run.script)
      \/ p = GroupedPrime /\ k = 1 /\ Grows(run.script)
      \/ p = BaselinePrime /\ k = 1 /\ Resident(run.script)
  <2>1. Named(p, run.script) /\ k \in 1 .. Len(p) /\ p[k] = "chunked_prefill"
    BY <1>1, NameOf DEF Located
  <2> QED
    BY <2>1, PlaceOf DEF Named, Grows, Grown
<1>4. \A y : Left(y) <=> Among(p, k, y)
  BY <1>1 DEF Located
<1>5. CASE p = _start_session /\ k = 1 /\ Grows(run.script)
  BY <1>2, <1>4, <1>5, LeftOf DEF Only, Marks, Class, Grows, Grown
<1>6. CASE p = GroupedPrime /\ k = 1 /\ Grows(run.script)
  BY <1>2, <1>4, <1>6, LeftOf DEF Only, Marks, Class, Grows, Grown
<1>7. CASE p = BaselinePrime /\ k = 1 /\ Resident(run.script)
  BY <1>2, <1>4, <1>7, LeftOf DEF Only, Marks, Class, Grows, Grown
<1> QED
  BY <1>3, <1>5, <1>6, <1>7

LEMMA LeftAtPrefill ==
  ASSUME run.script \in Scripts, Control, At("prefill")
  PROVE  /\ Left("prefill")
         /\ Only({"prefill", "build", "keep_past"})
         /\ Grows(run.script) \/ Resident(run.script) \/ Rebuilds(run.script)
         /\ Left("build") <=> Grows(run.script)
         /\ Left("keep_past") <=> Resident(run.script)
<1>1. PICK p, k : Located(p, k, "prefill")
  BY Locate
<1>2. Table(run.script) /\ Class(run.script)
  BY ScriptTable, ClassTable
<1>3. \/ p = PolicyPrime /\ k = 1 /\ Grows(run.script)
      \/ p = GreedyPrime /\ k = 1 /\ Resident(run.script)
      \/ p = PagedPrime /\ k = 1 /\ Rebuilds(run.script)
  <2>1. Named(p, run.script) /\ k \in 1 .. Len(p) /\ p[k] = "prefill"
    BY <1>1, NameOf DEF Located
  <2> QED
    BY <2>1, PlaceOf DEF Named, Grows, Grown
<1>4. \A y : Left(y) <=> Among(p, k, y)
  BY <1>1 DEF Located
<1>5. CASE p = PolicyPrime /\ k = 1 /\ Grows(run.script)
  BY <1>2, <1>4, <1>5, LeftOf DEF Only, Marks, Class, Grows, Grown
<1>6. CASE p = GreedyPrime /\ k = 1 /\ Resident(run.script)
  BY <1>2, <1>4, <1>6, LeftOf DEF Only, Marks, Class, Grows, Grown
<1>7. CASE p = PagedPrime /\ k = 1 /\ Rebuilds(run.script)
  BY <1>2, <1>4, <1>7, LeftOf DEF Only, Marks, Class, Grows, Grown
<1> QED
  BY <1>3, <1>5, <1>6, <1>7

LEMMA LeftAtPrefillAll ==
  ASSUME run.script \in Scripts, Control, At("prefill_all")
  PROVE  /\ Left("prefill_all")
         /\ Only({"prefill_all", "build", "refeed", "reconstruct_blocks"})
         /\ RoundTrips(run.script)
         /\ Left("build")
         /\ run.script = kv_roundtrip => Left("reconstruct_blocks")
<1>1. PICK p, k : Located(p, k, "prefill_all")
  BY Locate
<1>2. Table(run.script) /\ Class(run.script)
  BY ScriptTable, ClassTable
<1>3. \/ p = RoundTripPrime /\ k = 1 /\ run.script = kv_roundtrip
      \/ p = LogitsPrime /\ k = 1 /\ ReFeeds(run.script)
      \/ p = GenerationPrime /\ k = 1 /\ ReFeeds(run.script)
      \/ p = CachePrime /\ k = 1 /\ RoundTrips(run.script) /\ run.script # kv_roundtrip
  <2>1. Named(p, run.script) /\ k \in 1 .. Len(p) /\ p[k] = "prefill_all"
    BY <1>1, NameOf DEF Located
  <2> QED
    BY <2>1, PlaceOf DEF Named, Grows, Grown
<1>4. \A y : Left(y) <=> Among(p, k, y)
  BY <1>1 DEF Located
<1>5. CASE p = RoundTripPrime /\ k = 1 /\ run.script = kv_roundtrip
  BY <1>2, <1>4, <1>5, LeftOf DEF Only, Marks, Class, Grows, Grown
<1>6. CASE p = LogitsPrime /\ k = 1 /\ ReFeeds(run.script)
  BY <1>2, <1>4, <1>6, LeftOf DEF Only, Marks, Class, Grows, Grown
<1>7. CASE p = GenerationPrime /\ k = 1 /\ ReFeeds(run.script)
  BY <1>2, <1>4, <1>7, LeftOf DEF Only, Marks, Class, Grows, Grown
<1>8. CASE p = CachePrime /\ k = 1 /\ RoundTrips(run.script) /\ run.script # kv_roundtrip
  BY <1>2, <1>4, <1>8, LeftOf DEF Only, Marks, Class, Grows, Grown
<1> QED
  BY <1>3, <1>5, <1>6, <1>7, <1>8

LEMMA LeftAtBuild ==
  ASSUME run.script \in Scripts, Control, At("build")
  PROVE  /\ Left("build")
         /\ Only({"build", "refeed", "reconstruct_blocks"})
         /\ Grows(run.script) \/ RoundTrips(run.script)
         /\ Left("reconstruct_blocks") <=> ReFeeds(run.script) \/ run.script = kv_roundtrip
         /\ Left("refeed") <=> ReFeeds(run.script)
<1>1. PICK p, k : Located(p, k, "build")
  BY Locate
<1>2. Table(run.script) /\ Class(run.script)
  BY ScriptTable, ClassTable
<1>3. \/ p = _start_session /\ k = 2 /\ Grows(run.script)
      \/ p = PolicyPrime /\ k = 2 /\ Grows(run.script)
      \/ p = GroupedPrime /\ k = 2 /\ Grows(run.script)
      \/ p = RoundTripPrime /\ k = 2 /\ run.script = kv_roundtrip
      \/ p = LogitsPrime /\ k = 2 /\ ReFeeds(run.script)
      \/ p = GenerationPrime /\ k = 2 /\ ReFeeds(run.script)
      \/ /\ p = CachePrime /\ k = 2 /\ RoundTrips(run.script)
         /\ run.script # kv_roundtrip /\ ~ReFeeds(run.script)
  <2>1. Named(p, run.script) /\ k \in 1 .. Len(p) /\ p[k] = "build"
    BY <1>1, NameOf DEF Located
  <2> QED
    BY <2>1, PlaceOf DEF Named, Grows, Grown
<1>4. \A y : Left(y) <=> Among(p, k, y)
  BY <1>1 DEF Located
<1>5. CASE p = _start_session /\ k = 2 /\ Grows(run.script)
  BY <1>2, <1>4, <1>5, LeftOf DEF Only, Marks, Class, Grows, Grown
<1>6. CASE p = PolicyPrime /\ k = 2 /\ Grows(run.script)
  BY <1>2, <1>4, <1>6, LeftOf DEF Only, Marks, Class, Grows, Grown
<1>7. CASE p = GroupedPrime /\ k = 2 /\ Grows(run.script)
  BY <1>2, <1>4, <1>7, LeftOf DEF Only, Marks, Class, Grows, Grown
<1>8. CASE p = RoundTripPrime /\ k = 2 /\ run.script = kv_roundtrip
  BY <1>2, <1>4, <1>8, LeftOf DEF Only, Marks, Class, Grows, Grown
<1>9. CASE p = LogitsPrime /\ k = 2 /\ ReFeeds(run.script)
  BY <1>2, <1>4, <1>9, LeftOf DEF Only, Marks, Class, Grows, Grown
<1>10. CASE p = GenerationPrime /\ k = 2 /\ ReFeeds(run.script)
  BY <1>2, <1>4, <1>10, LeftOf DEF Only, Marks, Class, Grows, Grown
<1>11. CASE /\ p = CachePrime /\ k = 2 /\ RoundTrips(run.script)
            /\ run.script # kv_roundtrip /\ ~ReFeeds(run.script)
  BY <1>2, <1>4, <1>11, LeftOf DEF Only, Marks, Class, Grows, Grown
<1> QED
  BY <1>3, <1>5, <1>6, <1>7, <1>8, <1>9, <1>10, <1>11

LEMMA LeftAtRebuild ==
  ASSUME run.script \in Scripts, Control, At("rebuild")
  PROVE  /\ Left("rebuild")
         /\ Only({"rebuild", "reconstruct", "forward"})
         /\ Rebuilds(run.script)
         /\ Left("reconstruct")
         /\ Left("forward")
<1>1. PICK p, k : Located(p, k, "rebuild")
  BY Locate
<1>2. Table(run.script) /\ Class(run.script)
  BY ScriptTable, ClassTable
<1>3. \/ p = PagedBody /\ k = 1 /\ Rebuilds(run.script)
  <2>1. Named(p, run.script) /\ k \in 1 .. Len(p) /\ p[k] = "rebuild"
    BY <1>1, NameOf DEF Located
  <2> QED
    BY <2>1, PlaceOf DEF Named, Grows, Grown
<1>4. \A y : Left(y) <=> Among(p, k, y)
  BY <1>1 DEF Located
<1>5. CASE p = PagedBody /\ k = 1 /\ Rebuilds(run.script)
  BY <1>2, <1>4, <1>5, LeftOf DEF Only, Marks, Class, Grows, Grown
<1> QED
  BY <1>3, <1>5

LEMMA LeftAtDummies ==
  ASSUME run.script \in Scripts, Control, At("dummy_blocks")
  PROVE  /\ Left("dummy_blocks")
         /\ Only({"dummy_blocks"})
         /\ Dummies(run.script)
<1>1. PICK p, k : Located(p, k, "dummy_blocks")
  BY Locate
<1>2. Table(run.script) /\ Class(run.script)
  BY ScriptTable, ClassTable
<1>3. \/ p = OffloadPrime /\ k = 1 /\ Dummies(run.script)
      \/ p = TracePrime /\ k = 1 /\ Dummies(run.script)
  <2>1. Named(p, run.script) /\ k \in 1 .. Len(p) /\ p[k] = "dummy_blocks"
    BY <1>1, NameOf DEF Located
  <2> QED
    BY <2>1, PlaceOf DEF Named, Grows, Grown
<1>4. \A y : Left(y) <=> Among(p, k, y)
  BY <1>1 DEF Located
<1>5. CASE p = OffloadPrime /\ k = 1 /\ Dummies(run.script)
  BY <1>2, <1>4, <1>5, LeftOf DEF Only, Marks, Class, Grows, Grown
<1>6. CASE p = TracePrime /\ k = 1 /\ Dummies(run.script)
  BY <1>2, <1>4, <1>6, LeftOf DEF Only, Marks, Class, Grows, Grown
<1> QED
  BY <1>3, <1>5, <1>6

LEMMA LeftAtReconstruct ==
  ASSUME run.script \in Scripts, Control, At("reconstruct")
  PROVE  /\ Left("reconstruct")
         /\ Only({"reconstruct", "forward", "append"})
         /\ Appends(run.script) \/ Rebuilds(run.script)
         /\ Left("forward")
         /\ Left("append") <=> Appends(run.script)
<1>1. PICK p, k : Located(p, k, "reconstruct")
  BY Locate
<1>2. Table(run.script) /\ Class(run.script)
  BY ScriptTable, ClassTable
<1>3. \/ p = _forward_step /\ k = 2 /\ Appends(run.script)
      \/ p = PagedBody /\ k = 5 /\ Rebuilds(run.script)
  <2>1. Named(p, run.script) /\ k \in 1 .. Len(p) /\ p[k] = "reconstruct"
    BY <1>1, NameOf DEF Located
  <2> QED
    BY <2>1, PlaceOf DEF Named, Grows, Grown
<1>4. \A y : Left(y) <=> Among(p, k, y)
  BY <1>1 DEF Located
<1>5. CASE p = _forward_step /\ k = 2 /\ Appends(run.script)
  BY <1>2, <1>4, <1>5, LeftOf DEF Only, Marks, Class, Grows, Grown
<1>6. CASE p = PagedBody /\ k = 5 /\ Rebuilds(run.script)
  BY <1>2, <1>4, <1>6, LeftOf DEF Only, Marks, Class, Grows, Grown
<1> QED
  BY <1>3, <1>5, <1>6

LEMMA LeftAtReconstructBlocks ==
  ASSUME run.script \in Scripts, Control, At("reconstruct_blocks")
  PROVE  /\ Left("reconstruct_blocks")
         /\ Only({"reconstruct_blocks", "refeed"})
         /\ ReFeeds(run.script) \/ run.script = kv_roundtrip
<1>1. PICK p, k : Located(p, k, "reconstruct_blocks")
  BY Locate
<1>2. Table(run.script) /\ Class(run.script)
  BY ScriptTable, ClassTable
<1>3. \/ p = RoundTripPrime /\ k = 6 /\ run.script = kv_roundtrip
      \/ p = LogitsPrime /\ k = 6 /\ ReFeeds(run.script)
      \/ p = GenerationPrime /\ k = 7 /\ ReFeeds(run.script)
  <2>1. Named(p, run.script) /\ k \in 1 .. Len(p) /\ p[k] = "reconstruct_blocks"
    BY <1>1, NameOf DEF Located
  <2> QED
    BY <2>1, PlaceOf DEF Named, Grows, Grown
<1>4. \A y : Left(y) <=> Among(p, k, y)
  BY <1>1 DEF Located
<1>5. CASE p = RoundTripPrime /\ k = 6 /\ run.script = kv_roundtrip
  BY <1>2, <1>4, <1>5, LeftOf DEF Only, Marks, Class, Grows, Grown
<1>6. CASE p = LogitsPrime /\ k = 6 /\ ReFeeds(run.script)
  BY <1>2, <1>4, <1>6, LeftOf DEF Only, Marks, Class, Grows, Grown
<1>7. CASE p = GenerationPrime /\ k = 7 /\ ReFeeds(run.script)
  BY <1>2, <1>4, <1>7, LeftOf DEF Only, Marks, Class, Grows, Grown
<1> QED
  BY <1>3, <1>5, <1>6, <1>7

LEMMA LeftAtStream ==
  ASSUME run.script \in Scripts, Control, At("stream")
  PROVE  /\ Left("stream")
         /\ Only({"stream", "forward", "append_grown"})
         /\ Grown(run.script)
         /\ Left("forward")
         /\ Left("append_grown")
<1>1. PICK p, k : Located(p, k, "stream")
  BY Locate
<1>2. Table(run.script) /\ Class(run.script)
  BY ScriptTable, ClassTable
<1>3. \/ p = _forward_step_streaming /\ k = 1 /\ Grown(run.script)
      \/ p = GroupedBody /\ k = 2 /\ Grown(run.script)
  <2>1. Named(p, run.script) /\ k \in 1 .. Len(p) /\ p[k] = "stream"
    BY <1>1, NameOf DEF Located
  <2> QED
    BY <2>1, PlaceOf DEF Named, Grows, Grown
<1>4. \A y : Left(y) <=> Among(p, k, y)
  BY <1>1 DEF Located
<1>5. CASE p = _forward_step_streaming /\ k = 1 /\ Grown(run.script)
  BY <1>2, <1>4, <1>5, LeftOf DEF Only, Marks, Class, Grows, Grown
<1>6. CASE p = GroupedBody /\ k = 2 /\ Grown(run.script)
  BY <1>2, <1>4, <1>6, LeftOf DEF Only, Marks, Class, Grows, Grown
<1> QED
  BY <1>3, <1>5, <1>6

LEMMA LeftAtKeepPast ==
  ASSUME run.script \in Scripts, Control, At("keep_past")
  PROVE  /\ Left("keep_past")
         /\ Only({"keep_past"})
         /\ Resident(run.script) \/ ReFeeds(run.script)
<1>1. PICK p, k : Located(p, k, "keep_past")
  BY Locate
<1>2. Table(run.script) /\ Class(run.script)
  BY ScriptTable, ClassTable
<1>3. \/ p = GreedyPrime /\ k = 2 /\ Resident(run.script)
      \/ p = BaselinePrime /\ k = 2 /\ Resident(run.script)
      \/ p = ResidentBody /\ k = 2 /\ (Resident(run.script) \/ ReFeeds(run.script))
  <2>1. Named(p, run.script) /\ k \in 1 .. Len(p) /\ p[k] = "keep_past"
    BY <1>1, NameOf DEF Located
  <2> QED
    BY <2>1, PlaceOf DEF Named, Grows, Grown
<1>4. \A y : Left(y) <=> Among(p, k, y)
  BY <1>1 DEF Located
<1>5. CASE p = GreedyPrime /\ k = 2 /\ Resident(run.script)
  BY <1>2, <1>4, <1>5, LeftOf DEF Only, Marks, Class, Grows, Grown
<1>6. CASE p = BaselinePrime /\ k = 2 /\ Resident(run.script)
  BY <1>2, <1>4, <1>6, LeftOf DEF Only, Marks, Class, Grows, Grown
<1>7. CASE p = ResidentBody /\ k = 2 /\ (Resident(run.script) \/ ReFeeds(run.script))
  BY <1>2, <1>4, <1>7, LeftOf DEF Only, Marks, Class, Grows, Grown
<1> QED
  BY <1>3, <1>5, <1>6, <1>7

LEMMA LeftAtReFeed ==
  ASSUME run.script \in Scripts, Control, At("refeed")
  PROVE  /\ Left("refeed")
         /\ Only({"refeed", "reconstruct_blocks"})
         /\ ReFeeds(run.script)
<1>1. PICK p, k : Located(p, k, "refeed")
  BY Locate
<1>2. Table(run.script) /\ Class(run.script)
  BY ScriptTable, ClassTable
<1>3. \/ p = LogitsPrime /\ k = 7 /\ ReFeeds(run.script)
      \/ p = GenerationPrime /\ k = 3 /\ ReFeeds(run.script)
  <2>1. Named(p, run.script) /\ k \in 1 .. Len(p) /\ p[k] = "refeed"
    BY <1>1, NameOf DEF Located
  <2> QED
    BY <2>1, PlaceOf DEF Named, Grows, Grown
<1>4. \A y : Left(y) <=> Among(p, k, y)
  BY <1>1 DEF Located
<1>5. CASE p = LogitsPrime /\ k = 7 /\ ReFeeds(run.script)
  BY <1>2, <1>4, <1>5, LeftOf DEF Only, Marks, Class, Grows, Grown
<1>6. CASE p = GenerationPrime /\ k = 3 /\ ReFeeds(run.script)
  BY <1>2, <1>4, <1>6, LeftOf DEF Only, Marks, Class, Grows, Grown
<1> QED
  BY <1>3, <1>5, <1>6

LEMMA LeftAtForward ==
  ASSUME run.script \in Scripts, Control, At("forward")
  PROVE  /\ Left("forward")
         /\ Only({"forward", "append", "append_grown", "keep_past"})
         /\ Left("append") <=> Appends(run.script)
         /\ Left("append_grown") <=> Grown(run.script)
         /\ Left("keep_past") <=> Resident(run.script) \/ ReFeeds(run.script)
         /\ \/ Appends(run.script) \/ Grown(run.script) \/ Resident(run.script)
            \/ ReFeeds(run.script) \/ Rebuilds(run.script)
<1>1. PICK p, k : Located(p, k, "forward")
  BY Locate
<1>2. Table(run.script) /\ Class(run.script)
  BY ScriptTable, ClassTable
<1>3. \/ p = _forward_step /\ k = 3 /\ Appends(run.script)
      \/ p = _forward_step_streaming /\ k = 2 /\ Grown(run.script)
      \/ p = GroupedBody /\ k = 3 /\ Grown(run.script)
      \/ p = ResidentBody /\ k = 1 /\ (Resident(run.script) \/ ReFeeds(run.script))
      \/ p = PagedBody /\ k = 6 /\ Rebuilds(run.script)
  <2>1. Named(p, run.script) /\ k \in 1 .. Len(p) /\ p[k] = "forward"
    BY <1>1, NameOf DEF Located
  <2> QED
    BY <2>1, PlaceOf DEF Named, Grows, Grown
<1>4. \A y : Left(y) <=> Among(p, k, y)
  BY <1>1 DEF Located
<1>5. CASE p = _forward_step /\ k = 3 /\ Appends(run.script)
  BY <1>2, <1>4, <1>5, LeftOf DEF Only, Marks, Class, Grows, Grown
<1>6. CASE p = _forward_step_streaming /\ k = 2 /\ Grown(run.script)
  BY <1>2, <1>4, <1>6, LeftOf DEF Only, Marks, Class, Grows, Grown
<1>7. CASE p = GroupedBody /\ k = 3 /\ Grown(run.script)
  BY <1>2, <1>4, <1>7, LeftOf DEF Only, Marks, Class, Grows, Grown
<1>8. CASE p = ResidentBody /\ k = 1 /\ (Resident(run.script) \/ ReFeeds(run.script))
  BY <1>2, <1>4, <1>8, LeftOf DEF Only, Marks, Class, Grows, Grown
<1>9. CASE p = PagedBody /\ k = 6 /\ Rebuilds(run.script)
  BY <1>2, <1>4, <1>9, LeftOf DEF Only, Marks, Class, Grows, Grown
<1> QED
  BY <1>3, <1>5, <1>6, <1>7, <1>8, <1>9

LEMMA LeftAtAppend ==
  ASSUME run.script \in Scripts, Control, At("append")
  PROVE  /\ Left("append")
         /\ Only({"append"})
         /\ Appends(run.script)
<1>1. PICK p, k : Located(p, k, "append")
  BY Locate
<1>2. Table(run.script) /\ Class(run.script)
  BY ScriptTable, ClassTable
<1>3. \/ p = _forward_step /\ k = 4 /\ Appends(run.script)
  <2>1. Named(p, run.script) /\ k \in 1 .. Len(p) /\ p[k] = "append"
    BY <1>1, NameOf DEF Located
  <2> QED
    BY <2>1, PlaceOf DEF Named, Grows, Grown
<1>4. \A y : Left(y) <=> Among(p, k, y)
  BY <1>1 DEF Located
<1>5. CASE p = _forward_step /\ k = 4 /\ Appends(run.script)
  BY <1>2, <1>4, <1>5, LeftOf DEF Only, Marks, Class, Grows, Grown
<1> QED
  BY <1>3, <1>5

LEMMA LeftAtAppendGrown ==
  ASSUME run.script \in Scripts, Control, At("append_grown")
  PROVE  /\ Left("append_grown")
         /\ Only({"append_grown"})
         /\ Grown(run.script)
<1>1. PICK p, k : Located(p, k, "append_grown")
  BY Locate
<1>2. Table(run.script) /\ Class(run.script)
  BY ScriptTable, ClassTable
<1>3. \/ p = _forward_step_streaming /\ k = 3 /\ Grown(run.script)
      \/ p = GroupedBody /\ k = 4 /\ Grown(run.script)
  <2>1. Named(p, run.script) /\ k \in 1 .. Len(p) /\ p[k] = "append_grown"
    BY <1>1, NameOf DEF Located
  <2> QED
    BY <2>1, PlaceOf DEF Named, Grows, Grown
<1>4. \A y : Left(y) <=> Among(p, k, y)
  BY <1>1 DEF Located
<1>5. CASE p = _forward_step_streaming /\ k = 3 /\ Grown(run.script)
  BY <1>2, <1>4, <1>5, LeftOf DEF Only, Marks, Class, Grows, Grown
<1>6. CASE p = GroupedBody /\ k = 4 /\ Grown(run.script)
  BY <1>2, <1>4, <1>6, LeftOf DEF Only, Marks, Class, Grows, Grown
<1> QED
  BY <1>3, <1>5, <1>6

\* No sequence has a statement twice.
LEMMA Gone ==
  ASSUME run.script \in Scripts, Control, NEW x, At(x), rest' = Tail(rest)
  PROVE  ~Left(x)'
<1>1. PICK p, k : Located(p, k, x)
  BY Locate
<1>2. /\ Named(p, run.script) /\ k \in 1 .. Len(p) /\ p[k] = x
      /\ Left(x)' <=> Among(p, k + 1, x)
  BY <1>1, NameOf DEF Located
<1>3. k + 1 \in Nat \ {0}
  BY <1>2
<1>4. CASE p = _start_session
  BY <1>2, <1>3, <1>4, PlaceOf, LeftOf
<1>5. CASE p = PolicyPrime
  BY <1>2, <1>3, <1>5, PlaceOf, LeftOf
<1>6. CASE p = GreedyPrime
  BY <1>2, <1>3, <1>6, PlaceOf, LeftOf
<1>7. CASE p = BaselinePrime
  BY <1>2, <1>3, <1>7, PlaceOf, LeftOf
<1>8. CASE p = PagedPrime
  BY <1>2, <1>3, <1>8, PlaceOf, LeftOf
<1>9. CASE p = GroupedPrime
  BY <1>2, <1>3, <1>9, PlaceOf, LeftOf
<1>10. CASE p = RoundTripPrime
  BY <1>2, <1>3, <1>10, PlaceOf, LeftOf
<1>11. CASE p = LogitsPrime
  BY <1>2, <1>3, <1>11, PlaceOf, LeftOf
<1>12. CASE p = GenerationPrime
  BY <1>2, <1>3, <1>12, PlaceOf, LeftOf
<1>13. CASE p = CachePrime
  BY <1>2, <1>3, <1>13, PlaceOf, LeftOf
<1>14. CASE p = OffloadPrime
  BY <1>2, <1>3, <1>14, PlaceOf, LeftOf
<1>15. CASE p = TracePrime
  BY <1>2, <1>3, <1>15, PlaceOf, LeftOf
<1>16. CASE p = _forward_step
  BY <1>2, <1>3, <1>16, PlaceOf, LeftOf
<1>17. CASE p = _forward_step_streaming
  BY <1>2, <1>3, <1>17, PlaceOf, LeftOf
<1>18. CASE p = ResidentBody
  BY <1>2, <1>3, <1>18, PlaceOf, LeftOf
<1>19. CASE p = PagedBody
  BY <1>2, <1>3, <1>19, PlaceOf, LeftOf
<1>20. CASE p = GroupedBody
  BY <1>2, <1>3, <1>20, PlaceOf, LeftOf
<1>21. CASE p = TraceBody
  BY <1>2, <1>3, <1>21, PlaceOf, LeftOf
<1> QED
  BY <1>2, PlaceOf, <1>4, <1>5, <1>6, <1>7, <1>8, <1>9, <1>10, <1>11, <1>12,
     <1>13, <1>14, <1>15, <1>16, <1>17, <1>18, <1>19, <1>20, <1>21
     DEF Named

LEMMA ControlDone ==
  ASSUME run.script \in Scripts, Control, NEW x, At(x), rest' = Tail(rest),
         run' = run
  PROVE  Control'
<1>1. PICK p, k : /\ p \in {run.script.prime, run.script.body}
                  /\ k \in 1 .. Len(p) + 1 /\ rest = Before(p, k)
  BY DEF Control
<1>2. p \in Seq(Statements) /\ rest # <<>>
  BY <1>1, StatementsOf DEF At
<1>3. k # Len(p) + 1
  BY <1>1, <1>2, BeforeProperties
<1>4. k \in 1 .. Len(p) /\ k + 1 \in 1 .. Len(p) + 1
  BY <1>1, <1>2, <1>3
<1>5. rest' = Before(p, k + 1)
  BY <1>1, <1>2, <1>4, BeforeProperties
<1> QED
  BY <1>1, <1>4, <1>5 DEF Control

\* The whole of a sequence is what is left from its first statement on.
LEMMA BeforeAll ==
  ASSUME NEW p \in Seq(Statements)
  PROVE  /\ p = Before(p, 1) /\ 1 \in 1 .. Len(p) + 1
         /\ \A x : (\E i \in DOMAIN p : p[i] = x) <=> Among(p, 1, x)
<1>1. Len(p) \in Nat
  OBVIOUS
<1>2. 1 \in 1 .. Len(p) + 1
  BY <1>1
<1>3. Before(p, 1) = p
  <2>1. \A i \in 1 .. Len(p) : p[i] \in Statements
    OBVIOUS
  <2>2. /\ Before(p, 1) \in Seq(Statements)
        /\ Len(Before(p, 1)) = IF 1 <= Len(p) THEN Len(p) - 1 + 1 ELSE 0
        /\ \A i \in 1 .. Len(p) - 1 + 1 : Before(p, 1)[i] = p[1 + i - 1]
    BY <1>1, <2>1, SubSeqProperties DEF Before
  <2>3. Len(Before(p, 1)) = Len(p) /\ \A i \in 1 .. Len(p) : Before(p, 1)[i] = p[i]
    BY <1>1, <2>2
  <2> HIDE DEF Before
  <2> QED
    BY ONLY <2>2, <2>3, p \in Seq(Statements), SeqEqual
<1> QED
  BY <1>2, <1>3, BeforeProperties

LEMMA LeftAtStart ==
  ASSUME run.script \in Scripts, rest = run.script.prime
  PROVE  /\ Control
         /\ Left("chunked_prefill") \/ Left("prefill") \/ Left("prefill_all")
              \/ Dummies(run.script)
         /\ Only({"chunked_prefill", "prefill", "prefill_all", "build",
                  "dummy_blocks", "keep_past", "refeed", "reconstruct_blocks"})
         /\ Left("keep_past") => Resident(run.script)
         /\ ReFeeds(run.script) => Left("refeed")
         /\ run.script = kv_roundtrip => Left("reconstruct_blocks")
         /\ Left("dummy_blocks") => Dummies(run.script)
         /\ Left("build") => ~Dummies(run.script)
<1> DEFINE p == run.script.prime
<1>1. p \in Seq(Statements)
  BY StatementsOf
<1>2. /\ p = Before(p, 1) /\ 1 \in 1 .. Len(p) + 1
      /\ \A x : Left(x) <=> Among(p, 1, x)
  BY <1>1, BeforeAll DEF Left
<1>3. Control
  BY <1>2 DEF Control
<1>4. Table(run.script) /\ Class(run.script)
  BY ScriptTable, ClassTable
<1>5. run.script \in {kv_offload, pager_integration} <=> Dummies(run.script)
  BY DEF Dummies
<1> HIDE DEF p
<1>6. \/ p \in {_start_session, PolicyPrime, GroupedPrime} /\ Grows(run.script)
      \/ p \in {GreedyPrime, BaselinePrime} /\ Resident(run.script)
      \/ p = PagedPrime /\ Rebuilds(run.script)
      \/ p = RoundTripPrime /\ run.script = kv_roundtrip
      \/ p \in {LogitsPrime, GenerationPrime} /\ ReFeeds(run.script)
      \/ /\ p = CachePrime /\ RoundTrips(run.script)
         /\ ~ReFeeds(run.script) /\ run.script # kv_roundtrip
      \/ p \in {OffloadPrime, TracePrime} /\ Dummies(run.script)
  BY <1>4, <1>5 DEF Table, Grows, Rebuilds, Appends, Streams, p
<1>7. \A y : (Left(y) <=> Among(p, 1, y))
  BY <1>2
<1> DEFINE Right ==
  /\ Left("chunked_prefill") \/ Left("prefill") \/ Left("prefill_all")
       \/ Dummies(run.script)
  /\ Only({"chunked_prefill", "prefill", "prefill_all", "build",
           "dummy_blocks", "keep_past", "refeed", "reconstruct_blocks"})
  /\ Left("keep_past") => Resident(run.script)
  /\ ReFeeds(run.script) => Left("refeed")
  /\ run.script = kv_roundtrip => Left("reconstruct_blocks")
  /\ Left("dummy_blocks") => Dummies(run.script)
  /\ Left("build") => ~Dummies(run.script)
<1>8. ASSUME p \in {_start_session, PolicyPrime, GroupedPrime} /\ Grows(run.script)
      PROVE  Right
  BY <1>4, <1>7, <1>8, LeftOf DEF Only, Marks, Class
<1>9. ASSUME p \in {GreedyPrime, BaselinePrime} /\ Resident(run.script)
      PROVE  Right
  BY <1>4, <1>7, <1>9, LeftOf DEF Only, Marks, Class
<1>10. ASSUME p = PagedPrime /\ Rebuilds(run.script)
      PROVE  Right
  BY <1>4, <1>7, <1>10, LeftOf DEF Only, Marks, Class
<1>11. ASSUME p = RoundTripPrime /\ run.script = kv_roundtrip
      PROVE  Right
  BY <1>4, <1>7, <1>11, LeftOf DEF Only, Marks, Class
<1>12. ASSUME p \in {LogitsPrime, GenerationPrime} /\ ReFeeds(run.script)
      PROVE  Right
  BY <1>4, <1>7, <1>12, LeftOf DEF Only, Marks, Class
<1>13. ASSUME /\ p = CachePrime /\ RoundTrips(run.script)
               /\ ~ReFeeds(run.script) /\ run.script # kv_roundtrip
      PROVE  Right
  BY <1>4, <1>7, <1>13, LeftOf DEF Only, Marks, Class
<1>14. ASSUME p \in {OffloadPrime, TracePrime} /\ Dummies(run.script)
      PROVE  Right
  BY <1>4, <1>7, <1>14, LeftOf DEF Only, Marks, Class
<1> HIDE DEF Right
<1>15. Right
  BY ONLY <1>6, <1>8, <1>9, <1>10, <1>11, <1>12, <1>13, <1>14
<1> QED
  BY <1>3, <1>15 DEF Right

LEMMA LeftAtRound ==
  ASSUME run.script \in Scripts, NextRound
  PROVE  /\ Control'
         /\ \A y : ~Left(y)
         /\ \A y \in Marks : Left(y)' => y \in {"rebuild", "reconstruct", "stream",
              "forward", "append", "append_grown", "keep_past"}
         /\ Appends(run.script) \/ Rebuilds(run.script) => Left("reconstruct")'
         /\ Grown(run.script) => Left("stream")'
         /\ Grown(run.script) <=> Left("append_grown")'
         /\ Grows(run.script) => Left("forward")'
         /\ Rebuilds(run.script) <=> Left("rebuild")'
         /\ Resident(run.script) \/ ReFeeds(run.script) =>
              Left("forward")' /\ ~Left("append")' /\ ~Left("append_grown")'
         /\ run.script # kv_roundtrip
         /\ Left("append")' => Appends(run.script)
         /\ Left("keep_past")' => Resident(run.script) \/ ReFeeds(run.script)
         /\ Left("forward")' => Grows(run.script) \/ Resident(run.script)
              \/ ReFeeds(run.script) \/ Rebuilds(run.script)
<1> DEFINE p == run.script.body
<1>1. p \in Seq(Statements) /\ rest' = p /\ rest = <<>> /\ p # <<>> /\ run' = run
  BY StatementsOf DEF NextRound
<1>2. /\ p = Before(p, 1) /\ 1 \in 1 .. Len(p) + 1
      /\ \A x : Left(x)' <=> Among(p, 1, x)
  BY <1>1, BeforeAll DEF Left
<1>3. Control'
  BY <1>1, <1>2 DEF Control
<1>4. Table(run.script) /\ Class(run.script)
  BY ScriptTable, ClassTable
<1>5. \A y : ~Left(y)
  BY <1>1 DEF Left
<1>6. Named(p, run.script) /\ p # <<>>
  BY <1>1, NameOf
<1>7. run.script # kv_roundtrip
  BY <1>1 DEF kv_roundtrip, Script
<1>8. run.script \in {kv_offload, pager_integration} => Dummies(run.script)
  BY DEF Dummies
<1>9. /\ Appends(run.script) <=> p = _forward_step
      /\ Streams(run.script) <=> p = _forward_step_streaming
  BY DEF Appends, Streams
<1>10. \/ p = _forward_step /\ Appends(run.script)
       \/ p = _forward_step_streaming /\ Streams(run.script)
       \/ p = GroupedBody /\ Grown(run.script)
       \/ p = ResidentBody /\ (Resident(run.script) \/ ReFeeds(run.script))
       \/ p = PagedBody /\ Rebuilds(run.script)
       \/ p = TraceBody /\ Dummies(run.script)
  BY <1>1, <1>4, <1>8, <1>9 DEF Table, Grown, Rebuilds
<1> HIDE DEF p
<1> QED
  BY <1>2, <1>3, <1>4, <1>5, <1>7, <1>10, LeftOf
     DEF Marks, Class, Grows, Grown, Rebuilds

-----------------------------------------------------------------------------
(* The invariant about the text *)

\* The prompt is prefilled.
Filling == Left("chunked_prefill") \/ Left("prefill") \/ Left("prefill_all")
\* A token was fed that the store does not have.
Growing == (Left("append") \/ Left("append_grown")) /\ ~Left("forward")
\* The store has the text of the session.
Storing ==
  IF Rebuilds(run.script)
  THEN Left("reconstruct") /\ ~Left("rebuild")
  ELSE /\ ~Resident(run.script) /\ ~Dummies(run.script)
       /\ ~Filling /\ ~Left("build")
\* So has the cache that the last forward returned.
Whole ==
  /\ ~Filling
  /\ \/ Rebuilds(run.script)
     \/ (Left("append") \/ Left("keep_past")) /\ ~Left("forward")
\* The next forward has the context it needs.
Ready ==
  \/ /\ Left("forward") /\ ~Left("reconstruct") /\ ~Left("stream")
     /\ ~Resident(run.script) /\ ~ReFeeds(run.script)
  \/ /\ Resident(run.script) \/ ReFeeds(run.script)
     /\ ~Filling /\ ~Left("build") /\ ~Left("reconstruct_blocks")
     /\ Left("keep_past") => Left("forward")
Recached == run.script = kv_roundtrip /\ ~Left("reconstruct_blocks")

\* The token fed first, the tokens fed so far, those the store is to have, and
\* those it has.
First ==
  IF ReFeeds(run.script) THEN (run.prompt \div T) * T + 1 ELSE run.prompt
Fed == First - 1 + Len(generated)
Text == IF RoundTrips(run.script) THEN run.prompt ELSE Fed
Blocks == next + Len(pending)
Held == Blocks * T + Len(tailPast)

TextTypes ==
  /\ run \in Runs
  /\ Control
  /\ next \in Nat
  /\ generated \in Seq(Nat)
  /\ pending \in Seq(Seq(Nat))
  /\ tailPast \in Seq(Nat)
  /\ content \in [Ids -> Seq(Nat)]

Fresh ==
  /\ Filling \/ Left("build") \/ Left("refeed") \/ Left("reconstruct_blocks") =>
       generated = <<>>
  /\ Filling \/ Left("build") => next = 0 /\ pending = <<>> /\ tailPast = <<>>
  /\ Filling => Len(past) \in 0 .. run.prompt - 1 /\ past = Upto(Len(past))
  /\ Left("build") /\ ~Filling => past = Upto(Text)
  /\ Resident(run.script) => next = 0 /\ pending = <<>>

TokensRight ==
  /\ \A i \in 1 .. Len(generated) : generated[i] = First + i
  /\ ~Left("refeed") => input = First + Len(generated)

BlocksRight ==
  ~Dummies(run.script) =>
    /\ \A b \in Registered : content[b] = Block(b)
    /\ \A i \in 1 .. Len(pending) : pending[i] = Block(next + i - 1)
    /\ Len(tailPast) \in 0 .. T - 1
    /\ tailPast = Segment(Blocks * T, Len(tailPast))

StoreRight == Storing => Held = IF Growing THEN Text - 1 ELSE Text

CachesRight ==
  /\ Whole => past = Upto(Fed)
  /\ Left("append_grown") /\ ~Left("forward") =>
       pending = <<>> /\ past = Segment(next * T, Len(tailPast) + 1)
  /\ Ready => IF Left("append_grown")
              THEN /\ pending = <<>>
                   /\ streamed = Upto(next * T) /\ cache = tailPast
              ELSE streamed = <<>> /\ cache = Upto(Fed)
  /\ Resident(run.script) \/ RoundTrips(run.script) => streamed = <<>>
  /\ Recached => cache = Upto(next * T) /\ pending = <<>>

TextInv ==
  TextTypes /\ Fresh /\ TokensRight /\ BlocksRight /\ StoreRight /\ CachesRight

LEMMA RunFacts ==
  ASSUME run \in Runs
  PROVE  /\ run.script \in Scripts
         /\ run.prompt \in Nat \ {0} /\ run.chunk \in Nat \ {0}
         /\ Class(run.script)
<1>1. /\ run.script \in Scripts /\ run.prompt \in Prompts /\ run.chunk \in Chunks
  BY DEF Runs
<1> QED
  BY <1>1, GenerationAssumption, ClassTable

LEMMA Numbers ==
  ASSUME TextTypes
  PROVE  /\ run.script \in Scripts
         /\ run.prompt \in Nat \ {0} /\ run.chunk \in Nat \ {0}
         /\ Class(run.script)
         /\ next \in Nat /\ Len(pending) \in Nat /\ Blocks \in Nat
         /\ Len(generated) \in Nat /\ Len(tailPast) \in Nat
         /\ First \in Nat \ {0} /\ Fed \in Nat /\ Text \in Nat
         /\ Blocks * T \in Nat /\ next * T \in Nat
         /\ Held = Blocks * T + Len(tailPast)
<1>1. /\ run.script \in Scripts
      /\ run.prompt \in Nat \ {0} /\ run.chunk \in Nat \ {0}
      /\ Class(run.script)
  BY RunFacts DEF TextTypes
<1>2. /\ next \in Nat /\ Len(pending) \in Nat
      /\ Len(generated) \in Nat /\ Len(tailPast) \in Nat
  BY DEF TextTypes
<1>3. Blocks \in Nat
  BY <1>2 DEF Blocks
<1>4. Blocks * T \in Nat /\ next * T \in Nat
  BY <1>2, <1>3, Products
<1>5. First \in Nat \ {0}
  <2>1. run.prompt \div T \in Nat
    BY <1>1, DivMod
  <2>2. (run.prompt \div T) * T \in Nat
    BY <2>1, Products
  <2> QED
    BY <1>1, <2>2 DEF First
<1>6. Fed \in Nat
  BY <1>2, <1>5 DEF Fed
<1>7. Text \in Nat
  BY <1>1, <1>6 DEF Text
<1> QED
  BY <1>1, <1>2, <1>3, <1>4, <1>5, <1>6, <1>7 DEF Held

LEMMA TextInit == GenInit => TextInv
<1> SUFFICES ASSUME GenInit PROVE TextInv
  OBVIOUS
<1>1. /\ run \in Runs /\ rest = run.script.prime /\ next = 0
      /\ pending = <<>> /\ content = [b \in Ids |-> <<>>] /\ tailPast = <<>>
      /\ past = <<>> /\ streamed = <<>> /\ input = run.prompt /\ generated = <<>>
  BY DEF GenInit, Init
<1>2. run.script \in Scripts /\ Class(run.script) /\ run.prompt \in Nat \ {0}
  BY <1>1, RunFacts
<1>3. /\ Control
      /\ Filling \/ Dummies(run.script)
      /\ Only({"chunked_prefill", "prefill", "prefill_all", "build",
               "dummy_blocks", "keep_past", "refeed", "reconstruct_blocks"})
      /\ Left("keep_past") => Resident(run.script)
      /\ ReFeeds(run.script) => Left("refeed")
      /\ run.script = kv_roundtrip => Left("reconstruct_blocks")
      /\ Left("build") => ~Dummies(run.script)
  BY <1>1, <1>2, LeftAtStart DEF Filling
<1>4. /\ ~Left("forward") /\ ~Left("append") /\ ~Left("append_grown")
      /\ ~Left("reconstruct")
  BY <1>3 DEF Only, Marks
<1>5. /\ <<>> \in Seq(Nat) /\ <<>> \in Seq(Seq(Nat)) /\ Len(<<>>) = 0
  OBVIOUS
<1>6. TextTypes
  BY <1>1, <1>3, <1>5 DEF TextTypes
<1>7. Upto(0) = <<>> /\ Segment(0, 0) = <<>>
  BY <1>5, EmptySeq, SegmentProperties, 0 \in Nat
<1>8. Fresh
  BY <1>1, <1>2, <1>3, <1>5, <1>7 DEF Fresh, Class
<1>9. TokensRight
  BY <1>1, <1>2, <1>3, <1>5 DEF TokensRight, First
<1>10. BlocksRight
  <2>1. Registered = {}
    BY <1>1 DEF Registered
  <2>2. Blocks * T = 0
    BY <1>1, <1>5, TIsPositive DEF Blocks
  <2> QED
    BY <1>1, <1>5, <1>7, <2>1, <2>2, TIsPositive DEF BlocksRight
<1>11. StoreRight
  BY <1>2, <1>3, <1>4 DEF StoreRight, Storing, Class
<1>12. CachesRight
  BY <1>1, <1>2, <1>3, <1>4 DEF CachesRight, Whole, Ready, Recached, Class
<1> QED
  BY <1>6, <1>8, <1>9, <1>10, <1>11, <1>12 DEF TextInv

\* A step that changes none of the state the invariant is about, and passes no
\* statement that marks a place in the script.
LEMMA TextSame ==
  ASSUME TextInv, Control',
         UNCHANGED <<next, run, pending, content, tailPast, past, cache,
                     streamed, input, generated>>,
         \A y \in Marks : Left(y)' <=> Left(y)
  PROVE  TextInv'
<1>2. /\ Filling' <=> Filling
      /\ Left("build")' <=> Left("build")
      /\ Left("refeed")' <=> Left("refeed")
      /\ Left("reconstruct_blocks")' <=> Left("reconstruct_blocks")
      /\ Left("forward")' <=> Left("forward")
      /\ Left("append_grown")' <=> Left("append_grown")
      /\ Growing' <=> Growing
      /\ Storing' <=> Storing
      /\ Whole' <=> Whole
      /\ Ready' <=> Ready
      /\ Recached' <=> Recached
  BY DEF Marks, Filling, Growing, Storing, Whole, Ready, Recached
<1>3. First' = First /\ Fed' = Fed /\ Text' = Text /\ Blocks' = Blocks /\ Held' = Held
  BY DEF First, Fed, Text, Blocks, Held
<1>4. TextTypes'
  BY DEF TextInv, TextTypes
<1>5. Fresh'
  BY <1>2, <1>3 DEF TextInv, Fresh
<1>6. TokensRight'
  BY <1>2, <1>3 DEF TextInv, TokensRight
<1>7. BlocksRight'
  BY <1>2, <1>3 DEF TextInv, BlocksRight, Registered
<1>8. StoreRight'
  BY <1>2, <1>3 DEF TextInv, StoreRight
<1>9. CachesRight'
  BY <1>2, <1>3 DEF TextInv, CachesRight
<1> QED
  BY <1>4, <1>5, <1>6, <1>7, <1>8, <1>9 DEF TextInv

LEMMA Passed ==
  ASSUME TextTypes, NEW x, At(x), Done
  PROVE  /\ Control' /\ run' = run /\ pending = <<>>
         /\ \A y \in Marks : y # x => (Left(y)' <=> Left(y))
         /\ ~Left(x)'
BY RunFacts, ControlDone, Mapped, Gone DEF TextTypes, At, Done

LEMMA SameRun ==
  ASSUME run' = run
  PROVE  /\ First' = First
         /\ generated' = generated => Fed' = Fed /\ Text' = Text
         /\ next' = next /\ pending' = pending => Blocks' = Blocks
         /\ next' = next /\ pending' = pending /\ tailPast' = tailPast => Held' = Held
BY DEF First, Fed, Text, Blocks, Held

LEMMA MinOfTwo ==
  ASSUME NEW a \in Nat, NEW b \in Nat
  PROVE  Min({a, b}) = IF a <= b THEN a ELSE b
<1> DEFINE m == IF a <= b THEN a ELSE b
<1>1. m \in {a, b} /\ \A y \in {a, b} : m <= y
  OBVIOUS
<1>2. \A x \in {a, b} : (\A y \in {a, b} : x <= y) => x = m
  BY <1>1
<1> QED
  BY <1>1, <1>2 DEF Min

\* The chunk is computed after the text before it.
LEMMA ChunkText ==
  ASSUME NEW l \in Nat, NEW n \in Nat, l <= n, past = Upto(l)
  PROVE  [i \in DOMAIN Upto(n) |->
            IF i \in DOMAIN past THEN past[i]
            ELSE Encode(past \o SubSeq(Upto(n), Len(past) + 1, i - 1), i)]
           = Upto(n)
<1>1. Segment(0, l) = Upto(l) /\ Segment(0, n) = Upto(n)
  BY SegmentProperties
<1>2. /\ DOMAIN Upto(n) = 1 .. n /\ DOMAIN past = 1 .. l /\ Len(past) = l
      /\ \A i \in 1 .. l : past[i] = i
  BY DEF Upto
<1>3. ASSUME NEW i \in 1 .. n, i \notin 1 .. l
      PROVE  Encode(past \o SubSeq(Upto(n), l + 1, i - 1), i) = i
  <2>1. PICK c \in Nat : c = i - 1 /\ l <= c /\ c <= n
    BY <1>3
  <2>2. Part(Segment(0, n), l + 1, c) = Segment(l, c - l)
    BY <2>1, SubSegment, 0 \in Nat, 0 + l = l
  <2>3. Segment(0, l) \o Segment(l, c - l) = Segment(0, c)
    <3>1. PICK d \in Nat : d = c - l
      BY <2>1
    <3>2. Segment(0, l) \o Segment(0 + l, d) = Segment(0, l + d)
      BY ConcatSegments, 0 \in Nat
    <3>3. 0 + l = l /\ l + d = c
      BY <2>1, <3>1
    <3> QED
      BY ONLY <3>1, <3>2, <3>3
  <2>4. past \o SubSeq(Upto(n), l + 1, i - 1) = Segment(0, c)
    BY <1>1, <2>1, <2>2, <2>3 DEF Part
  <2>5. Encode(Segment(0, c), c + 1) = c + 1 /\ c + 1 = i
    BY <2>1, EncodeNext
  <2> QED
    BY ONLY <2>4, <2>5
<1>4. [i \in DOMAIN Upto(n) |->
            IF i \in DOMAIN past THEN past[i]
            ELSE Encode(past \o SubSeq(Upto(n), Len(past) + 1, i - 1), i)]
        = [i \in 1 .. n |-> i]
  BY <1>2, <1>3
<1> QED
  BY <1>4 DEF Upto

LEMMA ChunkedPrefillText == TextInv /\ ChunkedPrefill => TextInv'
<1> SUFFICES ASSUME TextInv, ChunkedPrefill PROVE TextInv'
  OBVIOUS
<1>1. /\ At("chunked_prefill") /\ run.prompt > 1 /\ run' = run
      /\ UNCHANGED <<next, pending, content, tailPast, cache, streamed, input,
                     generated>>
      /\ past' = [i \in DOMAIN Chunk |->
                    IF i \in DOMAIN past THEN past[i]
                    ELSE Encode(past \o SubSeq(Chunk, Len(past) + 1, i - 1), i)]
      /\ IF Len(past') = run.prompt - 1 THEN rest' = Tail(rest) ELSE rest' = rest
  BY DEF ChunkedPrefill, vars
<1>2. /\ TextTypes /\ run.script \in Scripts /\ run.prompt \in Nat \ {0}
      /\ run.chunk \in Nat \ {0} /\ Class(run.script) /\ Len(generated) \in Nat
  BY Numbers DEF TextInv
<1>3. /\ Left("chunked_prefill") /\ Filling
      /\ Only({"chunked_prefill", "build", "keep_past"})
      /\ Grows(run.script) \/ Resident(run.script)
      /\ Left("build") <=> Grows(run.script)
      /\ Left("keep_past") <=> Resident(run.script)
  BY <1>1, <1>2, LeftAtChunkedPrefill DEF TextTypes, Filling
<1>4. /\ Len(past) \in 0 .. run.prompt - 1 /\ past = Upto(Len(past))
      /\ generated = <<>> /\ next = 0 /\ pending = <<>> /\ tailPast = <<>>
  BY <1>3 DEF TextInv, Fresh
<1>5. PICK n \in Nat : n = Min({Len(past) + run.chunk, run.prompt - 1})
                       /\ Len(past) <= n /\ n <= run.prompt - 1
  <2>1. Len(past) + run.chunk \in Nat /\ run.prompt - 1 \in Nat
    BY <1>1, <1>2, <1>4
  <2> QED
    BY <1>2, <1>4, <2>1, MinOfTwo
<1>6. past' = Upto(n) /\ Len(past') = n
  <2>1. Len(past) \in Nat
    BY <1>2, <1>4
  <2>2. Chunk = Upto(n)
    BY <1>5 DEF Chunk
  <2>3. past' = Upto(n)
    BY ONLY <1>1, <1>4, <1>5, <2>1, <2>2, ChunkText
  <2> QED
    BY <2>3 DEF Upto
<1>7. /\ Control'
      /\ \A y \in Marks : y # "chunked_prefill" => (Left(y)' <=> Left(y))
      /\ ~Left("chunked_prefill")' => n = run.prompt - 1
      /\ Left("chunked_prefill")' => Filling'
  <2>1. CASE n = run.prompt - 1
    <3>1. Done
      BY <1>1, <1>6, <2>1 DEF Done
    <3> QED
      BY <1>1, <1>2, <2>1, <3>1, Passed DEF Filling
  <2>2. CASE n # run.prompt - 1
    <3>1. rest' = rest
      BY <1>1, <1>6, <2>2
    <3>2. \A y : Left(y)' <=> Left(y)
      BY <3>1 DEF Left
    <3>3. Control'
      BY <1>1, <1>2, <3>1 DEF TextTypes, Control
    <3> QED
      BY <1>3, <3>2, <3>3 DEF Filling
  <2> QED
    BY <2>1, <2>2
<1>8. /\ ~Left("forward")' /\ ~Left("append")' /\ ~Left("append_grown")'
      /\ ~Left("prefill")' /\ ~Left("prefill_all")' /\ ~Left("reconstruct")'
      /\ ~Left("refeed")' /\ ~Left("reconstruct_blocks")'
      /\ Left("build")' <=> Left("build")
      /\ Left("keep_past")' <=> Left("keep_past")
      /\ ~Left("forward")
  BY <1>3, <1>7 DEF Only, Marks
<1>9. /\ ~ReFeeds(run.script) /\ ~RoundTrips(run.script)
      /\ First = run.prompt /\ Fed = run.prompt - 1 /\ Text = Fed
      /\ First' = First /\ Fed' = Fed /\ Text' = Text
      /\ run.script # kv_roundtrip /\ ~Rebuilds(run.script)
      /\ ~Dummies(run.script)
  <2>1. Len(<<>>) = 0
    OBVIOUS
  <2> QED
    BY <1>1, <1>2, <1>3, <1>4, <2>1, SameRun DEF Class, First, Fed, Text
<1>10. TextTypes'
  BY <1>1, <1>2, <1>7 DEF TextTypes
<1>11. Fresh'
  <2>1. /\ generated' = <<>> /\ next' = 0 /\ pending' = <<>> /\ tailPast' = <<>>
    BY <1>1, <1>4
  <2>2. Len(past') \in 0 .. run.prompt - 1 /\ past' = Upto(Len(past'))
    BY <1>2, <1>5, <1>6
  <2>3. ~Filling' => past' = Upto(Text)
    BY <1>6, <1>7, <1>9
  <2> QED
    BY <1>1, <1>9, <2>1, <2>2, <2>3 DEF Fresh
<1>12. TokensRight'
  BY <1>1, <1>3, <1>8, <1>9 DEF TokensRight, TextInv, Only, Marks
<1>13. BlocksRight'
  BY <1>1 DEF TextInv, BlocksRight, Registered, Blocks
<1>14. StoreRight'
  BY <1>1, <1>3, <1>7, <1>8, <1>9 DEF StoreRight, Storing, Class
<1>15. CachesRight'
  <2>1. ~Ready' /\ ~Recached'
    BY <1>1, <1>3, <1>8, <1>9, <1>7 DEF Ready, Recached, Class
  <2> QED
    BY <1>1, <1>5, <1>6, <1>7, <1>8, <1>9, <2>1 DEF CachesRight, Whole, TextInv
<1> QED
  BY <1>10, <1>11, <1>12, <1>13, <1>14, <1>15 DEF TextInv

LEMMA PrefillText == TextInv /\ Prefill => TextInv'
<1> SUFFICES ASSUME TextInv, Prefill PROVE TextInv'
  OBVIOUS
<1>1. /\ run' = run /\ Done
      /\ UNCHANGED <<next, pending, content, tailPast, cache, streamed, input,
                     generated>>
  BY DEF Prefill, vars, Done
<1>2. /\ TextTypes /\ run.script \in Scripts /\ run.prompt \in Nat \ {0}
      /\ Class(run.script) /\ Len(generated) \in Nat
  BY Numbers DEF TextInv
<1>3. /\ First' = First /\ Fed' = Fed /\ Text' = Text
  BY <1>1, SameRun
<1>4. BlocksRight'
  BY <1>1 DEF TextInv, BlocksRight, Registered, Blocks
<1>5. Len(<<>>) = 0
  OBVIOUS
<1>6. CASE At("prefill") /\ past' = Upto(run.prompt - 1)
  <2>1. /\ Left("prefill") /\ Filling
        /\ Only({"prefill", "build", "keep_past"})
        /\ Grows(run.script) \/ Resident(run.script) \/ Rebuilds(run.script)
        /\ Left("build") <=> Grows(run.script)
        /\ Left("keep_past") <=> Resident(run.script)
    BY <1>2, <1>6, LeftAtPrefill DEF TextTypes, Filling
  <2>2. /\ generated = <<>> /\ next = 0 /\ pending = <<>> /\ tailPast = <<>>
    BY <2>1 DEF TextInv, Fresh
  <2>3. /\ Control' /\ ~Left("prefill")'
        /\ \A y \in Marks : y # "prefill" => (Left(y)' <=> Left(y))
    BY <1>1, <1>2, <1>6, Passed
  <2>4. /\ ~Left("forward")' /\ ~Left("append")' /\ ~Left("append_grown")'
        /\ ~Filling' /\ ~Left("reconstruct")'
        /\ ~Left("refeed")' /\ ~Left("reconstruct_blocks")'
        /\ Left("build")' <=> Left("build")
        /\ Left("keep_past")' <=> Left("keep_past")
        /\ ~Left("refeed")
    BY <2>1, <2>3 DEF Only, Marks, Filling
  <2>5. /\ ~ReFeeds(run.script) /\ ~RoundTrips(run.script)
        /\ First = run.prompt /\ Fed = run.prompt - 1 /\ Text = Fed
        /\ run.script # kv_roundtrip /\ ~Dummies(run.script)
    BY <1>2, <1>5, <2>1, <2>2 DEF Class, First, Fed, Text
  <2>6. TextTypes'
    BY <1>1, <1>2, <2>3 DEF TextTypes
  <2>7. Fresh'
    BY <1>1, <1>3, <1>6, <2>2, <2>4, <2>5 DEF Fresh, TextInv
  <2>8. TokensRight'
    BY <1>1, <1>3, <2>4 DEF TokensRight, TextInv
  <2>9. StoreRight'
    BY <1>1, <1>2, <2>1, <2>4, <2>5 DEF StoreRight, Storing, Class
  <2>10. CachesRight'
    <3>1. ~Ready'
      BY <1>1, <2>1, <2>4, <2>5 DEF Ready
    <3> QED
      BY <1>1, <1>3, <1>6, <2>4, <2>5, <3>1
         DEF CachesRight, Whole, Recached, TextInv
  <2> QED
    BY <1>4, <2>6, <2>7, <2>8, <2>9, <2>10 DEF TextInv
<1>7. CASE At("prefill_all") /\ past' = Upto(run.prompt)
  <2>1. /\ Left("prefill_all") /\ Filling /\ RoundTrips(run.script) /\ Left("build")
        /\ Only({"prefill_all", "build", "refeed", "reconstruct_blocks"})
    BY <1>2, <1>7, LeftAtPrefillAll DEF TextTypes, Filling
  <2>2. /\ generated = <<>> /\ next = 0 /\ pending = <<>> /\ tailPast = <<>>
    BY <2>1 DEF TextInv, Fresh
  <2>3. /\ Control'
        /\ \A y \in Marks : y # "prefill_all" => (Left(y)' <=> Left(y))
        /\ ~Left("prefill_all")'
    BY <1>1, <1>2, <1>7, Passed
  <2>4. /\ ~Left("forward")' /\ ~Left("append")' /\ ~Left("append_grown")'
        /\ ~Filling' /\ ~Left("keep_past")' /\ Left("build")'
        /\ Left("refeed")' <=> Left("refeed")
        /\ Left("reconstruct_blocks")' <=> Left("reconstruct_blocks")
    BY <2>1, <2>3 DEF Only, Marks, Filling
  <2>5. /\ Text = run.prompt /\ ~Resident(run.script) /\ ~Rebuilds(run.script)
    BY <1>2, <2>1 DEF Class, Text
  <2>6. TextTypes'
    BY <1>1, <1>2, <2>3 DEF TextTypes
  <2>7. Fresh'
    BY <1>1, <1>3, <1>7, <2>2, <2>4, <2>5 DEF Fresh, TextInv
  <2>8. TokensRight'
    BY <1>1, <1>3, <2>4 DEF TokensRight, TextInv
  <2>9. StoreRight'
    BY <1>1, <2>4, <2>5 DEF StoreRight, Storing
  <2>10. CachesRight'
    <3>1. run.script = kv_roundtrip => Left("reconstruct_blocks")
      BY <1>2, <1>7, LeftAtPrefillAll DEF TextTypes
    <3> QED
      BY <1>1, <1>3, <1>7, <2>4, <2>5, <3>1
         DEF CachesRight, Whole, Recached, Ready, TextInv
  <2> QED
    BY <1>4, <2>6, <2>7, <2>8, <2>9, <2>10 DEF TextInv
<1> QED
  BY <1>6, <1>7 DEF Prefill

\* A cache that holds the first n tokens, cut into blocks and a tail.
LEMMA CutText ==
  ASSUME NEW n \in Nat, past = Upto(n)
  PROVE  LET kv == split_full_blocks_and_tail(past)
             blocks == real_past_to_blocks(kv.full)
         IN  /\ kv.full = Segment(0, (n \div T) * T)
             /\ Len(blocks) = n \div T /\ blocks \in Seq(Seq(Nat))
             /\ \A i \in 1 .. n \div T : blocks[i] = Block(i - 1)
             /\ kv.tail = Segment((n \div T) * T, n % T)
             /\ n % T \in 0 .. T - 1 /\ (n \div T) * T + (n % T) = n
             /\ n \div T \in Nat
<1>1. /\ n \div T \in Nat /\ n % T \in 0 .. T - 1 /\ (n \div T) * T + (n % T) = n
      /\ (n \div T) * T \in Nat
  BY DivMod, Products
<1>2. PICK m \in Nat : m = n \div T
  BY <1>1
<1>3. 0 * T = 0 /\ 0 + m = m /\ \A i \in 1 .. m : 0 + i - 1 = i - 1
  BY TIsPositive
<1>4. past = Segment(0 * T, n)
  BY <1>3, SegmentProperties
<1>5. /\ split_full_blocks_and_tail(past).full = Segment(0, m * T)
      /\ split_full_blocks_and_tail(past).tail = Segment(m * T, n % T)
  <2>1. LET kv == split_full_blocks_and_tail(Segment(0 * T, n)) IN
          /\ kv.full = Segment(0 * T, (n \div T) * T)
          /\ kv.tail = Segment((0 + n \div T) * T, n % T)
    BY SplitOf, 0 \in Nat
  <2>2. /\ split_full_blocks_and_tail(past).full = Segment(0 * T, m * T)
        /\ split_full_blocks_and_tail(past).tail = Segment((0 + m) * T, n % T)
    BY ONLY <1>2, <1>4, <2>1
  <2> QED
    BY ONLY <1>3, <2>2
<1>6. real_past_to_blocks(Segment(0, m * T)) = [i \in 1 .. m |-> Block(i - 1)]
  <2>1. real_past_to_blocks(Segment(0 * T, m * T)) = [i \in 1 .. m |-> Block(0 + i - 1)]
    BY BlocksOf, 0 \in Nat
  <2> QED
    BY ONLY <1>3, <2>1
<1>7. \A i \in 1 .. m : Block(i - 1) \in Seq(Nat)
  <2>1. ASSUME NEW i \in 1 .. m PROVE Block(i - 1) \in Seq(Nat)
    <3>1. (i - 1) * T \in Nat
      BY Products, i - 1 \in Nat
    <3> QED
      BY <3>1, SegmentProperties, TIsPositive DEF Block
  <2> QED
    BY <2>1
<1>8. PICK B : B = [i \in 1 .. m |-> Block(i - 1)]
  OBVIOUS
<1>9. B \in Seq(Seq(Nat)) /\ Len(B) = m /\ \A i \in 1 .. m : B[i] = Block(i - 1)
  BY <1>7, <1>8
<1>10. real_past_to_blocks(split_full_blocks_and_tail(past).full) = B
  BY ONLY <1>5, <1>6, <1>8
<1> QED
  BY ONLY <1>1, <1>2, <1>5, <1>9, <1>10

LEMMA BuildText == TextInv /\ (Build \/ Rebuild) => TextInv'
<1> SUFFICES ASSUME TextInv, Build \/ Rebuild PROVE TextInv'
  OBVIOUS
<1>1. /\ run' = run /\ Done
      /\ UNCHANGED <<content, past, cache, streamed, input, generated>>
      /\ pending' = real_past_to_blocks(split_full_blocks_and_tail(past).full)
      /\ tailPast' = split_full_blocks_and_tail(past).tail
  BY DEF Build, Rebuild, vars, Done
<1>2. /\ TextTypes /\ run.script \in Scripts /\ run.prompt \in Nat \ {0}
      /\ Class(run.script) /\ Len(generated) \in Nat /\ Text \in Nat
  BY Numbers DEF TextInv
<1>3. /\ First' = First /\ Fed' = Fed /\ Text' = Text
  BY <1>1, SameRun
<1>4. /\ next' = 0 /\ past = Upto(Text) /\ Control'
      /\ ~Filling' /\ ~Left("build")' /\ ~Left("rebuild")'
      /\ ~Growing' /\ ~Ready' /\ ~Recached' /\ ~Left("append_grown")'
      /\ Whole' => Rebuilds(run.script)
      /\ Rebuilds(run.script) => past = Upto(Fed)
      /\ Left("refeed")' <=> Left("refeed")
      /\ Left("refeed")' \/ Left("reconstruct_blocks")' => generated = <<>>
      /\ ~Resident(run.script)
  <2>1. CASE Build
    <3>1. At("build")
      BY <2>1 DEF Build
    <3>2. /\ Left("build") /\ Only({"build", "refeed", "reconstruct_blocks"})
          /\ Grows(run.script) \/ RoundTrips(run.script)
          /\ Left("reconstruct_blocks") <=> ReFeeds(run.script) \/ run.script = kv_roundtrip
          /\ Left("refeed") <=> ReFeeds(run.script)
      BY <1>2, <3>1, LeftAtBuild DEF TextTypes
    <3>3. /\ Control' /\ ~Left("build")'
          /\ \A y \in Marks : y # "build" => (Left(y)' <=> Left(y))
      BY <1>1, <1>2, <3>1, Passed
    <3>4. ~Filling /\ next = 0 /\ past = Upto(Text) /\ generated = <<>>
      BY <3>2 DEF TextInv, Fresh, Filling, Only, Marks
    <3>5. next' = next
      BY <2>1 DEF Build, vars
    <3>6. /\ ~Left("forward")' /\ ~Left("append")' /\ ~Left("append_grown")'
          /\ ~Filling' /\ ~Left("keep_past")' /\ ~Left("rebuild")'
          /\ Left("refeed")' <=> Left("refeed")
          /\ Left("reconstruct_blocks")' <=> Left("reconstruct_blocks")
      BY <3>2, <3>3 DEF Only, Marks, Filling
    <3>7. ~Resident(run.script) /\ ~Rebuilds(run.script)
      BY <1>2, <3>2 DEF Class
    <3> QED
      BY <1>1, <3>2, <3>3, <3>4, <3>5, <3>6, <3>7 DEF Growing, Ready, Recached, Whole
  <2>2. CASE Rebuild
    <3>1. At("rebuild") /\ next' = 0
      BY <2>2 DEF Rebuild
    <3>2. /\ Left("rebuild") /\ Only({"rebuild", "reconstruct", "forward"})
          /\ Rebuilds(run.script) /\ Left("reconstruct")
      BY <1>2, <3>1, LeftAtRebuild DEF TextTypes
    <3>3. /\ Control' /\ ~Left("rebuild")'
          /\ \A y \in Marks : y # "rebuild" => (Left(y)' <=> Left(y))
      BY <1>1, <1>2, <3>1, Passed
    <3>4. /\ ~Left("append")' /\ ~Left("append_grown")'
          /\ ~Filling' /\ ~Filling /\ ~Left("keep_past")' /\ ~Left("build")'
          /\ ~Left("refeed")' /\ ~Left("refeed") /\ Left("reconstruct")'
          /\ ~Left("reconstruct_blocks")'
      BY <3>2, <3>3 DEF Only, Marks, Filling
    <3>5. /\ ~Resident(run.script) /\ ~ReFeeds(run.script) /\ ~RoundTrips(run.script)
          /\ run.script # kv_roundtrip
      BY <1>2, <3>2 DEF Class
    <3>6. past = Upto(Fed) /\ Text = Fed
      BY <3>2, <3>4, <3>5 DEF TextInv, CachesRight, Whole, Text
    <3> QED
      BY <1>1, <3>1, <3>2, <3>3, <3>4, <3>5, <3>6 DEF Growing, Ready, Recached, Whole
  <2> QED
    BY <2>1, <2>2
<1>5. PICK m \in Nat, r \in 0 .. T - 1 :
        /\ Len(pending') = m /\ pending' \in Seq(Seq(Nat))
        /\ \A i \in 1 .. m : pending'[i] = Block(i - 1)
        /\ tailPast' = Segment(m * T, r) /\ m * T + r = Text
  <2>1. LET kv == split_full_blocks_and_tail(past)
            blocks == real_past_to_blocks(kv.full)
        IN  /\ Len(blocks) = Text \div T /\ blocks \in Seq(Seq(Nat))
            /\ \A i \in 1 .. Text \div T : blocks[i] = Block(i - 1)
            /\ kv.tail = Segment((Text \div T) * T, Text % T)
            /\ Text % T \in 0 .. T - 1 /\ (Text \div T) * T + (Text % T) = Text
            /\ Text \div T \in Nat
    BY <1>2, <1>4, CutText
  <2>2. /\ Len(pending') = Text \div T /\ pending' \in Seq(Seq(Nat))
        /\ \A i \in 1 .. Text \div T : pending'[i] = Block(i - 1)
        /\ tailPast' = Segment((Text \div T) * T, Text % T)
    BY ONLY <1>1, <2>1
  <2> QED
    BY ONLY <2>1, <2>2
<1>6. m * T \in Nat /\ r \in Nat
  BY Products, TIsPositive
<1>7. tailPast' \in Seq(Nat) /\ Len(tailPast') = r
  BY <1>5, <1>6, SegmentProperties
<1>8. Blocks' = m
  BY <1>4, <1>5 DEF Blocks
<1>9. TextTypes'
  BY <1>1, <1>2, <1>4, <1>5, <1>7 DEF TextTypes
<1>10. Fresh'
  BY <1>1, <1>4 DEF Fresh
<1>11. TokensRight'
  BY <1>1, <1>3, <1>4 DEF TokensRight, TextInv
<1>12. BlocksRight'
  <2>1. Registered' = {}
    BY <1>4 DEF Registered
  <2>2. \A i \in 1 .. Len(pending') : pending'[i] = Block(next' + i - 1)
    BY <1>4, <1>5
  <2>3. Len(tailPast') \in 0 .. T - 1 /\ tailPast' = Segment(Blocks' * T, Len(tailPast'))
    BY <1>5, <1>7, <1>8
  <2> QED
    BY <2>1, <2>2, <2>3, T' = T DEF BlocksRight
<1>13. StoreRight'
  <2>1. Held' = Text
    BY <1>5, <1>7, <1>8, T' = T DEF Held
  <2> QED
    BY <1>3, <1>4, <2>1 DEF StoreRight
<1>14. CachesRight'
  BY <1>1, <1>3, <1>4 DEF CachesRight, TextInv
<1> QED
  BY <1>9, <1>10, <1>11, <1>12, <1>13, <1>14 DEF TextInv

LEMMA DummyBlocksText == TextInv /\ DummyBlocks => TextInv'
<1> SUFFICES ASSUME TextInv, DummyBlocks PROVE TextInv'
  OBVIOUS
<1>1. /\ run' = run /\ Done /\ At("dummy_blocks")
      /\ UNCHANGED <<next, content, tailPast, past, cache, streamed, input, generated>>
      /\ pending' = [i \in 1 .. MaxBlocks - 1 |-> <<>>]
  BY DEF DummyBlocks, vars, Done
<1>2. TextTypes /\ run.script \in Scripts /\ Class(run.script)
  BY Numbers DEF TextInv
<1>3. Only({"dummy_blocks"}) /\ Dummies(run.script)
  BY <1>1, <1>2, LeftAtDummies DEF TextTypes
<1>4. /\ Control' /\ ~Left("dummy_blocks")'
      /\ \A y \in Marks : y # "dummy_blocks" => (Left(y)' <=> Left(y))
  BY <1>1, <1>2, Passed
<1>5. \A y \in Marks : ~Left(y)'
  BY <1>3, <1>4 DEF Only
<1>6. First' = First /\ Fed' = Fed
  BY <1>1, SameRun
<1>7. /\ ~Resident(run.script) /\ ~RoundTrips(run.script) /\ ~ReFeeds(run.script)
      /\ run.script # kv_roundtrip /\ ~Rebuilds(run.script)
  BY <1>2, <1>3 DEF Class
<1>8. TextTypes'
  <2>1. MaxBlocks - 1 \in Int /\ <<>> \in Seq(Nat)
    BY StoreAssumption
  <2>2. pending' \in Seq(Seq(Nat))
    <3>1. CASE MaxBlocks - 1 < 0
      <4>1. 1 .. MaxBlocks - 1 = 1 .. 0
        BY <2>1, <3>1
      <4>2. [i \in 1 .. 0 |-> <<>>] \in Seq(Seq(Nat))
        BY <2>1
      <4> QED
        BY <1>1, <4>1, <4>2
    <3>2. CASE MaxBlocks - 1 >= 0
      <4>1. PICK k \in Nat : k = MaxBlocks - 1
        BY <2>1, <3>2
      <4>2. [i \in 1 .. k |-> <<>>] \in Seq(Seq(Nat))
        BY <2>1
      <4> QED
        BY ONLY <1>1, <4>1, <4>2
    <3> QED
      BY <2>1, <3>1, <3>2
  <2> QED
    BY <1>1, <1>2, <1>4, <2>2 DEF TextTypes
<1>9. /\ Fresh' /\ BlocksRight' /\ StoreRight' /\ CachesRight'
  BY <1>1, <1>3, <1>5, <1>7
     DEF Marks, Fresh, BlocksRight, StoreRight, CachesRight, Filling, Storing,
         Whole, Ready, Recached
<1>10. TokensRight'
  BY <1>1, <1>3, <1>6 DEF TokensRight, TextInv, Only, Marks
<1> QED
  BY <1>8, <1>9, <1>10 DEF TextInv

LEMMA PutText == TextInv /\ Put => TextInv'
<1> SUFFICES ASSUME TextInv, Put PROVE TextInv'
  OBVIOUS
<1>1. /\ pending # <<>> /\ next < MaxBlocks /\ next' = next + 1
      /\ content' = [content EXCEPT ![next] = Head(pending)]
      /\ pending' = Tail(pending)
      /\ UNCHANGED <<run, rest, tailPast, past, cache, streamed, input, generated>>
  BY DEF Put, PutGpu
<1>2. /\ TextTypes /\ Class(run.script) /\ next \in Nat /\ Len(pending) \in Nat
      /\ Blocks \in Nat /\ Len(tailPast) \in Nat
  BY Numbers DEF TextInv
<1>3. /\ pending \in Seq(Seq(Nat)) /\ content \in [Ids -> Seq(Nat)]
      /\ Len(pending) > 0
  BY <1>1, <1>2, EmptySeq DEF TextTypes
<1>4. /\ Head(pending) = pending[1] /\ Head(pending) \in Seq(Nat)
      /\ Tail(pending) \in Seq(Seq(Nat))
      /\ Len(Tail(pending)) = Len(pending) - 1
      /\ \A i \in 1 .. Len(pending) - 1 : Tail(pending)[i] = pending[i + 1]
  BY <1>1, <1>2, <1>3
<1>5. next \in Ids
  BY <1>1, <1>2, StoreAssumption DEF Ids
<1>6. Blocks' = Blocks
  BY <1>1, <1>2, <1>4 DEF Blocks
<1>7. \A y : Left(y)' <=> Left(y)
  BY <1>1 DEF Left
<1>8. /\ Filling' <=> Filling
      /\ Growing' <=> Growing
      /\ Storing' <=> Storing
      /\ Whole' <=> Whole
      /\ Ready' <=> Ready
      /\ Recached' <=> Recached
  BY <1>1, <1>7 DEF Filling, Growing, Storing, Whole, Ready, Recached
<1>9. First' = First /\ Fed' = Fed /\ Text' = Text /\ Held' = Held
  BY <1>1, <1>6 DEF First, Fed, Text, Held
<1>10. TextTypes'
  <2>1. content' \in [Ids -> Seq(Nat)]
    BY <1>1, <1>3, <1>4
  <2>2. Control'
    BY <1>1, <1>2 DEF TextTypes, Control
  <2> QED
    BY <1>1, <1>2, <1>4, <2>1, <2>2 DEF TextTypes
<1>11. Fresh'
  BY <1>1, <1>7, <1>8, <1>9 DEF TextInv, Fresh
<1>12. TokensRight'
  BY <1>1, <1>7, <1>9 DEF TextInv, TokensRight
<1>13. BlocksRight'
  <2>1. SUFFICES ASSUME ~Dummies(run.script) PROVE BlocksRight'
    BY <1>1 DEF BlocksRight
  <2>2. /\ \A b \in Registered : content[b] = Block(b)
        /\ \A i \in 1 .. Len(pending) : pending[i] = Block(next + i - 1)
        /\ Len(tailPast) \in 0 .. T - 1
        /\ tailPast = Segment(Blocks * T, Len(tailPast))
    BY <2>1 DEF TextInv, BlocksRight
  <2>3. ASSUME NEW b \in 0 .. next PROVE content'[b] = Block(b)
    <3>1. CASE b = next
      <4>1. content'[next] = Head(pending)
        BY <1>1, <1>3, <1>5
      <4>2. pending[1] = Block(next + 1 - 1) /\ next + 1 - 1 = next
        BY <1>2, <1>3, <2>2
      <4> QED
        BY <1>4, <3>1, <4>1, <4>2
    <3>2. CASE b # next
      <4>1. b \in Registered /\ b \in Ids
        BY <1>1, <1>2, <3>2, StoreAssumption DEF Registered, Ids
      <4>2. content'[b] = content[b]
        BY <1>1, <1>3, <3>2, <4>1
      <4> QED
        BY <2>2, <4>1, <4>2
    <3> QED
      BY <3>1, <3>2
  <2>4. \A b \in Registered' : content'[b] = Block(b)
    BY <1>1, <1>2, <2>3 DEF Registered
  <2>5. ASSUME NEW i \in 1 .. Len(pending')
        PROVE  pending'[i] = Block(next' + i - 1)
    <3>1. i \in 1 .. Len(pending) - 1
      BY <1>1, <1>4
    <3>2. i + 1 \in 1 .. Len(pending) /\ next + (i + 1) - 1 = next + 1 + i - 1
      BY <1>2, <3>1
    <3>3. pending[i + 1] = Block(next + (i + 1) - 1)
      BY <2>2, <3>2
    <3>4. pending'[i] = pending[i + 1]
      BY <1>1, <1>4, <3>1
    <3> QED
      BY ONLY <1>1, <3>2, <3>3, <3>4
  <2> QED
    BY <1>1, <1>6, <2>2, <2>4, <2>5, T' = T DEF BlocksRight
<1>14. StoreRight'
  BY <1>8, <1>9 DEF TextInv, StoreRight
<1>15. CachesRight'
  BY <1>1, <1>7, <1>8, <1>9 DEF TextInv, CachesRight
<1> QED
  BY <1>10, <1>11, <1>12, <1>13, <1>14, <1>15 DEF TextInv

\* What the store and the tail give when nothing is pending.
LEMMA StoreGives ==
  ASSUME TextTypes, BlocksRight, pending = <<>>, ~Dummies(run.script)
  PROVE  /\ StoredBlocks = Segment(0, next * T)
         /\ reconstruct_past_from_store = Segment(0, Held)
         /\ tailPast = Segment(next * T, Len(tailPast))
         /\ Len(tailPast) \in 0 .. T - 1 /\ Held = next * T + Len(tailPast)
         /\ next * T \in Nat /\ Blocks = next
<1>1. /\ next \in Nat /\ next * T \in Nat /\ Len(tailPast) \in Nat
      /\ Held = Blocks * T + Len(tailPast)
  BY Numbers
<1>2. Blocks = next
  BY <1>1 DEF Blocks
<1>3. /\ \A b \in Registered : content[b] = Block(b)
      /\ Len(tailPast) \in 0 .. T - 1
      /\ tailPast = Segment(next * T, Len(tailPast))
  BY <1>2 DEF BlocksRight
<1>4. StoredBlocks = Segment(0, next * T)
  BY <1>1, <1>3, StoredText
<1>5. PICK a \in Nat, b \in Nat : a = next * T /\ b = Len(tailPast)
  BY <1>1
<1>6. Segment(0, a) \o Segment(0 + a, b) = Segment(0, a + b)
  BY ConcatSegments, 0 \in Nat
<1>7. 0 + a = a /\ Held = a + b
  BY <1>1, <1>2, <1>5
<1>8. reconstruct_past_from_store = Segment(0, Held)
  <2>1. reconstruct_past_from_store = Segment(0, a) \o Segment(a, b)
    BY ONLY <1>3, <1>4, <1>5 DEF reconstruct_past_from_store
  <2> QED
    BY ONLY <1>6, <1>7, <2>1
<1> QED
  BY <1>1, <1>2, <1>3, <1>4, <1>8

LEMMA ReconstructText == TextInv /\ Reconstruct => TextInv'
<1> SUFFICES ASSUME TextInv, Reconstruct PROVE TextInv'
  OBVIOUS
<1>1. /\ run' = run /\ Done /\ streamed' = <<>>
      /\ UNCHANGED <<next, pending, content, tailPast, past, input, generated>>
  BY DEF Reconstruct, vars, Done
<1>2. /\ TextTypes /\ run.script \in Scripts /\ run.prompt \in Nat \ {0}
      /\ Class(run.script) /\ Len(generated) \in Nat
      /\ Fed \in Nat /\ Text \in Nat
  BY Numbers DEF TextInv
<1>3. /\ First' = First /\ Fed' = Fed /\ Text' = Text /\ Held' = Held
      /\ Blocks' = Blocks
  BY <1>1, SameRun
<1>4. BlocksRight'
  BY <1>1, <1>3 DEF TextInv, BlocksRight, Registered
<1>5. CASE At("reconstruct") /\ cache' = reconstruct_past_from_store
  <2>1. /\ Left("reconstruct") /\ Only({"reconstruct", "forward", "append"})
        /\ Appends(run.script) \/ Rebuilds(run.script)
        /\ Left("forward")
        /\ Left("append") <=> Appends(run.script)
    BY <1>2, <1>5, LeftAtReconstruct DEF TextTypes
  <2>2. /\ Control' /\ pending = <<>> /\ ~Left("reconstruct")'
        /\ \A y \in Marks : y # "reconstruct" => (Left(y)' <=> Left(y))
    BY <1>1, <1>2, <1>5, Passed
  <2>3. /\ ~Resident(run.script) /\ ~Dummies(run.script)
        /\ ~RoundTrips(run.script) /\ ~ReFeeds(run.script)
        /\ run.script # kv_roundtrip /\ Text = Fed
    BY <1>2, <2>1 DEF Class, Grows, Text
  <2>4. /\ ~Filling /\ ~Left("build") /\ ~Left("rebuild") /\ Left("forward")'
        /\ ~Left("refeed") /\ ~Filling' /\ ~Left("build")' /\ ~Left("refeed")'
        /\ ~Left("append_grown")' /\ ~Left("reconstruct_blocks")'
        /\ ~Left("keep_past")' /\ ~Left("rebuild")' /\ ~Left("keep_past")
    BY <2>1, <2>2 DEF Only, Marks, Filling
  <2>5. Storing /\ ~Growing
    BY <2>1, <2>3, <2>4 DEF Storing, Growing
  <2>6. Held = Fed
    BY <2>3, <2>5 DEF TextInv, StoreRight
  <2>7. cache' = Upto(Fed)
    <3>1. cache' = Segment(0, Held)
      BY <1>2, <1>5, <2>2, <2>3, StoreGives DEF TextInv
    <3> QED
      BY <1>2, <2>6, <3>1, SegmentProperties
  <2>8. TextTypes'
    BY <1>1, <1>2, <2>2 DEF TextTypes
  <2>9. Fresh'
    BY <1>1, <2>3, <2>4 DEF Fresh
  <2>10. TokensRight'
    BY <1>1, <1>3, <2>4 DEF TextInv, TokensRight
  <2>11. StoreRight'
    BY <1>1, <1>3, <2>3, <2>4, <2>6 DEF StoreRight, Growing
  <2>12. CachesRight'
    <3>1. Whole' => Rebuilds(run.script) /\ Whole
      BY <1>1, <2>3, <2>4 DEF Whole
    <3> QED
      BY <1>1, <1>3, <2>3, <2>4, <2>7, <3>1 DEF TextInv, CachesRight, Recached
  <2> QED
    BY <1>4, <2>8, <2>9, <2>10, <2>11, <2>12 DEF TextInv
<1>6. CASE At("reconstruct_blocks") /\ cache' = StoredBlocks
  <2>1. /\ Left("reconstruct_blocks") /\ Only({"reconstruct_blocks", "refeed"})
        /\ ReFeeds(run.script) \/ run.script = kv_roundtrip
    BY <1>2, <1>6, LeftAtReconstructBlocks DEF TextTypes
  <2>2. /\ Control' /\ pending = <<>> /\ ~Left("reconstruct_blocks")'
        /\ \A y \in Marks : y # "reconstruct_blocks" => (Left(y)' <=> Left(y))
    BY <1>1, <1>2, <1>6, Passed
  <2>3. /\ ~Resident(run.script) /\ ~Dummies(run.script) /\ ~Rebuilds(run.script)
        /\ RoundTrips(run.script) /\ Text = run.prompt
    BY <1>2, <2>1 DEF Class, Text
  <2>4. /\ ~Filling /\ ~Left("build") /\ ~Left("append") /\ ~Left("append_grown")
        /\ ~Filling' /\ ~Left("build")' /\ ~Left("forward")'
        /\ ~Left("append")' /\ ~Left("append_grown")' /\ ~Left("keep_past")'
        /\ Left("refeed")' <=> Left("refeed")
    BY <2>1, <2>2 DEF Only, Marks, Filling
  <2>5. Held = run.prompt /\ generated = <<>>
    BY <2>1, <2>3, <2>4
       DEF TextInv, StoreRight, Storing, Growing, Fresh
  <2>6. /\ StoredBlocks = Segment(0, next * T) /\ next * T \in Nat
        /\ Len(tailPast) \in 0 .. T - 1 /\ Held = next * T + Len(tailPast)
    BY <1>2, <2>2, <2>3, StoreGives DEF TextInv
  <2>7. cache' = Upto(next * T)
    BY <1>6, <2>6, SegmentProperties
  <2>8. ReFeeds(run.script) => Fed = next * T
    <3>1. run.prompt \div T = next
      BY <1>2, <2>5, <2>6, DivModOf DEF TextTypes
    <3>2. Len(<<>>) = 0
      OBVIOUS
    <3> QED
      BY <2>5, <2>6, <3>1, <3>2 DEF Fed, First
  <2>9. TextTypes'
    BY <1>1, <1>2, <2>2 DEF TextTypes
  <2>10. Fresh'
    BY <1>1, <2>3, <2>4, <2>5 DEF Fresh
  <2>11. TokensRight'
    BY <1>1, <1>3, <2>4 DEF TextInv, TokensRight
  <2>12. StoreRight'
    BY <1>1, <1>3, <2>3, <2>4, <2>5 DEF StoreRight, Growing
  <2>13. CachesRight'
    BY <1>1, <1>3, <2>2, <2>3, <2>4, <2>7, <2>8 DEF CachesRight, Whole, Ready
  <2> QED
    BY <1>4, <2>9, <2>10, <2>11, <2>12, <2>13 DEF TextInv
<1> QED
  BY <1>5, <1>6 DEF Reconstruct

LEMMA StreamText == TextInv /\ Stream => TextInv'
<1> SUFFICES ASSUME TextInv, Stream PROVE TextInv'
  OBVIOUS
<1>1. /\ run' = run /\ Done /\ At("stream")
      /\ streamed' = StoredBlocks /\ cache' = tailPast
      /\ UNCHANGED <<next, pending, content, tailPast, past, input, generated>>
  BY DEF Stream, vars, Done
<1>2. /\ TextTypes /\ run.script \in Scripts /\ Class(run.script)
  BY Numbers DEF TextInv
<1>3. /\ First' = First /\ Fed' = Fed /\ Text' = Text /\ Held' = Held
      /\ Blocks' = Blocks
  BY <1>1, SameRun
<1>4. /\ Left("stream") /\ Only({"stream", "forward", "append_grown"})
      /\ Grown(run.script) /\ Left("forward") /\ Left("append_grown")
  BY <1>1, <1>2, LeftAtStream DEF TextTypes
<1>5. /\ Control' /\ pending = <<>> /\ ~Left("stream")'
      /\ \A y \in Marks : y # "stream" => (Left(y)' <=> Left(y))
  BY <1>1, <1>2, Passed
<1>6. /\ ~Resident(run.script) /\ ~Dummies(run.script) /\ ~Rebuilds(run.script)
      /\ ~RoundTrips(run.script) /\ ~ReFeeds(run.script)
      /\ run.script # kv_roundtrip
  BY <1>2, <1>4 DEF Class, Grows, Grown
<1>7. /\ ~Filling /\ ~Left("build") /\ ~Filling' /\ ~Left("build")'
      /\ ~Left("refeed") /\ ~Left("refeed")' /\ ~Left("reconstruct_blocks")'
      /\ Left("forward")' /\ Left("append_grown")'
  BY <1>4, <1>5 DEF Only, Marks, Filling
<1>8. streamed' = Upto(next * T)
  <2>1. StoredBlocks = Segment(0, next * T) /\ next * T \in Nat
    BY <1>2, <1>5, <1>6, StoreGives DEF TextInv
  <2> QED
    BY <1>1, <2>1, SegmentProperties
<1>9. TextTypes'
  BY <1>1, <1>2, <1>5 DEF TextTypes
<1>10. Fresh'
  BY <1>1, <1>6, <1>7 DEF Fresh
<1>11. TokensRight'
  BY <1>1, <1>3, <1>7 DEF TextInv, TokensRight
<1>12. BlocksRight'
  BY <1>1, <1>3 DEF TextInv, BlocksRight, Registered
<1>13. StoreRight'
  BY <1>1, <1>3, <1>4, <1>6, <1>7 DEF TextInv, StoreRight, Storing, Growing
<1>14. CachesRight'
  BY <1>1, <1>3, <1>5, <1>6, <1>7, <1>8, T' = T DEF CachesRight, Whole, Recached
<1> QED
  BY <1>9, <1>10, <1>11, <1>12, <1>13, <1>14 DEF TextInv

LEMMA KeepPastText == TextInv /\ KeepPast => TextInv'
<1> SUFFICES ASSUME TextInv, KeepPast PROVE TextInv'
  OBVIOUS
<1>1. /\ run' = run /\ Done /\ At("keep_past") /\ cache' = past
      /\ UNCHANGED <<next, pending, content, tailPast, past, streamed, input, generated>>
  BY DEF KeepPast, vars, Done
<1>2. /\ TextTypes /\ run.script \in Scripts /\ Class(run.script)
  BY Numbers DEF TextInv
<1>3. /\ First' = First /\ Fed' = Fed /\ Text' = Text /\ Held' = Held
      /\ Blocks' = Blocks
  BY <1>1, SameRun
<1>4. /\ Left("keep_past") /\ Only({"keep_past"})
      /\ Resident(run.script) \/ ReFeeds(run.script)
  BY <1>1, <1>2, LeftAtKeepPast DEF TextTypes
<1>5. /\ Control' /\ ~Left("keep_past")'
      /\ \A y \in Marks : y # "keep_past" => (Left(y)' <=> Left(y))
  BY <1>1, <1>2, Passed
<1>6. /\ ~Grows(run.script) /\ ~Dummies(run.script) /\ ~Rebuilds(run.script)
      /\ Resident(run.script) \/ RoundTrips(run.script)
      /\ run.script # kv_roundtrip
  BY <1>2, <1>4 DEF Class
<1>7. \A y \in Marks : ~Left(y)'
  BY <1>4, <1>5 DEF Only
<1>8. /\ ~Filling /\ ~Left("build") /\ ~Filling' /\ ~Left("build")'
      /\ ~Left("refeed") /\ ~Left("refeed")' /\ ~Left("reconstruct_blocks")'
      /\ ~Left("forward") /\ ~Left("append_grown")' /\ ~Left("keep_past")'
      /\ ~Left("append") /\ ~Left("append_grown") /\ ~Left("append")'
  BY <1>4, <1>7 DEF Only, Marks, Filling
<1>9. past = Upto(Fed) /\ streamed = <<>>
  BY <1>4, <1>6, <1>8 DEF TextInv, CachesRight, Whole
<1>10. TextTypes'
  BY <1>1, <1>2, <1>5 DEF TextTypes
<1>11. Fresh'
  BY <1>1, <1>8 DEF Fresh, TextInv
<1>12. TokensRight'
  BY <1>1, <1>3, <1>8 DEF TextInv, TokensRight
<1>13. BlocksRight'
  BY <1>1, <1>3 DEF TextInv, BlocksRight, Registered
<1>14. StoreRight'
  BY <1>1, <1>3, <1>6, <1>8 DEF TextInv, StoreRight, Storing, Growing
<1>15. CachesRight'
  BY <1>1, <1>3, <1>6, <1>8, <1>9 DEF CachesRight, Whole, Recached
<1> QED
  BY <1>10, <1>11, <1>12, <1>13, <1>14, <1>15 DEF TextInv

LEMMA ReFeedText == TextInv /\ ReFeed => TextInv'
<1> SUFFICES ASSUME TextInv, ReFeed PROVE TextInv'
  OBVIOUS
<1>1. /\ run' = run /\ Done /\ At("refeed") /\ input' = next * T + 1
      /\ UNCHANGED <<next, pending, content, tailPast, past, cache, streamed, generated>>
  BY DEF ReFeed, vars, Done, T
<1>2. /\ TextTypes /\ run.script \in Scripts /\ Class(run.script)
      /\ run.prompt \in Nat \ {0} /\ next \in Nat
  BY Numbers DEF TextInv
<1>3. /\ First' = First /\ Fed' = Fed /\ Text' = Text /\ Held' = Held
      /\ Blocks' = Blocks
  BY <1>1, SameRun
<1>4. /\ Left("refeed") /\ Only({"refeed", "reconstruct_blocks"})
      /\ ReFeeds(run.script)
  BY <1>1, <1>2, LeftAtReFeed DEF TextTypes
<1>5. /\ Control' /\ ~Left("refeed")' /\ pending = <<>>
      /\ \A y \in Marks : y # "refeed" => (Left(y)' <=> Left(y))
  BY <1>1, <1>2, Passed
<1>6. /\ ~Resident(run.script) /\ ~Dummies(run.script) /\ ~Rebuilds(run.script)
      /\ RoundTrips(run.script) /\ run.script # kv_roundtrip
  BY <1>2, <1>4 DEF Class
<1>7. /\ ~Filling /\ ~Left("build") /\ ~Filling' /\ ~Left("build")'
      /\ Left("reconstruct_blocks")' <=> Left("reconstruct_blocks")
      /\ ~Left("forward") /\ ~Left("append_grown")' /\ ~Left("keep_past")'
      /\ ~Left("append") /\ ~Left("append_grown") /\ ~Left("append")'
      /\ ~Left("forward")' /\ ~Left("keep_past")
  BY <1>4, <1>5 DEF Only, Marks, Filling
<1>8. generated = <<>> /\ Held = run.prompt
  BY <1>4, <1>6, <1>7 DEF TextInv, Fresh, StoreRight, Storing, Growing, Text
<1>9. input' = First + Len(generated)
  <2>1. /\ next * T \in Nat /\ Len(tailPast) \in 0 .. T - 1
        /\ Held = next * T + Len(tailPast)
    BY <1>2, <1>5, <1>6, StoreGives DEF TextInv
  <2>2. run.prompt \div T = next
    BY <1>2, <1>8, <2>1, DivModOf
  <2>3. Len(<<>>) = 0
    OBVIOUS
  <2> QED
    BY <1>1, <1>4, <1>8, <2>1, <2>2, <2>3 DEF First
<1>10. TextTypes'
  BY <1>1, <1>2, <1>5 DEF TextTypes
<1>11. Fresh'
  BY <1>1, <1>7, <1>8, <1>6 DEF Fresh
<1>12. TokensRight'
  BY <1>1, <1>3, <1>9 DEF TextInv, TokensRight
<1>13. BlocksRight'
  BY <1>1, <1>3 DEF TextInv, BlocksRight, Registered
<1>14. StoreRight'
  BY <1>1, <1>3, <1>6, <1>7 DEF TextInv, StoreRight, Storing, Growing
<1>15. CachesRight'
  BY <1>1, <1>3, <1>6, <1>7 DEF TextInv, CachesRight, Whole, Recached, Ready
<1> QED
  BY <1>10, <1>11, <1>12, <1>13, <1>14, <1>15 DEF TextInv

\* The context of the next forward, and the token it is fed.
LEMMA ReadyContext ==
  ASSUME TextInv, At("forward")
  PROVE  /\ streamed \o cache = Segment(0, Fed) /\ input = Fed + 1
         /\ Left("append_grown") =>
              Fed = next * T + Len(tailPast) /\ cache = Segment(next * T, Len(tailPast))
                /\ pending = <<>>
         /\ ~Left("append_grown") => cache = Segment(0, Fed)
<1>1. /\ TextTypes /\ run.script \in Scripts /\ Class(run.script)
      /\ Fed \in Nat /\ First \in Nat /\ Len(generated) \in Nat
  BY Numbers DEF TextInv
<1>2. /\ Left("forward") /\ Only({"forward", "append", "append_grown", "keep_past"})
      /\ Left("append") <=> Appends(run.script)
      /\ Left("append_grown") <=> Grown(run.script)
      /\ Left("keep_past") <=> Resident(run.script) \/ ReFeeds(run.script)
  BY <1>1, LeftAtForward DEF TextTypes
<1>3. /\ ~Left("refeed") /\ ~Left("reconstruct") /\ ~Left("stream")
      /\ ~Filling /\ ~Left("build") /\ ~Left("reconstruct_blocks")
  BY <1>2 DEF Only, Marks, Filling
<1>4. Ready
  BY <1>2, <1>3 DEF Ready
<1>5. input = Fed + 1
  BY <1>1, <1>3 DEF TextInv, TokensRight, Fed
<1>6. CASE Left("append_grown")
  <2>1. pending = <<>> /\ streamed = Upto(next * T) /\ cache = tailPast
    BY <1>4, <1>6 DEF TextInv, CachesRight
  <2>2. /\ ~Resident(run.script) /\ ~Dummies(run.script) /\ ~Rebuilds(run.script)
        /\ ~RoundTrips(run.script)
    BY <1>1, <1>2, <1>6 DEF Class, Grows, Grown
  <2>3. Held = Fed
    BY <1>2, <1>3, <2>2 DEF TextInv, StoreRight, Storing, Growing, Text
  <2>4. /\ tailPast = Segment(next * T, Len(tailPast)) /\ next * T \in Nat
        /\ Len(tailPast) \in 0 .. T - 1 /\ Held = next * T + Len(tailPast)
    BY <1>1, <2>1, <2>2, StoreGives DEF TextInv
  <2>5. PICK a \in Nat, b \in Nat : a = next * T /\ b = Len(tailPast)
    BY <2>4, TIsPositive
  <2>6. Segment(0, a) \o Segment(0 + a, b) = Segment(0, a + b)
    BY ConcatSegments, 0 \in Nat
  <2>7. 0 + a = a /\ Fed = a + b
    BY <2>3, <2>4, <2>5
  <2>8. Upto(a) = Segment(0, a)
    BY SegmentProperties
  <2>9. streamed \o cache = Segment(0, Fed)
    <3>1. streamed = Segment(0, a) /\ cache = Segment(a, b)
      BY ONLY <2>1, <2>4, <2>5, <2>8
    <3> QED
      BY ONLY <2>6, <2>7, <3>1
  <2> QED
    BY <1>5, <1>6, <2>1, <2>3, <2>4, <2>9
<1>7. CASE ~Left("append_grown")
  <2>1. streamed = <<>> /\ cache = Upto(Fed)
    BY <1>4, <1>7 DEF TextInv, CachesRight
  <2>2. cache = Segment(0, Fed) /\ cache \in Seq(Nat)
    BY <1>1, <2>1, SegmentProperties
  <2>3. <<>> \o cache = cache
    BY <2>2, ConcatEmptySeq
  <2> QED
    BY <1>5, <1>7, <2>1, <2>2, <2>3
<1> QED
  BY <1>6, <1>7

LEMMA ForwardText == TextInv /\ Forward => TextInv'
<1> SUFFICES ASSUME TextInv, Forward PROVE TextInv'
  OBVIOUS
<1>1. /\ run' = run /\ Done /\ At("forward")
      /\ past' = Append(cache, Encode(streamed \o cache, input))
      /\ generated' = Append(generated, Predict(streamed \o cache, input))
      /\ input' = Predict(streamed \o cache, input)
      /\ UNCHANGED <<next, pending, content, tailPast, cache, streamed>>
  BY DEF Forward, vars, Done
<1>2. /\ TextTypes /\ run.script \in Scripts /\ Class(run.script)
      /\ Fed \in Nat /\ First \in Nat /\ Len(generated) \in Nat
      /\ generated \in Seq(Nat) /\ next * T \in Nat /\ Len(tailPast) \in Nat
  BY Numbers DEF TextInv, TextTypes
<1>3. /\ First' = First /\ Held' = Held /\ Blocks' = Blocks
  BY <1>1, SameRun
<1>4. /\ Left("forward") /\ Only({"forward", "append", "append_grown", "keep_past"})
      /\ Left("append") <=> Appends(run.script)
      /\ Left("append_grown") <=> Grown(run.script)
      /\ Left("keep_past") <=> Resident(run.script) \/ ReFeeds(run.script)
      /\ Appends(run.script) \/ Grown(run.script) \/ Resident(run.script)
           \/ ReFeeds(run.script) \/ Rebuilds(run.script)
  BY <1>1, <1>2, LeftAtForward DEF TextTypes
<1>5. /\ Control' /\ ~Left("forward")'
      /\ \A y \in Marks : y # "forward" => (Left(y)' <=> Left(y))
  BY <1>1, <1>2, Passed
<1>6. /\ ~Left("refeed") /\ ~Left("refeed")' /\ ~Left("reconstruct_blocks")'
      /\ ~Filling /\ ~Left("build") /\ ~Filling' /\ ~Left("build")'
      /\ ~Left("reconstruct")'
      /\ Left("append")' <=> Left("append")
      /\ Left("append_grown")' <=> Left("append_grown")
      /\ Left("keep_past")' <=> Left("keep_past")
  BY <1>4, <1>5 DEF Only, Marks, Filling
<1>7. /\ streamed \o cache = Segment(0, Fed) /\ input = Fed + 1
      /\ Left("append_grown") =>
           Fed = next * T + Len(tailPast) /\ cache = Segment(next * T, Len(tailPast))
             /\ pending = <<>>
      /\ ~Left("append_grown") => cache = Segment(0, Fed)
  BY <1>1, ReadyContext
<1>8. /\ past' = Append(cache, Fed + 1) /\ generated' = Append(generated, Fed + 2)
      /\ input' = Fed + 2
  BY <1>1, <1>2, <1>7, EncodeNext
<1>9. /\ generated' \in Seq(Nat) /\ Len(generated') = Len(generated) + 1
      /\ \A i \in 1 .. Len(generated) : generated'[i] = generated[i]
      /\ generated'[Len(generated) + 1] = Fed + 2
  BY <1>2, <1>8, AppendProperties
<1>10. /\ Fed' = Fed + 1 /\ Fed = First - 1 + Len(generated)
       /\ Text' = IF RoundTrips(run.script) THEN Text ELSE Text + 1
  BY <1>1, <1>2, <1>3, <1>9 DEF Fed, Text
<1>11. TextTypes'
  BY <1>1, <1>2, <1>5, <1>9 DEF TextTypes
<1>12. Fresh'
  BY <1>1, <1>6 DEF Fresh, TextInv
<1>13. TokensRight'
  <2>1. input' = First' + Len(generated')
    BY <1>2, <1>3, <1>8, <1>9, <1>10
  <2>2. ASSUME NEW i \in 1 .. Len(generated') PROVE generated'[i] = First' + i
    <3>1. CASE i \in 1 .. Len(generated)
      BY <1>3, <1>9, <3>1 DEF TextInv, TokensRight
    <3>2. CASE i = Len(generated) + 1
      BY <1>2, <1>3, <1>9, <1>10, <3>2
    <3> QED
      BY <1>2, <1>9, <3>1, <3>2
  <2> QED
    BY <2>1, <2>2 DEF TokensRight
<1>14. BlocksRight'
  BY <1>1, <1>3 DEF TextInv, BlocksRight, Registered
<1>15. StoreRight'
  <2>1. SUFFICES ASSUME Storing' PROVE Held' = IF Growing' THEN Text' - 1 ELSE Text'
    BY DEF StoreRight
  <2>2. /\ ~Rebuilds(run.script) /\ ~Resident(run.script) /\ ~Dummies(run.script)
        /\ Storing /\ ~Growing
    BY <1>1, <1>4, <1>6, <2>1 DEF Storing, Growing
  <2>3. Held = Text
    BY <2>2 DEF TextInv, StoreRight
  <2>4. CASE RoundTrips(run.script)
    <3>1. ~Growing'
      BY <1>2, <1>4, <1>6, <2>4 DEF Class, Grows, Grown, Growing
    <3> QED
      BY <1>3, <1>10, <2>3, <2>4, <3>1
  <2>5. CASE ~RoundTrips(run.script)
    <3>1. Growing'
      BY <1>2, <1>4, <1>5, <1>6, <2>2, <2>5 DEF Class, Growing
    <3>2. Text = Fed
      BY <2>5 DEF Text
    <3> QED
      BY <1>2, <1>3, <1>10, <2>3, <2>5, <3>1, <3>2
  <2> QED
    BY <2>4, <2>5
<1>16. CachesRight'
  <2>1. ~Ready' /\ ~Recached'
    <3>1. run.script = kv_roundtrip => RoundTrips(run.script) /\ ~ReFeeds(run.script)
      BY <1>2 DEF Class
    <3>2. run.script # kv_roundtrip
      BY <1>2, <1>4, <3>1 DEF Class, Grows, Grown
    <3> QED
      BY <1>1, <1>4, <1>5, <1>6, <3>2 DEF Ready, Recached
  <2>2. Left("append_grown") => past' = Segment(next * T, Len(tailPast) + 1)
    <3>1. SUFFICES ASSUME Left("append_grown")
                   PROVE  past' = Segment(next * T, Len(tailPast) + 1)
      OBVIOUS
    <3>2. PICK a \in Nat, b \in Nat : a = next * T /\ b = Len(tailPast)
      BY <1>2
    <3>3. Append(Segment(a, b), a + b + 1) = Segment(a, b + 1)
      BY AppendSegment
    <3>4. Fed + 1 = a + b + 1 /\ cache = Segment(a, b)
      BY <1>7, <3>1, <3>2
    <3> QED
      BY ONLY <1>8, <3>2, <3>3, <3>4
  <2>3. ~Left("append_grown") => past' = Upto(Fed')
    <3>1. SUFFICES ASSUME ~Left("append_grown") PROVE past' = Upto(Fed')
      OBVIOUS
    <3>2. Append(Segment(0, Fed), 0 + Fed + 1) = Segment(0, Fed + 1)
      BY <1>2, AppendSegment, 0 \in Nat
    <3>3. 0 + Fed + 1 = Fed + 1 /\ Fed + 1 \in Nat
      BY <1>2
    <3>4. past' = Segment(0, Fed + 1)
      BY ONLY <1>7, <1>8, <3>1, <3>2, <3>3
    <3> QED
      BY <1>10, <3>3, <3>4, SegmentProperties
  <2>4. Whole' => ~Left("append_grown")
    BY <1>1, <1>2, <1>4, <1>6 DEF Whole, Class, Grows, Grown
  <2>5. Resident(run.script) \/ RoundTrips(run.script) => streamed' = <<>>
    BY <1>1 DEF TextInv, CachesRight
  <2> QED
    BY <1>1, <1>6, <1>7, <2>1, <2>2, <2>3, <2>4, <2>5, T' = T DEF CachesRight
<1> QED
  BY <1>11, <1>12, <1>13, <1>14, <1>15, <1>16 DEF TextInv

\* What is next in the same place while the store catches up with the tokens.
LEMMA AppendedText ==
  ASSUME TextInv, run' = run, Control', NEW x \in {"append", "append_grown"},
         UNCHANGED <<next, content, past, cache, streamed, input, generated>>,
         Left(x), Only({x}), Grows(run.script),
         \A y \in Marks : ~Left(y)',
         NEW m \in Nat, NEW r \in 0 .. T - 1,
         pending' \in Seq(Seq(Nat)), Len(pending') = m,
         \A i \in 1 .. m : pending'[i] = Block(next + i - 1),
         tailPast' = Segment((next + m) * T, r),
         (next + m) * T + r = Text
  PROVE  TextInv'
<1>1. /\ TextTypes /\ run.script \in Scripts /\ Class(run.script) /\ next \in Nat
  BY Numbers DEF TextInv
<1>2. First' = First /\ Fed' = Fed /\ Text' = Text
  BY SameRun
<1>3. /\ ~Resident(run.script) /\ ~Dummies(run.script) /\ ~Rebuilds(run.script)
      /\ ~RoundTrips(run.script) /\ ~ReFeeds(run.script)
      /\ run.script # kv_roundtrip
  BY <1>1 DEF Class
<1>4. /\ ~Filling' /\ ~Left("build")' /\ ~Left("refeed")' /\ ~Left("append")'
      /\ ~Left("append_grown")' /\ ~Left("forward")' /\ ~Left("keep_past")'
      /\ ~Left("reconstruct_blocks")' /\ ~Left("refeed")
  BY DEF Marks, Filling, Only
<1>5. (next + m) * T \in Nat /\ r \in Nat
  BY <1>1, Products, TIsPositive, next + m \in Nat
<1>6. tailPast' \in Seq(Nat) /\ Len(tailPast') = r
  BY <1>5, SegmentProperties
<1>7. Blocks' = next + m
  BY DEF Blocks
<1>8. TextTypes'
  BY <1>1, <1>6 DEF TextTypes
<1>9. Fresh'
  BY <1>3, <1>4 DEF Fresh
<1>10. TokensRight'
  BY <1>2, <1>4 DEF TextInv, TokensRight
<1>11. BlocksRight'
  <2>1. \A b \in Registered' : content'[b] = Block(b)
    BY <1>3 DEF TextInv, BlocksRight, Registered
  <2> QED
    BY <1>6, <1>7, <2>1, T' = T DEF BlocksRight
<1>12. StoreRight'
  BY <1>2, <1>4, <1>6, <1>7, T' = T DEF StoreRight, Held, Growing
<1>13. CachesRight'
  BY <1>3, <1>4 DEF CachesRight, Whole, Ready, Recached
<1> QED
  BY <1>8, <1>9, <1>10, <1>11, <1>12, <1>13 DEF TextInv

LEMMA AppendText == TextInv /\ AppendNewFullBlocks => TextInv'
<1> SUFFICES ASSUME TextInv, AppendNewFullBlocks PROVE TextInv'
  OBVIOUS
<1>1. /\ run' = run /\ Done /\ At("append")
      /\ UNCHANGED <<next, content, past, cache, streamed, input, generated>>
      /\ LET kv == split_full_blocks_and_tail(past) IN
         /\ pending' = [i \in 1 .. Len(kv.full) \div T - next |->
                          extract_single_block_from_past(kv.full, next + i - 1)]
         /\ tailPast' = kv.tail
  BY DEF AppendNewFullBlocks, vars, Done, T
<1>2. /\ TextTypes /\ run.script \in Scripts /\ Class(run.script)
      /\ Fed \in Nat /\ next \in Nat /\ Text \in Nat
  BY Numbers DEF TextInv
<1>3. Left("append") /\ Only({"append"}) /\ Appends(run.script)
  BY <1>1, <1>2, LeftAtAppend DEF TextTypes
<1>4. /\ Control' /\ ~Left("append")' /\ pending = <<>>
      /\ \A y \in Marks : y # "append" => (Left(y)' <=> Left(y))
  BY <1>1, <1>2, Passed
<1>5. \A y \in Marks : ~Left(y)'
  BY <1>3, <1>4 DEF Only
<1>6. /\ ~Resident(run.script) /\ ~Dummies(run.script) /\ ~Rebuilds(run.script)
      /\ ~RoundTrips(run.script) /\ Grows(run.script)
  BY <1>2, <1>3 DEF Class, Grows
<1>7. ~Filling /\ ~Left("build") /\ ~Left("forward")
  BY <1>3 DEF Only, Marks, Filling
<1>8. past = Upto(Fed) /\ Held = Fed - 1 /\ Text = Fed
  BY <1>3, <1>6, <1>7
     DEF TextInv, CachesRight, Whole, StoreRight, Storing, Growing, Text
<1>9. PICK r \in 0 .. T - 1 : Fed - 1 = next * T + r
  BY <1>2, <1>4, <1>6, <1>8, StoreGives DEF TextInv
<1>10. PICK n \in Nat, k \in {0, 1} : n = next + k /\ n = Fed \div T
  <2>1. next * T \in Nat
    BY <1>2, Products
  <2>2. PICK f \in Nat : f = Fed - 1 /\ f + 1 = Fed
    BY <1>2, <1>9, <2>1, TIsPositive
  <2>3. (f + 1) \div T - next \in {0, 1}
    BY <1>2, <1>9, <2>2, NextBlock
  <2>4. Fed \div T \in Nat
    BY <1>2, DivMod
  <2> QED
    BY <1>2, <2>2, <2>3, <2>4
<1>11. /\ split_full_blocks_and_tail(past).full = Segment(0, n * T)
       /\ split_full_blocks_and_tail(past).tail = Segment(n * T, Fed % T)
       /\ Fed % T \in 0 .. T - 1 /\ n * T + (Fed % T) = Fed
  <2>1. LET kv == split_full_blocks_and_tail(past) IN
          /\ kv.full = Segment(0, (Fed \div T) * T)
          /\ kv.tail = Segment((Fed \div T) * T, Fed % T)
          /\ Fed % T \in 0 .. T - 1 /\ (Fed \div T) * T + (Fed % T) = Fed
    BY <1>2, <1>8, CutText
  <2> QED
    BY ONLY <1>10, <2>1
<1>12. Len(Segment(0, n * T)) \div T = n
  <2>1. n * T \in Nat /\ 0 \in 0 .. T - 1 /\ n * T = n * T + 0
    BY Products, TIsPositive
  <2>2. (n * T) \div T = n
    BY <2>1, DivModOf
  <2>3. Len(Segment(0, n * T)) = n * T
    BY <2>1, SegmentProperties, 0 \in Nat
  <2> QED
    BY ONLY <2>2, <2>3
<1>13. ASSUME NEW i \in 1 .. k
       PROVE  extract_single_block_from_past(Segment(0, n * T), next + i - 1)
                = Block(next + i - 1)
  <2>1. PICK b \in 0 .. n - 1 : b = next + i - 1
    BY <1>2, <1>10
  <2>2. extract_single_block_from_past(Segment(0 * T, n * T), b) = Block(0 + b)
    BY <1>10, ExtractOf, 0 \in Nat
  <2>3. 0 * T = 0 /\ 0 + b = b
    BY TIsPositive
  <2> QED
    BY ONLY <2>1, <2>2, <2>3
<1>14. pending' = [i \in 1 .. k |-> Block(next + i - 1)]
  <2>1. n - next = k
    BY <1>2, <1>10
  <2>2. pending' = [i \in 1 .. Len(Segment(0, n * T)) \div T - next |->
                      extract_single_block_from_past(Segment(0, n * T), next + i - 1)]
    BY ONLY <1>1, <1>11
  <2>3. pending' = [i \in 1 .. k |->
                      extract_single_block_from_past(Segment(0, n * T), next + i - 1)]
    BY ONLY <1>12, <2>1, <2>2
  <2> QED
    BY ONLY <1>13, <2>3
<1>15. \A i \in 1 .. k : Block(next + i - 1) \in Seq(Nat)
  <2>1. ASSUME NEW i \in 1 .. k PROVE Block(next + i - 1) \in Seq(Nat)
    <3>1. PICK b \in Nat : b = next + i - 1
      BY <1>2, <1>10
    <3>2. b * T \in Nat
      BY Products
    <3>3. Block(b) \in Seq(Nat)
      BY <3>2, SegmentProperties, TIsPositive DEF Block
    <3> QED
      BY ONLY <3>1, <3>3
  <2> QED
    BY <2>1
<1>16. /\ pending' \in Seq(Seq(Nat)) /\ Len(pending') = k
       /\ \A i \in 1 .. k : pending'[i] = Block(next + i - 1)
  <2>1. k \in Nat
    BY <1>10
  <2> QED
    BY <1>14, <1>15, <2>1
<1>17. PICK q \in 0 .. T - 1 :
         tailPast' = Segment((next + k) * T, q) /\ (next + k) * T + q = Text
  BY <1>1, <1>8, <1>10, <1>11
<1> QED
  BY <1>1, <1>3, <1>4, <1>5, <1>6, <1>10, <1>16, <1>17, AppendedText

LEMMA AppendGrownText == TextInv /\ AppendFromGrownTail => TextInv'
<1> SUFFICES ASSUME TextInv, AppendFromGrownTail PROVE TextInv'
  OBVIOUS
<1>1. /\ run' = run /\ Done /\ At("append_grown")
      /\ UNCHANGED <<next, content, past, cache, streamed, input, generated>>
      /\ LET kv == split_full_blocks_and_tail(past) IN
         /\ pending' = real_past_to_blocks(kv.full)
         /\ tailPast' = kv.tail
  BY DEF AppendFromGrownTail, vars, Done
<1>2. /\ TextTypes /\ run.script \in Scripts /\ Class(run.script)
      /\ Fed \in Nat /\ next \in Nat /\ Text \in Nat
  BY Numbers DEF TextInv
<1>3. Left("append_grown") /\ Only({"append_grown"}) /\ Grown(run.script)
  BY <1>1, <1>2, LeftAtAppendGrown DEF TextTypes
<1>4. /\ Control' /\ ~Left("append_grown")' /\ pending = <<>>
      /\ \A y \in Marks : y # "append_grown" => (Left(y)' <=> Left(y))
  BY <1>1, <1>2, Passed
<1>5. \A y \in Marks : ~Left(y)'
  BY <1>3, <1>4 DEF Only
<1>6. /\ ~Resident(run.script) /\ ~Dummies(run.script) /\ ~Rebuilds(run.script)
      /\ ~RoundTrips(run.script) /\ Grows(run.script)
  BY <1>2, <1>3 DEF Class, Grows, Grown
<1>7. ~Filling /\ ~Left("build") /\ ~Left("forward")
  BY <1>3 DEF Only, Marks, Filling
<1>8. /\ past = Segment(next * T, Len(tailPast) + 1) /\ Held = Text - 1
  BY <1>3, <1>6, <1>7
     DEF TextInv, CachesRight, StoreRight, Storing, Growing
<1>9. PICK n \in Nat \ {0} :
        /\ n = Len(tailPast) + 1 /\ next * T + n = Text /\ next * T \in Nat
  <2>1. /\ Len(tailPast) \in 0 .. T - 1 /\ Held = next * T + Len(tailPast)
        /\ next * T \in Nat
    BY <1>2, <1>4, <1>6, StoreGives DEF TextInv
  <2> QED
    BY <1>2, <1>8, <2>1, TIsPositive
<1>10. PICK k \in Nat, q \in 0 .. T - 1 : k = n \div T /\ q = n % T /\ n = k * T + q
  BY DivMod
<1>11. /\ split_full_blocks_and_tail(past).full = Segment(next * T, k * T)
       /\ split_full_blocks_and_tail(past).tail = Segment((next + k) * T, q)
  <2>1. LET kv == split_full_blocks_and_tail(Segment(next * T, n)) IN
          /\ kv.full = Segment(next * T, (n \div T) * T)
          /\ kv.tail = Segment((next + n \div T) * T, n % T)
    BY <1>2, SplitOf
  <2> QED
    BY ONLY <1>8, <1>9, <1>10, <2>1
<1>12. pending' = [i \in 1 .. k |-> Block(next + i - 1)]
  <2>1. real_past_to_blocks(Segment(next * T, k * T)) = [i \in 1 .. k |-> Block(next + i - 1)]
    BY <1>2, BlocksOf
  <2> QED
    BY ONLY <1>1, <1>11, <2>1
<1>13. \A i \in 1 .. k : Block(next + i - 1) \in Seq(Nat)
  <2>1. ASSUME NEW i \in 1 .. k PROVE Block(next + i - 1) \in Seq(Nat)
    <3>1. PICK b \in Nat : b = next + i - 1
      BY <1>2
    <3>2. b * T \in Nat
      BY Products
    <3>3. Block(b) \in Seq(Nat)
      BY <3>2, SegmentProperties, TIsPositive DEF Block
    <3> QED
      BY ONLY <3>1, <3>3
  <2> QED
    BY <2>1
<1>14. /\ pending' \in Seq(Seq(Nat)) /\ Len(pending') = k
       /\ \A i \in 1 .. k : pending'[i] = Block(next + i - 1)
  BY <1>12, <1>13
<1>15. tailPast' = Segment((next + k) * T, q) /\ (next + k) * T + q = Text
  <2>1. (next + k) * T = next * T + k * T /\ k * T \in Nat
    BY <1>2, Products
  <2> QED
    BY <1>1, <1>9, <1>10, <1>11, <2>1
<1> QED
  BY <1>1, <1>3, <1>4, <1>5, <1>6, <1>14, <1>15, AppendedText

\* The statements of the pager and the placement, and the moves of the store,
\* leave the text alone.
LEMMA PlacingText ==
  TextInv /\ (Reload \/ OnStep \/ ForceRebalance \/ Apply \/ Place) => TextInv'
<1> SUFFICES ASSUME TextInv, Reload \/ OnStep \/ ForceRebalance \/ Apply \/ Place
             PROVE  TextInv'
  OBVIOUS
<1>1. TextTypes
  BY DEF TextInv
<1>2. /\ Done
      /\ UNCHANGED <<next, run, pending, content, tailPast, past, cache,
                     streamed, input, generated>>
  BY DEF Reload, OnStep, ForceRebalance, Apply, Place, BeginReload, BeginApply, vars, Done
<1>3. PICK x : At(x) /\ x \notin Marks
  BY DEF Reload, OnStep, ForceRebalance, Apply, Place, Marks
<1>4. Control' /\ \A y \in Marks : Left(y)' <=> Left(y)
  BY <1>1, <1>2, <1>3, Passed
<1> QED
  BY <1>2, <1>4, TextSame

LEMMA MovingText == TextInv /\ (Move \/ Retry \/ UNCHANGED allvars) => TextInv'
<1> SUFFICES ASSUME TextInv, Move \/ Retry \/ UNCHANGED allvars PROVE TextInv'
  OBVIOUS
<1>1. UNCHANGED gvars
  BY DEF Move, Retry, allvars
<1>2. next' = next
  BY DEF Move, Retry, allvars, vars, BeginReload, Return, Visit, Skip, OffloadToCpu,
         RefuseOffload, LoadToGpu, LoadMissing, OffloadFault, LoadFault
<1>3. UNCHANGED <<next, run, rest, pending, content, tailPast, past, cache,
                  streamed, input, generated>>
  BY <1>1, <1>2 DEF gvars
<1>4. Control' /\ \A y \in Marks : Left(y)' <=> Left(y)
  BY <1>3 DEF TextInv, TextTypes, Control, Left
<1> QED
  BY <1>3, <1>4, TextSame

LEMMA NextRoundText == TextInv /\ NextRound => TextInv'
<1> SUFFICES ASSUME TextInv, NextRound PROVE TextInv'
  OBVIOUS
<1>1. UNCHANGED <<next, run, pending, content, tailPast, past, cache,
                  streamed, input, generated>>
  BY DEF NextRound, vars
<1>2. TextTypes /\ run.script \in Scripts /\ Class(run.script)
  BY Numbers DEF TextInv
<1>3. /\ Control'
      /\ \A y : ~Left(y)
      /\ \A y \in Marks : Left(y)' => y \in {"rebuild", "reconstruct", "stream",
           "forward", "append", "append_grown", "keep_past"}
      /\ Appends(run.script) \/ Rebuilds(run.script) => Left("reconstruct")'
      /\ Grown(run.script) => Left("stream")'
      /\ Grown(run.script) <=> Left("append_grown")'
      /\ Grows(run.script) => Left("forward")'
      /\ Rebuilds(run.script) <=> Left("rebuild")'
      /\ Resident(run.script) \/ ReFeeds(run.script) =>
           Left("forward")' /\ ~Left("append")' /\ ~Left("append_grown")'
      /\ run.script # kv_roundtrip
      /\ Left("append")' => Appends(run.script)
      /\ Left("keep_past")' => Resident(run.script) \/ ReFeeds(run.script)
      /\ Left("forward")' => Grows(run.script) \/ Resident(run.script)
           \/ ReFeeds(run.script) \/ Rebuilds(run.script)
  BY <1>2, LeftAtRound
<1>4. /\ First' = First /\ Fed' = Fed /\ Text' = Text /\ Held' = Held
      /\ Blocks' = Blocks
  BY <1>1, SameRun
<1>5. /\ ~Filling /\ ~Filling' /\ ~Left("build")' /\ ~Left("refeed")'
      /\ ~Left("reconstruct_blocks")' /\ ~Left("build") /\ ~Left("refeed")
  BY <1>3 DEF Filling, Marks
<1>6. /\ RoundTrips(run.script) => ~Rebuilds(run.script) /\ ~Resident(run.script)
      /\ Grows(run.script) \/ RoundTrips(run.script) \/ Resident(run.script)
           \/ Rebuilds(run.script) \/ Dummies(run.script)
  BY <1>2 DEF Class
<1>7. TextTypes'
  BY <1>1, <1>2, <1>3 DEF TextTypes
<1>8. Fresh'
  BY <1>1, <1>5 DEF TextInv, Fresh
<1>9. TokensRight'
  BY <1>1, <1>4, <1>5 DEF TextInv, TokensRight
<1>10. BlocksRight'
  BY <1>1, <1>4 DEF TextInv, BlocksRight, Registered
<1>11. StoreRight'
  <2>1. SUFFICES ASSUME Storing'
                 PROVE  Held = Text /\ ~Growing'
    BY <1>4 DEF StoreRight
  <2>2. /\ ~Rebuilds(run.script) /\ ~Resident(run.script) /\ ~Dummies(run.script)
    BY <1>1, <1>3, <2>1 DEF Storing
  <2>3. Storing /\ ~Growing
    BY <1>3, <1>5, <2>2 DEF Storing, Growing
  <2>4. ~Growing'
    BY <1>3, <1>6, <2>2 DEF Growing, Grows, Grown
  <2> QED
    BY <2>3, <2>4 DEF TextInv, StoreRight
<1>12. CachesRight'
  <2>1. ~Recached'
    BY <1>1, <1>3 DEF Recached
  <2>2. Whole' => Whole
    BY <1>1, <1>3, <1>5 DEF Whole, Grows
  <2>3. Left("append_grown")' => Left("forward")'
    BY <1>3 DEF Grows, Grown
  <2>4. Ready' => Ready /\ ~Left("append_grown")' /\ ~Left("append_grown")
    BY <1>1, <1>3, <1>5 DEF Ready, Grows, Grown
  <2> QED
    BY <1>1, <1>4, <2>1, <2>2, <2>3, <2>4 DEF TextInv, CachesRight
<1> QED
  BY <1>7, <1>8, <1>9, <1>10, <1>11, <1>12 DEF TextInv

LEMMA TextStep == TextInv /\ [GenNext]_allvars => TextInv'
<1> SUFFICES ASSUME TextInv, [GenNext]_allvars PROVE TextInv'
  OBVIOUS
<1>1. CASE ChunkedPrefill
  BY <1>1, ChunkedPrefillText
<1>2. CASE Prefill
  BY <1>2, PrefillText
<1>3. CASE Build \/ Rebuild
  BY <1>3, BuildText
<1>4. CASE DummyBlocks
  BY <1>4, DummyBlocksText
<1>5. CASE Put
  BY <1>5, PutText
<1>6. CASE Reconstruct
  BY <1>6, ReconstructText
<1>7. CASE Stream
  BY <1>7, StreamText
<1>8. CASE KeepPast
  BY <1>8, KeepPastText
<1>9. CASE ReFeed
  BY <1>9, ReFeedText
<1>10. CASE Forward
  BY <1>10, ForwardText
<1>11. CASE AppendNewFullBlocks
  BY <1>11, AppendText
<1>12. CASE AppendFromGrownTail
  BY <1>12, AppendGrownText
<1>13. CASE Reload \/ OnStep \/ ForceRebalance \/ Apply \/ Place
  BY <1>13, PlacingText
<1>14. CASE Move \/ Retry \/ UNCHANGED allvars
  BY <1>14, MovingText
<1>15. CASE NextRound
  BY <1>15, NextRoundText
<1> QED
  BY <1>1, <1>2, <1>3, <1>4, <1>5, <1>6, <1>7, <1>8, <1>9, <1>10, <1>11,
     <1>12, <1>13, <1>14, <1>15 DEF GenNext

LEMMA TextAlways == GenSpec => []TextInv
<1>1. GenInit => TextInv
  BY TextInit
<1>2. TextInv /\ [GenNext]_allvars => TextInv'
  BY TextStep
<1> QED
  BY <1>1, <1>2, PTL DEF GenSpec

\* SameTokens for every prompt, chunk size, block size, budget and length of
\* the answer: paging changes no token that a script generates.
THEOREM PagingChangesNoToken == GenSpec => []SameTokens
<1>1. TextInv => SameTokens
  <2> SUFFICES ASSUME TextInv PROVE SameTokens
    OBVIOUS
  <2>1. DOMAIN generated = 1 .. Len(generated)
    BY DEF TextInv, TextTypes
  <2>2. \A i \in 1 .. Len(generated) : generated[i] = First + i
    BY DEF TextInv, TokensRight
  <2> QED
    BY <2>1, <2>2 DEF SameTokens, First, T
<1> QED
  BY <1>1, TextAlways, PTL

\* NoTokenLost: between two rounds the blocks and the tail are the tokens fed,
\* in order and each once, whatever was placed, refused or lost on the way.
THEOREM CacheIsTheText == GenSpec => []NoTokenLost
<1>1. TextInv => NoTokenLost
  <2> SUFFICES ASSUME TextInv, BetweenRounds,
                      run.script \notin {greedy_baseline_generate,
                        baseline_generate, kv_offload, pager_integration}
               PROVE  CASE ReFeeds(run.script) -> Cached = Upto(run.prompt)
                        [] run.script = kv_roundtrip ->
                             Cached = Upto(run.prompt) /\ cache \o tailPast = Cached
                        [] run.script = cache_block -> Cached = Upto(run.prompt)
                        [] OTHER -> Cached = Upto(run.prompt - 1 + Len(generated))
    BY DEF NoTokenLost
  <2>1. /\ TextTypes /\ Class(run.script) /\ Fed \in Nat /\ Text \in Nat
        /\ run.prompt \in Nat
    BY Numbers DEF TextInv
  <2>2. pending = <<>> /\ \A y : ~Left(y)
    BY DEF BetweenRounds, Left
  <2>3. ~Resident(run.script) /\ ~Dummies(run.script)
    BY DEF Resident, Dummies
  <2>4. ~Filling /\ ~Left("build") /\ ~Growing
    BY <2>2 DEF Filling, Growing
  <2>5. CASE Rebuilds(run.script)
    <3>1. past = Upto(Fed)
      BY <2>4, <2>5 DEF TextInv, CachesRight, Whole
    <3>2. ~ReFeeds(run.script) /\ run.script # kv_roundtrip /\ ~RoundTrips(run.script)
      BY <2>1, <2>5 DEF Class
    <3>3. run.script # cache_block
      BY <3>2 DEF RoundTrips
    <3>4. Fed = run.prompt - 1 + Len(generated)
      BY <3>2 DEF Fed, First
    <3> QED
      BY <2>5, <3>1, <3>2, <3>3, <3>4 DEF Cached, Rebuilds
  <2>6. CASE ~Rebuilds(run.script)
    <3>1. Held = Text
      BY <2>3, <2>4, <2>6 DEF TextInv, StoreRight, Storing
    <3>2. /\ StoredBlocks = Segment(0, next * T)
          /\ reconstruct_past_from_store = Segment(0, Held)
      BY <2>1, <2>2, <2>3, StoreGives DEF TextInv
    <3>3. Segment(0, Text) = Upto(Text)
      BY <2>1, SegmentProperties
    <3>4. Cached = Upto(Text)
      BY <2>6, <3>1, <3>2, <3>3 DEF Cached, Rebuilds
    <3>5. run.script = kv_roundtrip => cache \o tailPast = Cached
      <4>1. SUFFICES ASSUME run.script = kv_roundtrip
                     PROVE  cache \o tailPast = Cached
        OBVIOUS
      <4>2. cache = Upto(next * T)
        BY <2>2, <4>1 DEF TextInv, CachesRight, Recached
      <4>3. Segment(0, next * T) = Upto(next * T)
        BY <2>1, Numbers, SegmentProperties
      <4> QED
        BY <2>6, <3>2, <4>2, <4>3 DEF Cached, Rebuilds, reconstruct_past_from_store
    <3>6. /\ RoundTrips(run.script) <=> ReFeeds(run.script)
               \/ run.script = kv_roundtrip \/ run.script = cache_block
      BY DEF RoundTrips, ReFeeds
    <3>7. RoundTrips(run.script) => Text = run.prompt
      BY DEF Text
    <3>8. ~RoundTrips(run.script) => Text = run.prompt - 1 + Len(generated)
      BY <3>6 DEF Text, Fed, First
    <3> QED
      BY <3>4, <3>5, <3>6, <3>7, <3>8
  <2> QED
    BY <2>5, <2>6
<1> QED
  BY <1>1, TextAlways, PTL

-----------------------------------------------------------------------------
(* Pager and store                                                         *)

\* The scripts whose rounds (or first statements) end with apply, and those
\* that reload what they applied.  The others never run the pager.
Forces(s) == Appends(s) \/ Streams(s)
Applies(s) == Forces(s) \/ s \in {cache_block, pager_integration}
Reloads(s) ==
  s \in {paged_generate, kv_roundtrip, logits_roundtrip, generation_roundtrip}

Role(s) ==
  /\ Applies(s) => ~Reloads(s)
  /\ Forces(s) => s \notin {cache_block, pager_integration, kv_offload,
                            streaming_generate}
  /\ s \in {kv_offload, streaming_generate} => ~Applies(s) /\ ~Reloads(s)
  /\ s = streaming_generate => s # kv_offload
  /\ Resident(s) => ~Applies(s) /\ ~Reloads(s)
  /\ ReFeeds(s) => Reloads(s)

LEMMA RoleTable == ASSUME NEW s \in Scripts PROVE Role(s)
<1>1. Class(s) /\ Table(s)
  BY ClassTable, ScriptTable
<1>2. /\ Reloads(s) <=> Rebuilds(s) \/ ReFeeds(s) \/ s = kv_roundtrip
      /\ RoundTrips(s) <=> ReFeeds(s) \/ s = kv_roundtrip \/ s = cache_block
      /\ Dummies(s) <=> s = kv_offload \/ s = pager_integration
  BY DEF Reloads, Rebuilds, ReFeeds, RoundTrips, Dummies
<1>3. Forces(s) => ~RoundTrips(s) /\ ~Resident(s) /\ ~Dummies(s) /\ ~Rebuilds(s)
  BY <1>1 DEF Class, Grows, Forces
<1>4. streaming_generate.body = GroupedBody
  BY DEF streaming_generate, Script, GroupedBody
<1>5. Forces(s) => s # streaming_generate
  BY <1>4 DEF Forces, Appends, Streams, GroupedBody, _forward_step,
     _forward_step_streaming
<1>6. s = streaming_generate => Grows(s)
  BY DEF Grows
<1>7. /\ s = cache_block => ~ReFeeds(s) /\ s # kv_roundtrip
  <2>1. s = cache_block => s.prime = CachePrime
    BY PrimesOf
  <2> QED
    BY <2>1, ClassOf, PrimesDiffer
<1>8. /\ s = kv_offload => s.prime = OffloadPrime
      /\ s = pager_integration => s.prime = TracePrime
      /\ OffloadPrime # TracePrime
  BY PrimesOf DEF OffloadPrime, TracePrime
<1> QED
  BY <1>1, <1>2, <1>3, <1>5, <1>6, <1>7, <1>8 DEF Role, Applies, Class

\* Which script has which sequence, exactly.
Played(p, s) ==
  \/ p \in {_start_session, PolicyPrime} /\ Forces(s)
  \/ p \in {GreedyPrime, BaselinePrime} /\ Resident(s)
  \/ p \in {PagedPrime, PagedBody} /\ Reloads(s)
  \/ p \in {GroupedPrime, GroupedBody} /\ s = streaming_generate
  \/ p \in {RoundTripPrime, LogitsPrime, GenerationPrime} /\ Reloads(s)
  \/ p = CachePrime /\ s = cache_block
  \/ p = OffloadPrime /\ s = kv_offload
  \/ p \in {TracePrime, TraceBody} /\ s = pager_integration
  \/ p \in {_forward_step, _forward_step_streaming} /\ Forces(s)
  \/ p = ResidentBody /\ (Resident(s) \/ Reloads(s))
  \/ p = <<>>

LEMMA PlayedBy ==
  ASSUME NEW s \in Scripts, NEW p \in {s.prime, s.body}
  PROVE  Played(p, s)
<1>1. Table(s)
  BY ScriptTable
<1>2. /\ s = paged_generate \/ s = kv_roundtrip \/ ReFeeds(s) => Reloads(s)
      /\ RoundTrips(s) /\ ~ReFeeds(s) /\ s # kv_roundtrip => s = cache_block
  BY DEF Reloads, ReFeeds, RoundTrips
<1>3. s.body \in {_forward_step, _forward_step_streaming} => Forces(s)
  BY DEF Forces, Appends, Streams
<1> QED
  BY <1>1, <1>2, <1>3 DEF Table, Played

\* What is known of the script, and of what is left of it, where a statement of
\* the pager or the store is executed.
Here(s, x) ==
  /\ x = "on_step" =>
       /\ Forces(s) \/ s = cache_block \/ Reloads(s)
       /\ Left("apply")' /\ (Reloads(s) => Left("reload")')
       /\ ~Left("build") /\ ~Left("dummy_blocks")
  /\ x = "trace_step" =>
       /\ s = pager_integration
       /\ Left("apply")' /\ ~Left("build") /\ ~Left("dummy_blocks")
  /\ x = "force" =>
       /\ Forces(s)
       /\ Left("apply")' /\ ~Left("build") /\ ~Left("dummy_blocks")
  /\ x = "apply" =>
       /\ Applies(s) \/ Reloads(s)
       /\ Reloads(s) => Left("reload")'
  /\ x = "rebuild" => Reloads(s) /\ Left("reload")'
  /\ x = "append" =>
       Forces(s) /\ Left("force")' /\ ~Left("append_grown")
  /\ x = "append_grown" =>
       /\ s = streaming_generate \/ (Forces(s) /\ Left("force")')
       /\ ~Left("append")
  /\ x \in {"offload", "prefetch"} => s = kv_offload /\ ~Left("dummy_blocks")
  /\ x = "keep_recent" => s = streaming_generate
  /\ x = "dummy_blocks" => s \in {kv_offload, pager_integration}
  /\ Applies(s) /\ x \notin {"apply", "build", "dummy_blocks"} =>
       Left("apply")' \/ Left("build")'

LEMMA StepIn ==
  ASSUME run.script \in Scripts, Control, NEW x, At(x), rest' = Tail(rest)
  PROVE  Here(run.script, x)
<1>0. PICK s : s = run.script
  OBVIOUS
<1> SUFFICES Here(s, x)
  BY <1>0
<1>1. PICK p, k : Located(p, k, x)
  BY Locate
<1>2. /\ Played(p, s) /\ k \in 1 .. Len(p) /\ p[k] = x
      /\ \A y : Left(y)' <=> Among(p, k + 1, y)
      /\ \A y : Left(y) <=> Among(p, k, y)
  BY <1>0, <1>1, PlayedBy DEF Located
<1>3. k \in Nat \ {0} /\ k + 1 \in Nat \ {0}
  BY <1>2
<1>a. Role(s)
  BY <1>0, RoleTable
<1>4. CASE p = _start_session /\ Forces(s)
  <2>1. \/ k = 1 /\ x = "chunked_prefill"
        \/ k = 2 /\ x = "build"
    BY <1>2, <1>4, PlaceOf
  <2>2. \A y : Left(y)' <=>
          \/ k + 1 <= 1 /\ y = "chunked_prefill"
          \/ k + 1 <= 2 /\ y = "build"
    BY <1>2, <1>3, <1>4, LeftOf
  <2>3. \A y : Left(y) <=>
          \/ k <= 1 /\ y = "chunked_prefill"
          \/ k <= 2 /\ y = "build"
    BY <1>2, <1>3, <1>4, LeftOf
  <2> QED
    BY ONLY <1>3, <1>a, <1>4, <2>1, <2>2, <2>3 DEF Here, Role, Applies
<1>5. CASE p = PolicyPrime /\ Forces(s)
  <2>1. \/ k = 1 /\ x = "prefill"
        \/ k = 2 /\ x = "build"
    BY <1>2, <1>5, PlaceOf
  <2>2. \A y : Left(y)' <=>
          \/ k + 1 <= 1 /\ y = "prefill"
          \/ k + 1 <= 2 /\ y = "build"
    BY <1>2, <1>3, <1>5, LeftOf
  <2>3. \A y : Left(y) <=>
          \/ k <= 1 /\ y = "prefill"
          \/ k <= 2 /\ y = "build"
    BY <1>2, <1>3, <1>5, LeftOf
  <2> QED
    BY ONLY <1>3, <1>a, <1>5, <2>1, <2>2, <2>3 DEF Here, Role, Applies
<1>6. CASE p = GreedyPrime /\ Resident(s)
  <2>1. \/ k = 1 /\ x = "prefill"
        \/ k = 2 /\ x = "keep_past"
    BY <1>2, <1>6, PlaceOf
  <2>2. \A y : Left(y)' <=>
          \/ k + 1 <= 1 /\ y = "prefill"
          \/ k + 1 <= 2 /\ y = "keep_past"
    BY <1>2, <1>3, <1>6, LeftOf
  <2>3. \A y : Left(y) <=>
          \/ k <= 1 /\ y = "prefill"
          \/ k <= 2 /\ y = "keep_past"
    BY <1>2, <1>3, <1>6, LeftOf
  <2> QED
    BY ONLY <1>3, <1>a, <1>6, <2>1, <2>2, <2>3 DEF Here, Role, Applies
<1>7. CASE p = BaselinePrime /\ Resident(s)
  <2>1. \/ k = 1 /\ x = "chunked_prefill"
        \/ k = 2 /\ x = "keep_past"
    BY <1>2, <1>7, PlaceOf
  <2>2. \A y : Left(y)' <=>
          \/ k + 1 <= 1 /\ y = "chunked_prefill"
          \/ k + 1 <= 2 /\ y = "keep_past"
    BY <1>2, <1>3, <1>7, LeftOf
  <2>3. \A y : Left(y) <=>
          \/ k <= 1 /\ y = "chunked_prefill"
          \/ k <= 2 /\ y = "keep_past"
    BY <1>2, <1>3, <1>7, LeftOf
  <2> QED
    BY ONLY <1>3, <1>a, <1>7, <2>1, <2>2, <2>3 DEF Here, Role, Applies
<1>8. CASE p = PagedPrime /\ Reloads(s)
  <2>1. \/ k = 1 /\ x = "prefill"
    BY <1>2, <1>8, PlaceOf
  <2>2. \A y : Left(y)' <=>
          \/ k + 1 <= 1 /\ y = "prefill"
    BY <1>2, <1>3, <1>8, LeftOf
  <2>3. \A y : Left(y) <=>
          \/ k <= 1 /\ y = "prefill"
    BY <1>2, <1>3, <1>8, LeftOf
  <2> QED
    BY ONLY <1>3, <1>a, <1>8, <2>1, <2>2, <2>3 DEF Here, Role, Applies
<1>9. CASE p = GroupedPrime /\ s = streaming_generate
  <2>1. \/ k = 1 /\ x = "chunked_prefill"
        \/ k = 2 /\ x = "build"
        \/ k = 3 /\ x = "keep_recent"
    BY <1>2, <1>9, PlaceOf
  <2>2. \A y : Left(y)' <=>
          \/ k + 1 <= 1 /\ y = "chunked_prefill"
          \/ k + 1 <= 2 /\ y = "build"
          \/ k + 1 <= 3 /\ y = "keep_recent"
    BY <1>2, <1>3, <1>9, LeftOf
  <2>3. \A y : Left(y) <=>
          \/ k <= 1 /\ y = "chunked_prefill"
          \/ k <= 2 /\ y = "build"
          \/ k <= 3 /\ y = "keep_recent"
    BY <1>2, <1>3, <1>9, LeftOf
  <2> QED
    BY ONLY <1>3, <1>a, <1>9, <2>1, <2>2, <2>3 DEF Here, Role, Applies
<1>10. CASE p = RoundTripPrime /\ Reloads(s)
  <2>1. \/ k = 1 /\ x = "prefill_all"
        \/ k = 2 /\ x = "build"
        \/ k = 3 /\ x = "on_step"
        \/ k = 4 /\ x = "apply"
        \/ k = 5 /\ x = "reload"
        \/ k = 6 /\ x = "reconstruct_blocks"
    BY <1>2, <1>10, PlaceOf
  <2>2. \A y : Left(y)' <=>
          \/ k + 1 <= 1 /\ y = "prefill_all"
          \/ k + 1 <= 2 /\ y = "build"
          \/ k + 1 <= 3 /\ y = "on_step"
          \/ k + 1 <= 4 /\ y = "apply"
          \/ k + 1 <= 5 /\ y = "reload"
          \/ k + 1 <= 6 /\ y = "reconstruct_blocks"
    BY <1>2, <1>3, <1>10, LeftOf
  <2>3. \A y : Left(y) <=>
          \/ k <= 1 /\ y = "prefill_all"
          \/ k <= 2 /\ y = "build"
          \/ k <= 3 /\ y = "on_step"
          \/ k <= 4 /\ y = "apply"
          \/ k <= 5 /\ y = "reload"
          \/ k <= 6 /\ y = "reconstruct_blocks"
    BY <1>2, <1>3, <1>10, LeftOf
  <2> QED
    BY ONLY <1>3, <1>a, <1>10, <2>1, <2>2, <2>3 DEF Here, Role, Applies
<1>11. CASE p = LogitsPrime /\ Reloads(s)
  <2>1. \/ k = 1 /\ x = "prefill_all"
        \/ k = 2 /\ x = "build"
        \/ k = 3 /\ x = "on_step"
        \/ k = 4 /\ x = "apply"
        \/ k = 5 /\ x = "reload"
        \/ k = 6 /\ x = "reconstruct_blocks"
        \/ k = 7 /\ x = "refeed"
    BY <1>2, <1>11, PlaceOf
  <2>2. \A y : Left(y)' <=>
          \/ k + 1 <= 1 /\ y = "prefill_all"
          \/ k + 1 <= 2 /\ y = "build"
          \/ k + 1 <= 3 /\ y = "on_step"
          \/ k + 1 <= 4 /\ y = "apply"
          \/ k + 1 <= 5 /\ y = "reload"
          \/ k + 1 <= 6 /\ y = "reconstruct_blocks"
          \/ k + 1 <= 7 /\ y = "refeed"
    BY <1>2, <1>3, <1>11, LeftOf
  <2>3. \A y : Left(y) <=>
          \/ k <= 1 /\ y = "prefill_all"
          \/ k <= 2 /\ y = "build"
          \/ k <= 3 /\ y = "on_step"
          \/ k <= 4 /\ y = "apply"
          \/ k <= 5 /\ y = "reload"
          \/ k <= 6 /\ y = "reconstruct_blocks"
          \/ k <= 7 /\ y = "refeed"
    BY <1>2, <1>3, <1>11, LeftOf
  <2> QED
    BY ONLY <1>3, <1>a, <1>11, <2>1, <2>2, <2>3 DEF Here, Role, Applies
<1>12. CASE p = GenerationPrime /\ Reloads(s)
  <2>1. \/ k = 1 /\ x = "prefill_all"
        \/ k = 2 /\ x = "build"
        \/ k = 3 /\ x = "refeed"
        \/ k = 4 /\ x = "on_step"
        \/ k = 5 /\ x = "apply"
        \/ k = 6 /\ x = "reload"
        \/ k = 7 /\ x = "reconstruct_blocks"
    BY <1>2, <1>12, PlaceOf
  <2>2. \A y : Left(y)' <=>
          \/ k + 1 <= 1 /\ y = "prefill_all"
          \/ k + 1 <= 2 /\ y = "build"
          \/ k + 1 <= 3 /\ y = "refeed"
          \/ k + 1 <= 4 /\ y = "on_step"
          \/ k + 1 <= 5 /\ y = "apply"
          \/ k + 1 <= 6 /\ y = "reload"
          \/ k + 1 <= 7 /\ y = "reconstruct_blocks"
    BY <1>2, <1>3, <1>12, LeftOf
  <2>3. \A y : Left(y) <=>
          \/ k <= 1 /\ y = "prefill_all"
          \/ k <= 2 /\ y = "build"
          \/ k <= 3 /\ y = "refeed"
          \/ k <= 4 /\ y = "on_step"
          \/ k <= 5 /\ y = "apply"
          \/ k <= 6 /\ y = "reload"
          \/ k <= 7 /\ y = "reconstruct_blocks"
    BY <1>2, <1>3, <1>12, LeftOf
  <2> QED
    BY ONLY <1>3, <1>a, <1>12, <2>1, <2>2, <2>3 DEF Here, Role, Applies
<1>13. CASE p = CachePrime /\ s = cache_block
  <2>1. \/ k = 1 /\ x = "prefill_all"
        \/ k = 2 /\ x = "build"
        \/ k = 3 /\ x = "on_step"
        \/ k = 4 /\ x = "apply"
    BY <1>2, <1>13, PlaceOf
  <2>2. \A y : Left(y)' <=>
          \/ k + 1 <= 1 /\ y = "prefill_all"
          \/ k + 1 <= 2 /\ y = "build"
          \/ k + 1 <= 3 /\ y = "on_step"
          \/ k + 1 <= 4 /\ y = "apply"
    BY <1>2, <1>3, <1>13, LeftOf
  <2>3. \A y : Left(y) <=>
          \/ k <= 1 /\ y = "prefill_all"
          \/ k <= 2 /\ y = "build"
          \/ k <= 3 /\ y = "on_step"
          \/ k <= 4 /\ y = "apply"
    BY <1>2, <1>3, <1>13, LeftOf
  <2> QED
    BY ONLY <1>3, <1>a, <1>13, <2>1, <2>2, <2>3 DEF Here, Role, Applies
<1>14. CASE p = OffloadPrime /\ s = kv_offload
  <2>1. \/ k = 1 /\ x = "dummy_blocks"
        \/ k = 2 /\ x = "offload"
        \/ k = 3 /\ x = "prefetch"
    BY <1>2, <1>14, PlaceOf
  <2>2. \A y : Left(y)' <=>
          \/ k + 1 <= 1 /\ y = "dummy_blocks"
          \/ k + 1 <= 2 /\ y = "offload"
          \/ k + 1 <= 3 /\ y = "prefetch"
    BY <1>2, <1>3, <1>14, LeftOf
  <2>3. \A y : Left(y) <=>
          \/ k <= 1 /\ y = "dummy_blocks"
          \/ k <= 2 /\ y = "offload"
          \/ k <= 3 /\ y = "prefetch"
    BY <1>2, <1>3, <1>14, LeftOf
  <2> QED
    BY ONLY <1>3, <1>a, <1>14, <2>1, <2>2, <2>3 DEF Here, Role, Applies
<1>15. CASE p = TracePrime /\ s = pager_integration
  <2>1. \/ k = 1 /\ x = "dummy_blocks"
    BY <1>2, <1>15, PlaceOf
  <2>2. \A y : Left(y)' <=>
          \/ k + 1 <= 1 /\ y = "dummy_blocks"
    BY <1>2, <1>3, <1>15, LeftOf
  <2>3. \A y : Left(y) <=>
          \/ k <= 1 /\ y = "dummy_blocks"
    BY <1>2, <1>3, <1>15, LeftOf
  <2> QED
    BY ONLY <1>3, <1>a, <1>15, <2>1, <2>2, <2>3 DEF Here, Role, Applies
<1>16. CASE p = _forward_step /\ Forces(s)
  <2>1. \/ k = 1 /\ x = "reload"
        \/ k = 2 /\ x = "reconstruct"
        \/ k = 3 /\ x = "forward"
        \/ k = 4 /\ x = "append"
        \/ k = 5 /\ x = "on_step"
        \/ k = 6 /\ x = "force"
        \/ k = 7 /\ x = "apply"
    BY <1>2, <1>16, PlaceOf
  <2>2. \A y : Left(y)' <=>
          \/ k + 1 <= 1 /\ y = "reload"
          \/ k + 1 <= 2 /\ y = "reconstruct"
          \/ k + 1 <= 3 /\ y = "forward"
          \/ k + 1 <= 4 /\ y = "append"
          \/ k + 1 <= 5 /\ y = "on_step"
          \/ k + 1 <= 6 /\ y = "force"
          \/ k + 1 <= 7 /\ y = "apply"
    BY <1>2, <1>3, <1>16, LeftOf
  <2>3. \A y : Left(y) <=>
          \/ k <= 1 /\ y = "reload"
          \/ k <= 2 /\ y = "reconstruct"
          \/ k <= 3 /\ y = "forward"
          \/ k <= 4 /\ y = "append"
          \/ k <= 5 /\ y = "on_step"
          \/ k <= 6 /\ y = "force"
          \/ k <= 7 /\ y = "apply"
    BY <1>2, <1>3, <1>16, LeftOf
  <2> QED
    BY ONLY <1>3, <1>a, <1>16, <2>1, <2>2, <2>3 DEF Here, Role, Applies
<1>17. CASE p = _forward_step_streaming /\ Forces(s)
  <2>1. \/ k = 1 /\ x = "stream"
        \/ k = 2 /\ x = "forward"
        \/ k = 3 /\ x = "append_grown"
        \/ k = 4 /\ x = "on_step"
        \/ k = 5 /\ x = "force"
        \/ k = 6 /\ x = "apply"
    BY <1>2, <1>17, PlaceOf
  <2>2. \A y : Left(y)' <=>
          \/ k + 1 <= 1 /\ y = "stream"
          \/ k + 1 <= 2 /\ y = "forward"
          \/ k + 1 <= 3 /\ y = "append_grown"
          \/ k + 1 <= 4 /\ y = "on_step"
          \/ k + 1 <= 5 /\ y = "force"
          \/ k + 1 <= 6 /\ y = "apply"
    BY <1>2, <1>3, <1>17, LeftOf
  <2>3. \A y : Left(y) <=>
          \/ k <= 1 /\ y = "stream"
          \/ k <= 2 /\ y = "forward"
          \/ k <= 3 /\ y = "append_grown"
          \/ k <= 4 /\ y = "on_step"
          \/ k <= 5 /\ y = "force"
          \/ k <= 6 /\ y = "apply"
    BY <1>2, <1>3, <1>17, LeftOf
  <2> QED
    BY ONLY <1>3, <1>a, <1>17, <2>1, <2>2, <2>3 DEF Here, Role, Applies
<1>18. CASE p = ResidentBody /\ (Resident(s) \/ Reloads(s))
  <2>1. \/ k = 1 /\ x = "forward"
        \/ k = 2 /\ x = "keep_past"
    BY <1>2, <1>18, PlaceOf
  <2>2. \A y : Left(y)' <=>
          \/ k + 1 <= 1 /\ y = "forward"
          \/ k + 1 <= 2 /\ y = "keep_past"
    BY <1>2, <1>3, <1>18, LeftOf
  <2>3. \A y : Left(y) <=>
          \/ k <= 1 /\ y = "forward"
          \/ k <= 2 /\ y = "keep_past"
    BY <1>2, <1>3, <1>18, LeftOf
  <2> QED
    BY ONLY <1>3, <1>a, <1>18, <2>1, <2>2, <2>3 DEF Here, Role, Applies
<1>19. CASE p = PagedBody /\ Reloads(s)
  <2>1. \/ k = 1 /\ x = "rebuild"
        \/ k = 2 /\ x = "on_step"
        \/ k = 3 /\ x = "apply"
        \/ k = 4 /\ x = "reload"
        \/ k = 5 /\ x = "reconstruct"
        \/ k = 6 /\ x = "forward"
    BY <1>2, <1>19, PlaceOf
  <2>2. \A y : Left(y)' <=>
          \/ k + 1 <= 1 /\ y = "rebuild"
          \/ k + 1 <= 2 /\ y = "on_step"
          \/ k + 1 <= 3 /\ y = "apply"
          \/ k + 1 <= 4 /\ y = "reload"
          \/ k + 1 <= 5 /\ y = "reconstruct"
          \/ k + 1 <= 6 /\ y = "forward"
    BY <1>2, <1>3, <1>19, LeftOf
  <2>3. \A y : Left(y) <=>
          \/ k <= 1 /\ y = "rebuild"
          \/ k <= 2 /\ y = "on_step"
          \/ k <= 3 /\ y = "apply"
          \/ k <= 4 /\ y = "reload"
          \/ k <= 5 /\ y = "reconstruct"
          \/ k <= 6 /\ y = "forward"
    BY <1>2, <1>3, <1>19, LeftOf
  <2> QED
    BY ONLY <1>3, <1>a, <1>19, <2>1, <2>2, <2>3 DEF Here, Role, Applies
<1>20. CASE p = GroupedBody /\ s = streaming_generate
  <2>1. \/ k = 1 /\ x = "reload"
        \/ k = 2 /\ x = "stream"
        \/ k = 3 /\ x = "forward"
        \/ k = 4 /\ x = "append_grown"
        \/ k = 5 /\ x = "keep_recent"
    BY <1>2, <1>20, PlaceOf
  <2>2. \A y : Left(y)' <=>
          \/ k + 1 <= 1 /\ y = "reload"
          \/ k + 1 <= 2 /\ y = "stream"
          \/ k + 1 <= 3 /\ y = "forward"
          \/ k + 1 <= 4 /\ y = "append_grown"
          \/ k + 1 <= 5 /\ y = "keep_recent"
    BY <1>2, <1>3, <1>20, LeftOf
  <2>3. \A y : Left(y) <=>
          \/ k <= 1 /\ y = "reload"
          \/ k <= 2 /\ y = "stream"
          \/ k <= 3 /\ y = "forward"
          \/ k <= 4 /\ y = "append_grown"
          \/ k <= 5 /\ y = "keep_recent"
    BY <1>2, <1>3, <1>20, LeftOf
  <2> QED
    BY ONLY <1>3, <1>a, <1>20, <2>1, <2>2, <2>3 DEF Here, Role, Applies
<1>21. CASE p = TraceBody /\ s = pager_integration
  <2>1. \/ k = 1 /\ x = "trace_step"
        \/ k = 2 /\ x = "apply"
    BY <1>2, <1>21, PlaceOf
  <2>2. \A y : Left(y)' <=>
          \/ k + 1 <= 1 /\ y = "trace_step"
          \/ k + 1 <= 2 /\ y = "apply"
    BY <1>2, <1>3, <1>21, LeftOf
  <2>3. \A y : Left(y) <=>
          \/ k <= 1 /\ y = "trace_step"
          \/ k <= 2 /\ y = "apply"
    BY <1>2, <1>3, <1>21, LeftOf
  <2> QED
    BY ONLY <1>3, <1>a, <1>21, <2>1, <2>2, <2>3 DEF Here, Role, Applies
<1>22. p # <<>>
  BY <1>2, PlaceOf
<1> QED
  BY <1>2, <1>4, <1>5, <1>6, <1>7, <1>8, <1>9, <1>10, <1>11, <1>12,
     <1>13, <1>14, <1>15, <1>16, <1>17, <1>18, <1>19, <1>20, <1>21, <1>22 DEF Played

\* A step that registered blocks has not told the pager to place them yet.
Behind ==
  added /\ Left("force") /\ ~Left("append") /\ ~Left("append_grown")

\* No block waits to be put while a call runs or after one raised; what raised
\* is retried by a reload only; and short of that every block is somewhere.
Calls ==
  /\ call # "none" \/ Raised => pending = <<>>
  /\ Raised /\ call # "none" => call = "reload"
  /\ ~Raised => Registered \subseteq gpu \cup cpu

Placement ==
  /\ mass \in Nat
  /\ pg \in [fresh : BOOLEAN, count : Nat, vram : SUBSET Nat]
  /\ pg.vram \subseteq 0 .. pg.count - 1
  /\ Left("build") \/ Left("dummy_blocks") => pg.fresh
  /\ ~Applies(run.script) /\ ~Reloads(run.script) => pg.fresh

\* The pager knows no block the store does not have, and, once it was run, all
\* of them but those that the step under way has just added.
Known ==
  Applies(run.script) =>
    /\ pg.count <= next /\ mass \in 0 .. next
    /\ pending # <<>> => pg.fresh \/ Behind
    /\ run.script # pager_integration /\ ~pg.fresh /\ ~Behind => pg.count = next

Reloaded ==
  Reloads(run.script) /\ ~pg.fresh /\ ~Left("reload") =>
    /\ pending = <<>>
    /\ call = "reload" \/ (call = "none" /\ (Raised \/ last = "reload"))

Applied ==
  Applies(run.script) /\ rest = <<>> /\ ~pg.fresh =>
    (call = "apply" \/ (call = "none" /\ last = "apply") =>
       onGpu = pg.vram \cap Registered)

Offloaded ==
  run.script = kv_offload /\ ~Left("dummy_blocks") => Blocks > 0

Agreed ==
  Calls /\ Placement /\ Known /\ Reloaded /\ Applied /\ Offloaded

SyncInv == IInv /\ Agreed

LEMMA PassedAll ==
  ASSUME TextTypes, NEW x, At(x), Done
  PROVE  /\ run' = run /\ pending = <<>> /\ call = "none" /\ ~Raised
         /\ \A y : y # x => (Left(y)' <=> Left(y))
         /\ ~Left(x)' /\ Left(x)
         /\ Here(run.script, x) /\ Role(run.script)
         /\ rest # <<>> /\ (rest' = <<>> => \A y : ~Left(y)')
<1>1. run.script \in Scripts /\ Control /\ rest' = Tail(rest) /\ run' = run
  BY RunFacts DEF TextTypes, Done
<1>2. /\ \A y : y # x => (Left(y)' <=> Left(y))
      /\ ~Left(x)' /\ Here(run.script, x) /\ Role(run.script)
  BY <1>1, Mapped, Gone, StepIn, RoleTable
<1>3. Left(x)
  <2>1. PICK p, k : Located(p, k, x)
    BY <1>1, Locate
  <2>2. k \in k .. Len(p) /\ p[k] = x
    BY <2>1 DEF Located
  <2> QED
    BY <2>1, <2>2 DEF Located, Among
<1>4. rest' = <<>> => \A y : ~Left(y)'
  BY DEF Left
<1> QED
  BY <1>1, <1>2, <1>3, <1>4 DEF At

\* What a new store holds.
Renewed ==
  /\ next' = 0 /\ gpu' = {} /\ cpu' = {} /\ residentGpu' = 0
  /\ residentCpu' = 0 /\ call' = "none" /\ onGpu' = {} /\ todo' = {}
  /\ last' = "new" /\ faults' = faults

\* A new store is as good as any other.
LEMMA RenewedInv == IInv /\ Renewed => IInv'
<1> SUFFICES ASSUME IInv, Renewed PROVE IInv'
  OBVIOUS
<1>1. faults \in 0 .. MaxFaults
  BY DEF IInv, TypeOK
<1>2. Registered' = {}
  BY DEF Registered, Renewed
<1>3. Cardinality({}) = 0
  BY FS_EmptySet
<1>4. TypeOK'
  BY <1>1, StoreAssumption DEF TypeOK, Renewed
<1>5. Accounting'
  BY <1>3, StoreAssumption DEF Accounting, Renewed
<1>6. LostByFaultsOnly'
  BY <1>1, <1>2, <1>3 DEF LostByFaultsOnly, Renewed
<1>7. Progress' /\ ReturnedMeansPlaced'
  BY DEF Progress, ReturnedMeansPlaced, Renewed
<1> QED
  BY <1>4, <1>5, <1>6, <1>7 DEF IInv

\* The steps of a script are, for its store, steps of KVBlockStore or the
\* start of a new one.
LEMMA StoreMoves ==
  ASSUME TextInv, IInv, Offloaded, [GenNext]_allvars
  PROVE  [Next]_vars \/ Renewed
<1>2. ASSUME PutGpu \/ BeginReload \/ Return \/ (\E b \in Ids : Visit(b))
      PROVE  [Next]_vars
  BY <1>2 DEF Next
<1>3. ASSUME NEW w \in SUBSET Registered, BeginApply(w) PROVE [Next]_vars
  BY <1>3 DEF Next
<1>4. CASE Rebuild
  BY <1>4 DEF Rebuild, Renewed
<1>5. CASE UNCHANGED vars
  BY <1>5
<1>6. CASE Put \/ Reload \/ Move \/ Retry
  BY <1>2, <1>6 DEF Put, Reload, Move, Retry
<1>7. CASE Apply
  <2>1. pg.vram \cap Registered \in SUBSET Registered
    OBVIOUS
  <2>2. UNCHANGED vars \/ BeginApply(pg.vram \cap Registered)
    BY <1>7 DEF Apply
  <2> QED
    BY <1>3, <1>5, <2>1, <2>2
<1>10. CASE Place
  <2>1. PICK w : BeginApply(w) /\ w \subseteq Registered
    <3>1. CASE At("keep_recent") /\ BeginApply({b \in Registered : b >= next - KeepRecent})
      BY <3>1
    <3>2. CASE At("offload") /\ BeginApply({0})
      <4>1. run.script = kv_offload /\ ~Left("dummy_blocks") /\ pending = <<>>
        BY <1>10, <3>2, PassedAll DEF TextInv, Place, Here
      <4>2. next > 0 /\ next \in Nat
        BY <4>1 DEF Offloaded, Blocks, TextInv, TextTypes
      <4>3. {0} \subseteq Registered
        BY <4>2 DEF Registered
      <4> QED
        BY <3>2, <4>3
    <3>3. ASSUME NEW B \in SUBSET cpu, BeginApply(gpu \cup B)
          PROVE  \E w : BeginApply(w) /\ w \subseteq Registered
      <4>1. gpu \cup B \subseteq Registered
        BY <3>3 DEF IInv, TypeOK
      <4> QED
        BY <3>3, <4>1
    <3> QED
      BY <1>10, <3>1, <3>2, <3>3 DEF Place
  <2> QED
    BY <1>3, <2>1
<1>8. CASE \/ ChunkedPrefill \/ Prefill \/ Build \/ DummyBlocks \/ Reconstruct
           \/ Stream \/ KeepPast \/ ReFeed \/ Forward \/ AppendNewFullBlocks
           \/ AppendFromGrownTail \/ OnStep \/ ForceRebalance \/ NextRound
  <2>1. UNCHANGED vars
    BY <1>8 DEF ChunkedPrefill, Prefill, Build, DummyBlocks, Reconstruct, Stream,
       KeepPast, ReFeed, Forward, AppendNewFullBlocks, AppendFromGrownTail,
       OnStep, ForceRebalance, NextRound
  <2> QED
    BY <1>5, <2>1
<1>9. CASE UNCHANGED allvars
  BY <1>5, <1>9 DEF allvars
<1> QED
  BY <1>4, <1>6, <1>7, <1>8, <1>9, <1>10 DEF GenNext

LEMMA StoreStep ==
  ASSUME TextInv, IInv, Offloaded, [GenNext]_allvars
  PROVE  IInv'
BY StoreMoves, RenewedInv, NextInv

LEMMA RebalancedIs ==
  ASSUME NEW known \in Nat, NEW q \in Int, q + 1 \in Nat,
         NEW x \in Rebalanced(known, q)
  PROVE  /\ x \in [fresh : BOOLEAN, count : Nat, vram : SUBSET Nat]
         /\ x.vram \subseteq 0 .. x.count - 1
         /\ ~x.fresh
         /\ x.count = IF known >= q + 1 THEN known ELSE q + 1
<1> DEFINE c == Max({known, q + 1})
<1>1. c \in Nat /\ c = IF known >= q + 1 THEN known ELSE q + 1
  <2>1. c = IF known >= q + 1 THEN known ELSE q + 1
    BY DEF Max
  <2> QED
    BY <2>1
<1>2. PICK V \in kSubset(Min({run.slots, c}), 0 .. c - 1) :
        x = [fresh |-> FALSE, count |-> c, vram |-> V]
  BY DEF Rebalanced
<1>3. V \subseteq 0 .. c - 1
  BY <1>2 DEF kSubset
<1> HIDE DEF c
<1>4. V \subseteq Nat
  BY <1>1, <1>3
<1> QED
  BY <1>1, <1>2, <1>3, <1>4

LEMMA OnStepIs ==
  ASSUME Placement, NEW n \in Nat, NEW q \in Int, q + 1 \in Nat, OnStepTo(n, q)
  PROVE  /\ pg' \in [fresh : BOOLEAN, count : Nat, vram : SUBSET Nat]
         /\ pg'.vram \subseteq 0 .. pg'.count - 1
         /\ ~pg'.fresh
         /\ \/ /\ ~pg.fresh
               /\ pg'.count = IF pg.count >= n THEN pg.count ELSE n
            \/ /\ pg'.count >= q + 1
               /\ pg'.count \in {pg.count, n, q + 1}
<1> DEFINE c == Max({pg.count, n})
<1>1. pg.count \in Nat /\ pg.vram \subseteq 0 .. pg.count - 1
  BY DEF Placement
<1>2. c \in Nat /\ c = IF pg.count >= n THEN pg.count ELSE n
  <2>1. c = IF pg.count >= n THEN pg.count ELSE n
    BY <1>1 DEF Max
  <2> QED
    BY <1>1, <2>1
<1> HIDE DEF c
<1>3. pg' \in Rebalanced(c, q) \/ (~pg.fresh /\ pg' = [pg EXCEPT !.count = c])
  BY DEF OnStepTo, c
<1>4. CASE pg' \in Rebalanced(c, q)
  <2>1. /\ pg' \in [fresh : BOOLEAN, count : Nat, vram : SUBSET Nat]
        /\ pg'.vram \subseteq 0 .. pg'.count - 1
        /\ ~pg'.fresh
        /\ pg'.count = IF c >= q + 1 THEN c ELSE q + 1
    BY <1>2, <1>4, RebalancedIs
  <2> QED
    BY <1>1, <1>2, <2>1
<1>5. CASE ~pg.fresh /\ pg' = [pg EXCEPT !.count = c]
  <2>1. /\ pg' \in [fresh : BOOLEAN, count : Nat, vram : SUBSET Nat]
        /\ pg'.fresh = pg.fresh /\ pg'.count = c /\ pg'.vram = pg.vram
    BY <1>2, <1>5 DEF Placement
  <2>2. pg'.vram \subseteq 0 .. c - 1
    BY <1>1, <1>2, <2>1
  <2> QED
    BY <1>2, <1>5, <2>1, <2>2
<1> QED
  BY <1>3, <1>4, <1>5

\* A step that leaves the pager, the store and what is pending alone.
LEMMA QuietSync ==
  ASSUME TextInv, SyncInv,
         UNCHANGED <<vars, run, pg, pending, added>>,
         mass' \in Nat /\ (Applies(run.script) => mass' \in 0 .. next),
         (Left("build") \/ Left("dummy_blocks"))' =>
           Left("build") \/ Left("dummy_blocks"),
         Behind' <=> Behind,
         Left("reload") => Left("reload")',
         Left("dummy_blocks") => Left("dummy_blocks")',
         Applies(run.script) /\ rest' = <<>> => rest = <<>> \/ pg.fresh
  PROVE  Agreed'
<1>1. UNCHANGED <<next, gpu, cpu, call, onGpu, last>>
  BY DEF vars
<1>2. Raised' <=> Raised
  BY <1>1 DEF Raised
<1>3. Registered' = Registered /\ Blocks' = Blocks
  BY <1>1 DEF Registered, Blocks
<1>4. Calls'
  BY <1>1, <1>2, <1>3 DEF SyncInv, Agreed, Calls
<1>5. Placement'
  BY DEF SyncInv, Agreed, Placement
<1>6. Known'
  BY <1>1 DEF SyncInv, Agreed, Known
<1>7. Reloaded'
  BY <1>1, <1>2 DEF SyncInv, Agreed, Reloaded
<1>8. Applied'
  BY <1>1, <1>3 DEF SyncInv, Agreed, Applied
<1>9. Offloaded'
  BY <1>3 DEF SyncInv, Agreed, Offloaded
<1> QED
  BY <1>4, <1>5, <1>6, <1>7, <1>8, <1>9 DEF Agreed

LEMMA ReadingSync ==
  TextInv /\ SyncInv
    /\ (Prefill \/ Reconstruct \/ Stream \/ KeepPast \/ ReFeed \/ Forward)
      => Agreed'
<1> SUFFICES ASSUME TextInv, SyncInv,
                    Prefill \/ Reconstruct \/ Stream \/ KeepPast \/ ReFeed \/ Forward
             PROVE  Agreed'
  OBVIOUS
<1>1. TextTypes /\ next \in Nat
  BY DEF TextInv, TextTypes
<1>2. /\ Done
      /\ UNCHANGED <<vars, pg, pending, added>>
      /\ mass' = mass \/ mass' = 0 \/ mass' = next
  BY DEF Prefill, Reconstruct, Stream, KeepPast, ReFeed, Forward, Done
<1>3. PICK x : /\ At(x)
               /\ x \in {"prefill", "prefill_all", "reconstruct", "stream",
                         "reconstruct_blocks", "keep_past", "refeed", "forward"}
  BY DEF Prefill, Reconstruct, Stream, KeepPast, ReFeed, Forward
<1>4. /\ run' = run /\ \A y : y # x => (Left(y)' <=> Left(y))
      /\ Here(run.script, x)
      /\ rest' = <<>> => \A y : ~Left(y)'
  BY <1>1, <1>2, <1>3, PassedAll
<1>5. /\ Left("build")' <=> Left("build")
      /\ Left("dummy_blocks")' <=> Left("dummy_blocks")
      /\ Left("reload")' <=> Left("reload")
      /\ Left("force")' <=> Left("force")
      /\ Left("append")' <=> Left("append")
      /\ Left("append_grown")' <=> Left("append_grown")
  BY <1>3, <1>4
<1>6. Behind' <=> Behind
  BY <1>2, <1>5 DEF Behind
<1>7. Applies(run.script) /\ rest' = <<>> => pg.fresh
  <2>1. Applies(run.script) => Left("apply")' \/ Left("build")
    BY <1>3, <1>4 DEF Here
  <2> QED
    BY <1>4, <2>1 DEF SyncInv, Agreed, Placement
<1>8. mass' \in Nat /\ (Applies(run.script) => mass' \in 0 .. next)
  BY <1>1, <1>2 DEF SyncInv, Agreed, Known, Placement
<1> QED
  BY <1>2, <1>4, <1>5, <1>6, <1>7, <1>8, QuietSync

LEMMA ChunkedPrefillSync == TextInv /\ SyncInv /\ ChunkedPrefill => Agreed'
<1> SUFFICES ASSUME TextInv, SyncInv, ChunkedPrefill PROVE Agreed'
  OBVIOUS
<1>1. /\ At("chunked_prefill") /\ UNCHANGED <<vars, run, pg, pending, added, mass>>
      /\ rest' = Tail(rest) \/ rest' = rest
  BY DEF ChunkedPrefill
<1>2. mass' \in Nat /\ (Applies(run.script) => mass' \in 0 .. next)
  BY <1>1 DEF SyncInv, Agreed, Known, Placement
<1>3. CASE rest' = rest
  <2>1. \A y : Left(y)' <=> Left(y)
    BY <1>3 DEF Left
  <2>2. Behind' <=> Behind
    BY <1>1, <2>1 DEF Behind
  <2> QED
    BY <1>1, <1>2, <1>3, <2>1, <2>2, QuietSync
<1>4. CASE rest' = Tail(rest)
  <2>1. TextTypes /\ Done
    BY <1>1, <1>4 DEF TextInv, Done
  <2>2. /\ \A y : y # "chunked_prefill" => (Left(y)' <=> Left(y))
        /\ Here(run.script, "chunked_prefill")
        /\ rest' = <<>> => \A y : ~Left(y)'
    BY <1>1, <2>1, PassedAll
  <2>3. /\ Left("build")' <=> Left("build")
        /\ Left("dummy_blocks")' <=> Left("dummy_blocks")
        /\ Left("reload")' <=> Left("reload")
        /\ Left("force")' <=> Left("force")
        /\ Left("append")' <=> Left("append")
        /\ Left("append_grown")' <=> Left("append_grown")
    BY <2>2
  <2>4. Behind' <=> Behind
    BY <1>1, <2>3 DEF Behind
  <2>5. Applies(run.script) => Left("apply")' \/ Left("build")
    BY <2>2 DEF Here
  <2>6. Applies(run.script) /\ rest' = <<>> => pg.fresh
    BY <2>2, <2>5 DEF SyncInv, Agreed, Placement
  <2> QED
    BY <1>1, <1>2, <2>3, <2>4, <2>6, QuietSync
<1> QED
  BY <1>1, <1>3, <1>4

LEMMA NextRoundSync == TextInv /\ SyncInv /\ NextRound => Agreed'
<1> SUFFICES ASSUME TextInv, SyncInv, NextRound PROVE Agreed'
  OBVIOUS
<1> DEFINE p == run.script.body
<1>1. /\ run.script \in Scripts
      /\ rest = <<>> /\ rest' = p /\ p # <<>>
      /\ UNCHANGED <<vars, run, pg, pending, added, mass>>
  BY RunFacts DEF TextInv, TextTypes, NextRound
<1>2. \A y : ~Left(y)
  BY <1>1 DEF Left
<1>3. \A y : Left(y)' <=> Among(p, 1, y)
  <2>1. p \in Seq(Statements)
    BY <1>1, StatementsOf
  <2> QED
    BY <1>1, <2>1, BeforeAll DEF Left
<1>4. Table(run.script)
  BY <1>1, ScriptTable
<1> HIDE DEF p
<1>5. p \in {_forward_step, _forward_step_streaming, ResidentBody, PagedBody,
             GroupedBody, TraceBody}
  BY <1>1, <1>4 DEF Table, p
<1>6. /\ ~Left("build")' /\ ~Left("dummy_blocks")'
      /\ Left("force")' => Left("append")' \/ Left("append_grown")'
  <2>1. /\ \A q : q = "build" => ~Among(p, 1, q)
        /\ \A q : q = "dummy_blocks" => ~Among(p, 1, q)
    BY <1>5, LeftOf
  <2>2. Among(p, 1, "force") => Among(p, 1, "append") \/ Among(p, 1, "append_grown")
    <3>1. CASE p = _forward_step
      BY <3>1, LeftOf
    <3>2. CASE p = _forward_step_streaming
      BY <3>2, LeftOf
    <3>3. CASE p \in {ResidentBody, PagedBody, GroupedBody, TraceBody}
      BY <3>3, LeftOf
    <3> QED
      BY <1>5, <3>1, <3>2, <3>3
  <2> QED
    BY <1>3, <2>1, <2>2
<1>7. ~Behind /\ ~Behind'
  BY <1>2, <1>6 DEF Behind
<1>8. mass' \in Nat /\ (Applies(run.script) => mass' \in 0 .. next)
  BY <1>1 DEF SyncInv, Agreed, Known, Placement
<1> QED
  BY <1>1, <1>2, <1>6, <1>7, <1>8, QuietSync

\* The blocks of the prompt, or of the scripts without a model.
LEMMA StartingSync ==
  TextInv /\ TextInv' /\ SyncInv /\ (Build \/ DummyBlocks) => Agreed'
<1> SUFFICES ASSUME TextInv, TextInv', SyncInv, Build \/ DummyBlocks PROVE Agreed'
  OBVIOUS
<1>1. PICK x \in {"build", "dummy_blocks"} : At(x)
  BY DEF Build, DummyBlocks
<1>2. /\ Done /\ UNCHANGED <<vars, pg, added, mass>>
      /\ TextTypes /\ TextTypes'
  BY DEF TextInv, Build, DummyBlocks
<1>3. /\ run' = run /\ Left(x) /\ call = "none" /\ ~Raised
      /\ \A y : y # x => (Left(y)' <=> Left(y))
      /\ Role(run.script) /\ Here(run.script, x) /\ pending = <<>>
  BY <1>1, <1>2, PassedAll
<1>4. pg.fresh /\ pg' = pg
  BY <1>1, <1>2, <1>3 DEF SyncInv, Agreed, Placement
<1>5. /\ UNCHANGED <<next, gpu, cpu, call, onGpu, last>>
      /\ Raised' <=> Raised
  BY <1>2 DEF vars, Raised
<1>6. Calls'
  BY <1>3, <1>5 DEF SyncInv, Agreed, Calls, Registered
<1>7. Placement'
  BY <1>2, <1>3, <1>4 DEF SyncInv, Agreed, Placement
<1>8. Known'
  BY <1>2, <1>3, <1>4, <1>5 DEF SyncInv, Agreed, Known
<1>9. Reloaded' /\ Applied'
  BY <1>4 DEF Reloaded, Applied
<1>10. Offloaded'
  <2>1. SUFFICES ASSUME run.script = kv_offload, ~Left("dummy_blocks")'
                 PROVE  Blocks' > 0
    BY <1>3 DEF Offloaded
  <2>2. next \in Nat /\ Len(pending') \in Nat
    BY <1>2 DEF TextTypes
  <2>3. CASE Build
    <3>1. ~Left("dummy_blocks")
      BY <1>2, <2>1, <2>3, PassedAll DEF Build
    <3>2. next > 0
      BY <1>3, <2>1, <2>2, <3>1 DEF SyncInv, Agreed, Offloaded, Blocks
    <3> QED
      BY <1>5, <2>2, <3>2 DEF Blocks
  <2>4. CASE DummyBlocks
    <3>1. Len(pending') = MaxBlocks - 1
      <4>1. /\ pending' = [i \in 1 .. MaxBlocks - 1 |-> <<>>]
            /\ MaxBlocks - 1 \in Nat
        BY <2>4, StoreAssumption, GenerationAssumption DEF DummyBlocks
      <4> QED
        BY <4>1
    <3>2. MaxBlocks - 1 > 0
      BY StoreAssumption, GenerationAssumption
    <3> QED
      BY <1>5, <2>2, <3>1, <3>2 DEF Blocks
  <2> QED
    BY <2>3, <2>4
<1> QED
  BY <1>6, <1>7, <1>8, <1>9, <1>10 DEF Agreed

LEMMA RebuildSync == TextInv /\ SyncInv /\ Rebuild => Agreed'
<1> SUFFICES ASSUME TextInv, SyncInv, Rebuild PROVE Agreed'
  OBVIOUS
<1>1. /\ At("rebuild") /\ Done /\ TextTypes
      /\ next' = 0 /\ call' = "none" /\ last' = "new" /\ pg' = pg
      /\ mass' = mass
  BY DEF TextInv, Rebuild
<1>2. /\ run' = run
      /\ \A y : y # "rebuild" => (Left(y)' <=> Left(y))
      /\ Role(run.script) /\ Here(run.script, "rebuild")
  BY <1>1, PassedAll
<1>3. /\ Reloads(run.script) /\ Left("reload")'
      /\ ~Applies(run.script) /\ run.script # kv_offload
  BY <1>2 DEF Here, Role
<1>4. Calls'
  BY <1>1 DEF Calls, Registered, Raised
<1>5. Placement'
  BY <1>1, <1>2 DEF SyncInv, Agreed, Placement
<1>6. Known' /\ Reloaded' /\ Applied' /\ Offloaded'
  BY <1>2, <1>3 DEF Known, Reloaded, Applied, Offloaded
<1> QED
  BY <1>4, <1>5, <1>6 DEF Agreed

LEMMA PutSync == TextInv /\ SyncInv /\ Put => Agreed'
<1> SUFFICES ASSUME TextInv, SyncInv, Put PROVE Agreed'
  OBVIOUS
<1>1. /\ pending # <<>> /\ pending' = Tail(pending) /\ call = "none"
      /\ next' = next + 1 /\ gpu' = gpu \cup {next} /\ cpu' = cpu
      /\ call' = call /\ last' = "put" /\ onGpu' = onGpu
      /\ UNCHANGED <<run, rest, pg, mass, added>>
  BY DEF Put, PutGpu
<1>2. next \in Nat /\ pending \in Seq(Seq(Nat))
  BY DEF TextInv, TextTypes
<1>3. /\ \A y : Left(y)' <=> Left(y)
      /\ Behind' <=> Behind
  BY <1>1 DEF Left, Behind
<1>4. ~Raised /\ ~Raised'
  BY <1>1 DEF SyncInv, Agreed, Calls, Raised
<1>5. Calls'
  <2>1. Registered \subseteq gpu \cup cpu
    BY <1>4 DEF SyncInv, Agreed, Calls
  <2>2. Registered' = Registered \cup {next}
    BY <1>1, <1>2 DEF Registered
  <2> QED
    BY <1>1, <1>4, <2>1, <2>2 DEF Calls
<1>6. Placement'
  BY <1>1, <1>3 DEF SyncInv, Agreed, Placement
<1>7. Known'
  <2>1. SUFFICES ASSUME Applies(run.script) PROVE Known'
    BY <1>1 DEF Known
  <2>2. /\ pg.fresh \/ Behind
        /\ pg.count <= next /\ mass \in 0 .. next /\ pg.count \in Nat
    BY <1>1, <2>1 DEF SyncInv, Agreed, Known, Placement
  <2> QED
    BY <1>1, <1>2, <1>3, <2>2 DEF Known
<1>8. Reloaded'
  BY <1>1, <1>3 DEF SyncInv, Agreed, Reloaded
<1>9. Applied'
  BY <1>1 DEF Applied
<1>10. Offloaded'
  <2>1. Len(pending') \in Nat
    BY <1>1, <1>2
  <2> QED
    BY <1>1, <1>2, <2>1 DEF Offloaded, Blocks
<1> QED
  BY <1>5, <1>6, <1>7, <1>8, <1>9, <1>10 DEF Agreed

LEMMA AppendSync ==
  TextInv /\ SyncInv /\ (AppendNewFullBlocks \/ AppendFromGrownTail) => Agreed'
<1> SUFFICES ASSUME TextInv, SyncInv, AppendNewFullBlocks \/ AppendFromGrownTail
             PROVE  Agreed'
  OBVIOUS
<1>1. PICK x \in {"append", "append_grown"} : At(x)
  BY DEF AppendNewFullBlocks, AppendFromGrownTail
<1>2. /\ Done /\ TextTypes /\ UNCHANGED <<vars, pg, mass>>
      /\ added' <=> pending' # <<>>
  BY DEF TextInv, AppendNewFullBlocks, AppendFromGrownTail
<1>3. /\ run' = run /\ Left(x) /\ call = "none" /\ ~Raised
      /\ ~Left(x)' /\ \A y : y # x => (Left(y)' <=> Left(y))
      /\ Role(run.script) /\ Here(run.script, x)
      /\ rest' = <<>> => \A y : ~Left(y)'
  BY <1>1, <1>2, PassedAll
<1>4. /\ ~Reloads(run.script) /\ run.script # kv_offload
      /\ Applies(run.script) => Left("force")'
      /\ ~Left("append")' /\ ~Left("append_grown")'
  BY <1>1, <1>3 DEF Here, Role, Applies
<1>5. ~Behind /\ (Applies(run.script) => (Behind' <=> pending' # <<>>))
  BY <1>1, <1>2, <1>3, <1>4 DEF Behind
<1>6. /\ UNCHANGED <<next, gpu, cpu, call, onGpu, last>>
      /\ Raised' <=> Raised
  BY <1>2 DEF vars, Raised
<1>7. Calls'
  BY <1>3, <1>6 DEF SyncInv, Agreed, Calls, Registered
<1>8. Placement'
  BY <1>1, <1>2, <1>3 DEF SyncInv, Agreed, Placement
<1>9. Known'
  BY <1>2, <1>3, <1>5, <1>6 DEF SyncInv, Agreed, Known
<1>10. Reloaded' /\ Offloaded'
  BY <1>3, <1>4 DEF Reloaded, Offloaded
<1>11. Applied'
  BY <1>3, <1>4 DEF Applied
<1> QED
  BY <1>7, <1>8, <1>9, <1>10, <1>11 DEF Agreed

\* on_step makes the pager know what the attention covered; the placement it
\* decides is applied later in the round.
LEMMA OnStepSync == TextInv /\ SyncInv /\ OnStep => Agreed'
<1> SUFFICES ASSUME TextInv, SyncInv, OnStep PROVE Agreed'
  OBVIOUS
<1>1. PICK x \in {"on_step", "trace_step"} : At(x)
  BY DEF OnStep
<1>2. /\ Done /\ TextTypes
      /\ UNCHANGED <<vars, mass, added, pending>>
  BY DEF TextInv, OnStep
<1>3. /\ run' = run /\ pending = <<>> /\ call = "none" /\ ~Raised
      /\ \A y : y # x => (Left(y)' <=> Left(y))
      /\ Role(run.script) /\ Here(run.script, x)
      /\ rest' = <<>> => \A y : ~Left(y)'
  BY <1>1, <1>2, PassedAll
<1>4. /\ Left("apply")' /\ (Reloads(run.script) => Left("reload")')
      /\ ~Left("build")' /\ ~Left("dummy_blocks")'
      /\ Applies(run.script) \/ Reloads(run.script)
      /\ run.script # kv_offload
  BY <1>1, <1>3 DEF Here, Role, Applies
<1>5. /\ UNCHANGED <<next, gpu, cpu, call, onGpu, last>>
      /\ Raised' <=> Raised
      /\ Behind' <=> Behind
  BY <1>1, <1>2, <1>3 DEF vars, Raised, Behind
<1>6. /\ next \in Nat /\ mass \in Nat /\ pg.count \in Nat /\ Placement
      /\ Applies(run.script) => pg.count <= next /\ mass <= next
      /\ Applies(run.script) /\ run.script # pager_integration /\ ~pg.fresh
           /\ ~Behind => pg.count = next
  BY <1>2 DEF TextTypes, SyncInv, Agreed, Placement, Known
<1> DEFINE Given ==
      /\ pg' \in [fresh : BOOLEAN, count : Nat, vram : SUBSET Nat]
      /\ pg'.vram \subseteq 0 .. pg'.count - 1
      /\ Applies(run.script) => pg'.count <= next
      /\ Applies(run.script) /\ run.script # pager_integration /\ ~pg'.fresh
           /\ ~Behind => pg'.count = next
<1>7. ASSUME pg' = pg PROVE Given
  <2>1. /\ pg \in [fresh : BOOLEAN, count : Nat, vram : SUBSET Nat]
        /\ pg.vram \subseteq 0 .. pg.count - 1
    BY <1>6 DEF Placement
  <2> QED
    BY ONLY <1>6, <1>7, <2>1
<1>8. ASSUME x = "on_step", NEW n \in AttentionLengths, OnStepTo(n, next - 1)
      PROVE  Given
  <2>1. n \in Nat /\ (Applies(run.script) => n <= next)
    BY <1>6, <1>8 DEF AttentionLengths
  <2>2. next - 1 \in Int /\ (next - 1) + 1 \in Nat /\ (next - 1) + 1 = next
    BY <1>6
  <2>3. /\ pg' \in [fresh : BOOLEAN, count : Nat, vram : SUBSET Nat]
        /\ pg'.vram \subseteq 0 .. pg'.count - 1
        /\ \/ /\ ~pg.fresh
              /\ pg'.count = IF pg.count >= n THEN pg.count ELSE n
           \/ /\ pg'.count >= (next - 1) + 1
              /\ pg'.count \in {pg.count, n, (next - 1) + 1}
    BY <1>6, <1>8, <2>1, <2>2, OnStepIs
  <2>4. Applies(run.script) => pg'.count <= next
    BY ONLY <1>6, <2>1, <2>2, <2>3
  <2>5. Applies(run.script) /\ run.script # pager_integration /\ ~Behind
          => pg'.count = next
    BY ONLY <1>6, <2>1, <2>2, <2>3
  <2> QED
    BY <2>3, <2>4, <2>5
<1>9. ASSUME x = "trace_step", NEW q \in pg.count .. next - 1, OnStepTo(q + 1, q)
      PROVE  Given
  <2>1. q \in Nat /\ q + 1 \in Nat /\ q + 1 <= next
    BY <1>6, <1>9
  <2>2. run.script = pager_integration
    BY <1>3, <1>9 DEF Here
  <2>3. /\ pg' \in [fresh : BOOLEAN, count : Nat, vram : SUBSET Nat]
        /\ pg'.vram \subseteq 0 .. pg'.count - 1
        /\ \/ pg'.count = IF pg.count >= q + 1 THEN pg.count ELSE q + 1
           \/ pg'.count \in {pg.count, q + 1}
    BY <1>6, <1>9, <2>1, OnStepIs
  <2>4. Applies(run.script) => pg'.count <= next
    BY ONLY <1>6, <2>1, <2>3
  <2> QED
    BY <2>2, <2>3, <2>4
<1> HIDE DEF Given
<1>10. Given
  <2>1. CASE /\ At("on_step")
             /\ IF Idle THEN UNCHANGED pg
                ELSE \E n \in AttentionLengths : OnStepTo(n, next - 1)
    <3>1. x = "on_step"
      BY <1>1, <2>1 DEF At
    <3>2. CASE Idle
      BY <1>7, <2>1, <3>2
    <3>3. CASE ~Idle
      BY <1>8, <2>1, <3>1, <3>3
    <3> QED
      BY <3>2, <3>3
  <2>2. CASE At("trace_step") /\ \E q \in pg.count .. next - 1 : OnStepTo(q + 1, q)
    <3>1. x = "trace_step"
      BY <1>1, <2>2 DEF At
    <3> QED
      BY <1>9, <2>2, <3>1
  <2> QED
    BY <2>1, <2>2 DEF OnStep
<1>11. Calls'
  BY <1>2, <1>5 DEF SyncInv, Agreed, Calls, Registered
<1>12. Placement'
  BY <1>2, <1>3, <1>4, <1>6, <1>10 DEF Placement, Given
<1>13. Known'
  <2>1. Applies(run.script) => mass \in 0 .. next
    BY <1>6
  <2> QED
    BY <1>2, <1>3, <1>5, <1>10, <2>1 DEF Known, Given
<1>14. Reloaded' /\ Applied' /\ Offloaded'
  BY <1>3, <1>4 DEF Reloaded, Applied, Offloaded
<1> QED
  BY <1>11, <1>12, <1>13, <1>14 DEF Agreed

LEMMA ForceSync == TextInv /\ SyncInv /\ ForceRebalance => Agreed'
<1> SUFFICES ASSUME TextInv, SyncInv, ForceRebalance PROVE Agreed'
  OBVIOUS
<1>1. /\ At("force") /\ Done /\ TextTypes
      /\ UNCHANGED <<vars, mass, added, pending>>
      /\ IF added THEN pg' \in Rebalanced(pg.count, next - 1) ELSE pg' = pg
  BY DEF TextInv, ForceRebalance
<1>2. /\ run' = run /\ pending = <<>> /\ call = "none" /\ ~Raised
      /\ Left("force") /\ ~Left("force")'
      /\ \A y : y # "force" => (Left(y)' <=> Left(y))
      /\ Role(run.script) /\ Here(run.script, "force")
      /\ rest' = <<>> => \A y : ~Left(y)'
  BY <1>1, PassedAll
<1>3. /\ Left("apply")' /\ Applies(run.script) /\ ~Reloads(run.script)
      /\ ~Left("build")' /\ ~Left("dummy_blocks")'
      /\ run.script # kv_offload /\ run.script # pager_integration
  BY <1>2 DEF Here, Role, Applies
<1>4. /\ UNCHANGED <<next, gpu, cpu, call, onGpu, last>>
      /\ Raised' <=> Raised
      /\ ~Behind'
  BY <1>1, <1>2 DEF vars, Raised, Behind
<1>5. /\ next \in Nat /\ pg.count \in Nat /\ pg.count <= next
      /\ mass \in 0 .. next
      /\ ~pg.fresh /\ ~Behind => pg.count = next
      /\ pg \in [fresh : BOOLEAN, count : Nat, vram : SUBSET Nat]
      /\ pg.vram \subseteq 0 .. pg.count - 1
  BY <1>1, <1>3 DEF TextTypes, SyncInv, Agreed, Placement, Known
<1>6. /\ pg' \in [fresh : BOOLEAN, count : Nat, vram : SUBSET Nat]
      /\ pg'.vram \subseteq 0 .. pg'.count - 1
      /\ pg'.count <= next /\ (~pg'.fresh => pg'.count = next)
  <2>1. CASE added
    <3>1. /\ next - 1 \in Int /\ (next - 1) + 1 \in Nat
          /\ (next - 1) + 1 = next /\ pg' \in Rebalanced(pg.count, next - 1)
      BY <1>1, <1>5, <2>1
    <3>2. /\ pg' \in [fresh : BOOLEAN, count : Nat, vram : SUBSET Nat]
          /\ pg'.vram \subseteq 0 .. pg'.count - 1
          /\ pg'.count = IF pg.count >= (next - 1) + 1 THEN pg.count
                         ELSE (next - 1) + 1
      BY <1>5, <3>1, RebalancedIs
    <3>3. pg'.count = next
      BY ONLY <1>5, <3>1, <3>2
    <3> QED
      BY <1>5, <3>2, <3>3
  <2>2. CASE ~added
    <3>1. pg' = pg /\ ~Behind
      BY <1>1, <2>2 DEF Behind
    <3> QED
      BY <1>5, <3>1
  <2> QED
    BY <2>1, <2>2
<1>7. Calls'
  BY <1>1, <1>4 DEF SyncInv, Agreed, Calls, Registered
<1>8. Placement'
  BY <1>1, <1>2, <1>3, <1>5, <1>6 DEF Placement
<1>9. Known'
  BY <1>1, <1>2, <1>4, <1>5, <1>6 DEF Known
<1>10. Reloaded' /\ Applied' /\ Offloaded'
  BY <1>2, <1>3 DEF Reloaded, Applied, Offloaded
<1> QED
  BY <1>7, <1>8, <1>9, <1>10 DEF Agreed

\* apply_tiers starts on what the pager has in VRAM.
LEMMA ApplySync == TextInv /\ SyncInv /\ Apply => Agreed'
<1> SUFFICES ASSUME TextInv, SyncInv, Apply PROVE Agreed'
  OBVIOUS
<1>1. /\ At("apply") /\ Done /\ TextTypes
      /\ UNCHANGED <<pg, mass, added, pending>>
      /\ IF Idle THEN UNCHANGED vars ELSE BeginApply(pg.vram \cap Registered)
  BY DEF TextInv, Apply
<1>2. /\ run' = run /\ pending = <<>> /\ call = "none" /\ ~Raised
      /\ \A y : y # "apply" => (Left(y)' <=> Left(y))
      /\ Role(run.script) /\ Here(run.script, "apply")
  BY <1>1, PassedAll
<1>3. /\ Applies(run.script) \/ Reloads(run.script)
      /\ Reloads(run.script) => Left("reload")'
      /\ run.script # kv_offload
  BY <1>2 DEF Here, Role
<1>4. /\ UNCHANGED <<next, gpu, cpu, last>>
      /\ \/ Idle /\ call' = "none" /\ onGpu' = onGpu
         \/ call' = "apply" /\ onGpu' = pg.vram \cap Registered
  BY <1>1, <1>2 DEF vars, BeginApply
<1>5. /\ Registered' = Registered
      /\ ~Raised'
      /\ Behind' <=> Behind
  BY <1>1, <1>2, <1>4 DEF Registered, Raised, Behind
<1>6. Calls'
  BY <1>1, <1>2, <1>4, <1>5 DEF SyncInv, Agreed, Calls
<1>7. Placement'
  BY <1>1, <1>2 DEF SyncInv, Agreed, Placement
<1>8. Known'
  BY <1>1, <1>2, <1>4, <1>5 DEF SyncInv, Agreed, Known
<1>9. Reloaded' /\ Offloaded'
  BY <1>2, <1>3 DEF Reloaded, Offloaded
<1>10. Applied'
  <2>1. CASE Idle /\ onGpu' = onGpu
    <3>1. Registered = {}
      BY <2>1 DEF Idle, Registered
    <3>2. onGpu = {}
      BY <3>1 DEF SyncInv, IInv, TypeOK
    <3> QED
      BY <1>5, <2>1, <3>1, <3>2 DEF Applied
  <2>2. CASE onGpu' = pg.vram \cap Registered
    BY <1>1, <1>5, <2>2 DEF Applied
  <2> QED
    BY <1>4, <2>1, <2>2
<1> QED
  BY <1>6, <1>7, <1>8, <1>9, <1>10 DEF Agreed

\* A reload starts; it is the last call that can raise before the cache is read.
LEMMA ReloadSync == TextInv /\ SyncInv /\ Reload => Agreed'
<1> SUFFICES ASSUME TextInv, SyncInv, Reload PROVE Agreed'
  OBVIOUS
<1>1. /\ At("reload") /\ Done /\ TextTypes
      /\ UNCHANGED <<pg, mass, added, pending>>
      /\ call' = "reload" /\ UNCHANGED <<next, gpu, cpu, last>>
  BY DEF TextInv, Reload, BeginReload
<1>2. /\ run' = run /\ pending = <<>> /\ ~Raised
      /\ \A y : y # "reload" => (Left(y)' <=> Left(y))
  BY <1>1, PassedAll
<1>3. /\ Registered' = Registered /\ Blocks' = Blocks
      /\ ~Raised'
      /\ Behind' <=> Behind
  BY <1>1, <1>2 DEF Registered, Blocks, Raised, Behind
<1>4. Calls'
  BY <1>1, <1>2, <1>3 DEF SyncInv, Agreed, Calls
<1>5. Placement'
  BY <1>1, <1>2 DEF SyncInv, Agreed, Placement
<1>6. Known'
  BY <1>1, <1>2, <1>3 DEF SyncInv, Agreed, Known
<1>7. Reloaded' /\ Applied'
  BY <1>1, <1>2 DEF Reloaded, Applied
<1>8. Offloaded'
  BY <1>2, <1>3 DEF SyncInv, Agreed, Offloaded
<1> QED
  BY <1>4, <1>5, <1>6, <1>7, <1>8 DEF Agreed

\* The scripts that place by hand run no pager.
LEMMA PlaceSync == TextInv /\ SyncInv /\ Place => Agreed'
<1> SUFFICES ASSUME TextInv, SyncInv, Place PROVE Agreed'
  OBVIOUS
<1>1. PICK x \in {"keep_recent", "offload", "prefetch"} : At(x)
  BY DEF Place
<1>2. /\ Done /\ TextTypes /\ UNCHANGED <<pg, mass, added, pending>>
      /\ call' = "apply" /\ UNCHANGED <<next, gpu, cpu, last>>
  BY DEF TextInv, Place, BeginApply
<1>3. /\ run' = run /\ pending = <<>> /\ ~Raised
      /\ \A y : y # x => (Left(y)' <=> Left(y))
      /\ Role(run.script) /\ Here(run.script, x)
  BY <1>1, <1>2, PassedAll
<1>4. ~Applies(run.script) /\ ~Reloads(run.script)
  BY <1>1, <1>3 DEF Here, Role
<1>5. /\ Registered' = Registered /\ Blocks' = Blocks
      /\ ~Raised'
  BY <1>2, <1>3 DEF Registered, Blocks, Raised
<1>6. Calls'
  BY <1>2, <1>3, <1>5 DEF SyncInv, Agreed, Calls
<1>7. Placement'
  BY <1>1, <1>2, <1>3 DEF SyncInv, Agreed, Placement
<1>8. Known' /\ Reloaded' /\ Applied'
  BY <1>3, <1>4 DEF Known, Reloaded, Applied
<1>9. Offloaded'
  BY <1>1, <1>3, <1>5 DEF SyncInv, Agreed, Offloaded
<1> QED
  BY <1>6, <1>7, <1>8, <1>9 DEF Agreed

\* A visit keeps every block on one side or the other, or it raises; an end
\* after which nothing is raised leaves none missing.
LEMMA MovingSync ==
  TextInv /\ SyncInv /\ IInv' /\ (Move \/ Retry \/ UNCHANGED allvars) => Agreed'
<1> SUFFICES ASSUME TextInv, SyncInv, IInv', Move \/ Retry \/ UNCHANGED allvars
             PROVE  Agreed'
  OBVIOUS
<1>1. /\ UNCHANGED <<run, rest, pg, mass, added, pending>>
      /\ UNCHANGED next
  BY DEF Move, Retry, BeginReload, gvars, allvars, vars, Return, Visit, Skip,
     OffloadToCpu, RefuseOffload, LoadToGpu, LoadMissing, OffloadFault, LoadFault
<1>2. /\ \A y : Left(y)' <=> Left(y)
      /\ Behind' <=> Behind
      /\ Registered' = Registered /\ Blocks' = Blocks
  BY <1>1 DEF Left, Behind, Registered, Blocks
<1>3. Placement' /\ Known' /\ Offloaded'
  <2>1. Placement'
    BY <1>1, <1>2 DEF SyncInv, Agreed, Placement
  <2>2. Known'
    BY <1>1, <1>2 DEF SyncInv, Agreed, Known
  <2>3. Offloaded'
    BY <1>1, <1>2 DEF SyncInv, Agreed, Offloaded
  <2> QED
    BY <2>1, <2>2, <2>3
<1>4. Calls /\ Reloaded /\ Applied
  BY DEF SyncInv, Agreed
<1>5. ASSUME /\ UNCHANGED <<call, onGpu, last>>
             /\ gpu' \cup cpu' = gpu \cup cpu
      PROVE  Agreed'
  <2>1. Raised' <=> Raised
    BY <1>5 DEF Raised
  <2>2. Calls'
    BY <1>1, <1>2, <1>4, <1>5, <2>1 DEF Calls
  <2>3. Reloaded'
    BY <1>1, <1>2, <1>4, <1>5, <2>1 DEF Reloaded
  <2>4. Applied'
    BY <1>1, <1>2, <1>4, <1>5 DEF Applied
  <2> QED
    BY <1>3, <2>2, <2>3, <2>4 DEF Agreed
<1>6. ASSUME call # "none", call' = "none", last' \in {"refused", "missing", "fault"}
      PROVE  Agreed'
  <2>1. Raised' /\ pending' = <<>>
    BY <1>1, <1>4, <1>6 DEF Raised, Calls
  <2>2. Calls' /\ Reloaded' /\ Applied'
    BY <1>6, <2>1 DEF Calls, Reloaded, Applied
  <2> QED
    BY <1>3, <2>2 DEF Agreed
<1>7. ASSUME NEW b \in Ids, Visit(b) PROVE Agreed'
  <2>1. CASE Skip(b) \/ OffloadToCpu(b) \/ LoadToGpu(b)
    <3>1. /\ UNCHANGED <<call, onGpu, last>>
          /\ gpu' \cup cpu' = gpu \cup cpu
      BY <2>1 DEF Skip, OffloadToCpu, LoadToGpu, LeaveGpu, LeaveCpu
    <3> QED
      BY <1>5, <3>1
  <2>2. CASE RefuseOffload(b) \/ LoadMissing(b) \/ OffloadFault(b) \/ LoadFault(b)
    <3>1. /\ call # "none" /\ call' = "none"
          /\ last' \in {"refused", "missing", "fault"}
      BY <2>2 DEF RefuseOffload, LoadMissing, OffloadFault, LoadFault, Raise, Visits
    <3> QED
      BY <1>6, <3>1
  <2> QED
    BY <1>7, <2>1, <2>2 DEF Visit
<1>8. CASE Return
  <2>1. /\ call # "none" /\ call' = "none" /\ last' = call
        /\ UNCHANGED <<gpu, cpu, onGpu>>
        /\ call \in {"apply", "reload"} /\ ~Raised'
    BY <1>8 DEF Return, Raised, SyncInv, IInv, TypeOK
  <2>2. pending' = <<>>
    BY <1>1, <1>4, <2>1 DEF Calls
  <2>3. Registered' \subseteq gpu' \cup cpu'
    <3>1. CASE call = "apply"
      BY <1>2, <1>4, <2>1, <3>1 DEF Calls
    <3>2. CASE call = "reload"
      BY <2>1, <3>2 DEF IInv, ReturnedMeansPlaced
    <3> QED
      BY <2>1, <3>1, <3>2
  <2>4. Calls'
    BY <2>1, <2>2, <2>3 DEF Calls
  <2>5. Reloaded'
    BY <1>1, <1>2, <1>4, <2>1, <2>2 DEF Reloaded
  <2>6. Applied'
    BY <1>1, <1>2, <1>4, <2>1 DEF Applied
  <2> QED
    BY <1>3, <2>4, <2>5, <2>6 DEF Agreed
<1>9. CASE Retry
  <2>1. /\ Raised /\ call' = "reload" /\ last' = last
    BY <1>9 DEF Retry, BeginReload
  <2>2. pending' = <<>> /\ Raised'
    BY <1>1, <1>4, <2>1 DEF Calls, Raised
  <2>3. Calls' /\ Reloaded' /\ Applied'
    BY <2>1, <2>2 DEF Calls, Reloaded, Applied
  <2> QED
    BY <1>3, <2>3 DEF Agreed
<1>10. CASE UNCHANGED allvars
  <2>1. UNCHANGED <<call, onGpu, last, gpu, cpu>>
    BY <1>10 DEF allvars, vars
  <2> QED
    BY <1>5, <2>1
<1> QED
  BY <1>7, <1>8, <1>9, <1>10 DEF Move

LEMMA SyncStep == TextInv /\ TextInv' /\ SyncInv /\ [GenNext]_allvars => SyncInv'
<1> SUFFICES ASSUME TextInv, TextInv', SyncInv, [GenNext]_allvars PROVE SyncInv'
  OBVIOUS
<1>1. IInv'
  BY StoreStep DEF SyncInv, Agreed
<1>2. Agreed'
  BY <1>1, ReadingSync, ChunkedPrefillSync, NextRoundSync, StartingSync,
     RebuildSync, PutSync, AppendSync, OnStepSync, ForceSync, ApplySync,
     ReloadSync, PlaceSync, MovingSync DEF GenNext
<1> QED
  BY <1>1, <1>2 DEF SyncInv

LEMMA SyncInit == GenInit => SyncInv
<1> SUFFICES ASSUME GenInit PROVE SyncInv
  OBVIOUS
<1>1. /\ Init /\ next = 0 /\ call = "none" /\ last = "new" /\ gpu = {} /\ cpu = {}
      /\ pending = <<>> /\ mass = 0 /\ added = FALSE /\ rest = run.script.prime
      /\ pg = [fresh |-> TRUE, count |-> 0, vram |-> {}]
  BY DEF GenInit, Init
<1>2. IInv
  BY <1>1, InitInv
<1>3. Calls
  BY <1>1 DEF Calls, Registered, Raised
<1>4. pg.fresh /\ pg.count = 0 /\ Placement
  BY <1>1 DEF Placement
<1>5. Known /\ Reloaded /\ Applied
  BY <1>1, <1>4 DEF Known, Reloaded, Applied
<1>6. Offloaded
  <2>1. ASSUME run.script = kv_offload PROVE Left("dummy_blocks")
    <3>1. rest = OffloadPrime
      BY <1>1, <2>1, PrimesOf
    <3>2. Len(OffloadPrime) = 3 /\ OffloadPrime[1] = "dummy_blocks"
      BY StatementTable
    <3>3. rest \in Seq(Statements)
      BY <1>1, StatementsOf, RunFacts DEF GenInit
    <3> QED
      BY <3>1, <3>2, <3>3 DEF Left
  <2> QED
    BY <2>1 DEF Offloaded
<1> QED
  BY <1>2, <1>3, <1>4, <1>5, <1>6 DEF SyncInv, Agreed

LEMMA SyncAlways == GenSpec => []SyncInv
<1>1. GenInit => SyncInv
  BY SyncInit
<1>2. TextInv /\ TextInv' /\ SyncInv /\ [GenNext]_allvars => SyncInv'
  BY SyncStep
<1> QED
  BY <1>1, <1>2, TextAlways, PTL DEF GenSpec

\* PagerInSync: after a round that ran the pager, the GPU holds exactly the
\* blocks the pager has in VRAM and the pager knows every block of the store,
\* whatever the block size, the budgets, the step at which a block fills up and
\* the copies that failed before.
THEOREM PagerAndStoreAgree == GenSpec => []PagerInSync
<1>1. TextInv /\ SyncInv => PagerInSync
  <2> SUFFICES ASSUME TextInv, SyncInv, BetweenRounds, last = "apply", ~pg.fresh
               PROVE  /\ gpu = pg.vram
                      /\ run.script # pager_integration => pg.count = next
    BY DEF PagerInSync
  <2>1. /\ rest = <<>> /\ call = "none" /\ ~Raised
        /\ next \in Nat /\ Role(run.script)
    BY RunFacts, RoleTable DEF TextInv, TextTypes, BetweenRounds
  <2>2. \A y : ~Left(y)
    BY <2>1 DEF Left
  <2>3. /\ Calls /\ Placement /\ Known /\ Reloaded /\ Applied
        /\ TypeOK /\ ReturnedMeansPlaced
    BY DEF SyncInv, Agreed, IInv
  <2>4. ~Reloads(run.script)
    BY <2>1, <2>2, <2>3 DEF Reloaded
  <2>5. Applies(run.script)
    BY <2>3, <2>4 DEF Placement
  <2>6. /\ pg.count \in Nat /\ pg.count <= next
        /\ pg.vram \subseteq 0 .. pg.count - 1
        /\ run.script # pager_integration => pg.count = next
    BY <2>2, <2>3, <2>5 DEF Known, Placement, Behind
  <2>7. pg.vram \subseteq Registered
    BY <2>1, <2>6 DEF Registered
  <2>8. /\ onGpu = pg.vram \cap Registered
        /\ gpu = (gpu \cup cpu) \cap onGpu
    BY <2>1, <2>3, <2>5 DEF Applied, ReturnedMeansPlaced
  <2>9. gpu \cup cpu = Registered
    BY <2>1, <2>3 DEF Calls, TypeOK
  <2>10. gpu = pg.vram
    BY ONLY <2>7, <2>8, <2>9
  <2> QED
    BY <2>6, <2>10
<1> QED
  BY <1>1, TextAlways, SyncAlways, PTL

\* The store keeps what KVBlockStore promises under every script, also across
\* the stores that paged_generate makes anew and the calls that raised: its
\* totals, the blocks it may lose, the placement of a call that returned.
THEOREM StoreServesTheScripts ==
  GenSpec => [](Accounting /\ LostByFaultsOnly /\ ReturnedMeansPlaced)
BY SyncAlways, PTL DEF SyncInv, IInv

\* ram_budget is not exceeded by any of them.
THEOREM ScriptsKeepTheBudget == GenSpec => []WithinRamBudget
<1>1. GenInit => WithinRamBudget
  BY StoreAssumption DEF GenInit, Init, WithinRamBudget
<1>2. ASSUME TextInv, SyncInv, WithinRamBudget, [GenNext]_allvars
      PROVE  WithinRamBudget'
  <2>1. TypeOK /\ IInv /\ Offloaded
    BY <1>2 DEF SyncInv, IInv, Agreed
  <2>2. [Next]_vars \/ Renewed
    BY <1>2, <2>1, StoreMoves
  <2>3. CASE Renewed
    BY <2>3, StoreAssumption DEF Renewed, WithinRamBudget
  <2> QED
    BY <1>2, <2>1, <2>2, <2>3, NextBudget
<1> QED
  BY <1>1, <1>2, TextAlways, SyncAlways, PTL DEF GenSpec

=============================================================================
