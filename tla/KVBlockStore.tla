---------------------------- MODULE KVBlockStore ----------------------------
(***************************************************************************)
(* pager_hf/kv_block_store.py: the KV blocks of one session, moved between *)
(* GPU and CPU memory.                                                     *)
(*                                                                         *)
(* Every block of a store has the same shape, so byte counts are in units  *)
(* of BlockBytes.  apply_tiers and _reload_all_blocks (the two callers of  *)
(* ensure_gpu and ensure_cpu) visit the blocks in ascending order; one     *)
(* visit is one step, since a visit may raise and then leaves the visits   *)
(* before it done.  A copy that runs out of memory is Fault: the code has  *)
(* by then dropped the block from the side it leaves.                      *)
(*                                                                         *)
(* Definitions named ...Mutant are slips the properties must catch; none is *)
(* part of the specification.                                              *)
(***************************************************************************)
EXTENDS Integers, FiniteSets

CONSTANTS
  MaxBlocks,   \* bound on the blocks a session registers
  BlockBytes,  \* kv_nbytes of a block
  RamBudget,   \* ram_budget_bytes
  MaxFaults    \* bound on the copies that run out of memory

ASSUME StoreAssumption ==
  /\ MaxBlocks \in Nat
  /\ BlockBytes \in Nat \ {0}
  /\ RamBudget \in Nat
  /\ MaxFaults \in Nat

VARIABLES
  next,         \* _num_blocks of the caller: the ids below were put_gpu
  gpu,          \* the keys of gpu_blocks
  cpu,          \* the keys of cpu_blocks
  residentGpu,  \* _resident_gpu_bytes
  residentCpu,  \* _resident_cpu_bytes
  call,         \* the call in progress: none, apply_tiers or _reload_all_blocks
  onGpu,        \* the ids that call wants on the GPU (tier 0)
  todo,         \* the ids it has not visited
  last,         \* how the last call ended
  faults        \* copies that ran out of memory so far

vars == <<next, gpu, cpu, residentGpu, residentCpu, call, onGpu, todo, last,
          faults>>

Ids == 0 .. MaxBlocks - 1
Registered == 0 .. next - 1

Init ==
  /\ next = 0
  /\ gpu = {} /\ cpu = {}
  /\ residentGpu = 0 /\ residentCpu = 0
  /\ call = "none" /\ onGpu = {} /\ todo = {}
  /\ last = "new"
  /\ faults = 0

\* put_gpu, for the id after the last one: PagedModel registers a block once.
PutGpu ==
  /\ call = "none"
  /\ next < MaxBlocks
  /\ next \notin cpu
  /\ gpu' = gpu \cup {next}
  /\ residentGpu' = residentGpu + BlockBytes
  /\ next' = next + 1
  /\ last' = "put"
  /\ UNCHANGED <<cpu, residentCpu, call, onGpu, todo, faults>>

\* apply_tiers visits the blocks the store holds; tiers 1 and 2 are both CPU.
BeginApply(wanted) ==
  /\ call = "none"
  /\ call' = "apply"
  /\ onGpu' = wanted
  /\ todo' = gpu \cup cpu
  /\ UNCHANGED <<next, gpu, cpu, residentGpu, residentCpu, last, faults>>

\* _reload_all_blocks visits every id below _num_blocks.
BeginReload ==
  /\ call = "none"
  /\ call' = "reload"
  /\ onGpu' = Registered
  /\ todo' = Registered
  /\ UNCHANGED <<next, gpu, cpu, residentGpu, residentCpu, last, faults>>

\* The block visited next.
Visits(b) == call # "none" /\ b \in todo /\ \A a \in todo : b <= a

\* The exception leaves the call; nothing is rolled back.
Raise(why) == call' = "none" /\ onGpu' = {} /\ todo' = {} /\ last' = why

\* A visit passes over a block it finds on either side.
SkipMutant(b) ==
  /\ Visits(b)
  /\ b \in gpu \cup cpu
  /\ todo' = todo \ {b}
  /\ UNCHANGED <<next, gpu, cpu, residentGpu, residentCpu, call, onGpu, last,
                 faults>>

Skip(b) ==
  /\ Visits(b)
  /\ IF b \in onGpu THEN b \in gpu ELSE b \in cpu
  /\ todo' = todo \ {b}
  /\ UNCHANGED <<next, gpu, cpu, residentGpu, residentCpu, call, onGpu, last,
                 faults>>

OverBudget == residentCpu + BlockBytes > RamBudget

\* The running total is not reduced.
LeaveGpuMutant(b) == gpu' = gpu \ {b} /\ UNCHANGED residentGpu

LeaveGpu(b) == gpu' = gpu \ {b} /\ residentGpu' = residentGpu - BlockBytes
LeaveCpu(b) == cpu' = cpu \ {b} /\ residentCpu' = residentCpu - BlockBytes

OffloadToCpu(b) ==
  /\ Visits(b) /\ b \notin onGpu /\ b \notin cpu
  /\ b \in gpu
  /\ ~OverBudget
  /\ LeaveGpu(b)
  /\ cpu' = cpu \cup {b}
  /\ residentCpu' = residentCpu + BlockBytes
  /\ todo' = todo \ {b}
  /\ UNCHANGED <<next, call, onGpu, last, faults>>

\* The block is popped before the check raises.
RefuseOffloadMutant(b) ==
  /\ Visits(b) /\ b \notin onGpu /\ b \notin cpu
  /\ b \in gpu
  /\ OverBudget
  /\ LeaveGpu(b)
  /\ Raise("refused")
  /\ UNCHANGED <<next, cpu, residentCpu, faults>>

\* "ram_budget exceeded": raised before anything moves.
RefuseOffload(b) ==
  /\ Visits(b) /\ b \notin onGpu /\ b \notin cpu
  /\ b \in gpu
  /\ OverBudget
  /\ Raise("refused")
  /\ UNCHANGED <<next, gpu, cpu, residentGpu, residentCpu, faults>>

LoadToGpu(b) ==
  /\ Visits(b) /\ b \in onGpu /\ b \notin gpu
  /\ b \in cpu
  /\ LeaveCpu(b)
  /\ gpu' = gpu \cup {b}
  /\ residentGpu' = residentGpu + BlockBytes
  /\ todo' = todo \ {b}
  /\ UNCHANGED <<next, call, onGpu, last, faults>>

\* load_to_gpu of a block that an earlier fault lost: KeyError.
LoadMissing(b) ==
  /\ Visits(b) /\ b \in onGpu
  /\ b \notin gpu \cup cpu
  /\ Raise("missing")
  /\ UNCHANGED <<next, gpu, cpu, residentGpu, residentCpu, faults>>

OffloadFault(b) ==
  /\ Visits(b) /\ b \notin onGpu /\ b \notin cpu
  /\ b \in gpu
  /\ ~OverBudget
  /\ faults < MaxFaults
  /\ LeaveGpu(b)
  /\ faults' = faults + 1
  /\ Raise("fault")
  /\ UNCHANGED <<next, cpu, residentCpu>>

LoadFault(b) ==
  /\ Visits(b) /\ b \in onGpu /\ b \notin gpu
  /\ b \in cpu
  /\ faults < MaxFaults
  /\ LeaveCpu(b)
  /\ faults' = faults + 1
  /\ Raise("fault")
  /\ UNCHANGED <<next, gpu, residentGpu>>

Return ==
  /\ call # "none" /\ todo = {}
  /\ call' = "none"
  /\ last' = call
  /\ UNCHANGED <<next, gpu, cpu, residentGpu, residentCpu, onGpu, todo, faults>>

Visit(b) ==
  \/ Skip(b) \/ OffloadToCpu(b) \/ RefuseOffload(b) \/ LoadToGpu(b)
  \/ LoadMissing(b) \/ OffloadFault(b) \/ LoadFault(b)

Next ==
  \/ PutGpu
  \/ \E wanted \in SUBSET Registered : BeginApply(wanted)
  \/ BeginReload
  \/ \E b \in Ids : Visit(b)
  \/ Return

Spec == Init /\ [][Next]_vars
-----------------------------------------------------------------------------
TypeOK ==
  /\ next \in 0 .. MaxBlocks
  /\ gpu \subseteq Registered
  /\ cpu \subseteq Registered
  /\ residentGpu \in Int
  /\ residentCpu \in Int
  /\ call \in {"none", "apply", "reload"}
  /\ onGpu \subseteq Registered
  /\ todo \subseteq Registered
  /\ last \in {"new", "put", "apply", "reload", "refused", "missing", "fault"}
  /\ faults \in 0 .. MaxFaults

\* A block lives on one side, and the totals kept incrementally are those a
\* scan of the dictionaries would give, also after a call that raised half way:
\* the budget check relies on them.
Accounting ==
  /\ gpu \cap cpu = {}
  /\ residentGpu = BlockBytes * Cardinality(gpu)
  /\ residentCpu = BlockBytes * Cardinality(cpu)

\* ram_budget is never exceeded, not even between two moves of one call.
WithinRamBudget == residentCpu <= RamBudget

\* Every fault loses at most the one block that was moving; nothing else that
\* raises loses any.
LostByFaultsOnly == Cardinality(Registered \ (gpu \cup cpu)) <= faults

\* A call that returns has placed every block it visited, however partial the
\* calls before it were; a reload that returns has every block on the GPU.
ReturnedMeansPlaced ==
  call = "none" =>
    /\ last = "apply" => gpu = (gpu \cup cpu) \cap onGpu
    /\ last = "reload" => gpu = Registered
=============================================================================
