------------------------------- MODULE Pager -------------------------------
(***************************************************************************)
(* pager/src/core.rs: the placement of the KV blocks of one session in the *)
(* tiers vram, ram and ssd.                                                *)
(*                                                                         *)
(* A call is atomic for its caller (it holds &mut self), so pc = "idle" is *)
(* what callers see.  In between, the two promotion loops take one step    *)
(* per iteration: whether they end, and where, is what the properties ask. *)
(*                                                                         *)
(* Block sizes are equal, so budgets count blocks.  Scores and margins are *)
(* natural numbers in the same unit; the moving average of update_scores   *)
(* may give a scored block any score.  The swap and peak metrics are left  *)
(* out.                                                                    *)
(*                                                                         *)
(* Definitions named ...Mutant are slips the properties must catch; none is *)
(* part of the specification.                                              *)
(***************************************************************************)
EXTENDS Integers, FiniteSetsExt

CONSTANTS
  MaxBlocks,   \* bound on the blocks of a session
  SinkBlocks,  \* SINK_BLOCKS
  MaxScore,    \* bound on the scores
  Configs      \* the PagerConfigs to consider

Policies == {"recent_only", "sinks_recent", "heavy_hitter", "sinks_heavy_hitter"}

ASSUME PagerAssumption ==
  /\ MaxBlocks \in Nat \ {0}
  /\ SinkBlocks \in Nat
  /\ MaxScore \in Nat
  /\ Configs \subseteq
       [vram : Nat, ram : Nat, recent_window : Nat,
        rebalance_interval : Nat \ {0}, promote_margin : Nat,
        ram_promote_margin : Nat, policy : Policies]

VARIABLES
  cfg,      \* self.cfg
  count,    \* self.blocks.len(); the ids are 0 .. count - 1
  tier,     \* block.tier; "ram" for the blocks to come, as ensure_blocks sets
  score,    \* block.score
  pinned,   \* the ids of the pinned blocks
  tokens,   \* metrics.tokens, wrapped where only its remainder matters
  pc,       \* the next statement of place_blocks, or "idle"
  oldTier,  \* old_tiers of place_blocks
  settled   \* whether the scores and blocks are those of the last rebalance

vars == <<cfg, count, tier, score, pinned, tokens, pc, oldTier, settled>>

Blocks == 0 .. MaxBlocks - 1
Live == 0 .. count - 1

Init ==
  /\ cfg \in Configs
  /\ count = 0
  /\ tier = [b \in Blocks |-> "ram"]
  /\ score = [b \in Blocks |-> 0]
  /\ pinned = {}
  /\ tokens = 0
  /\ pc = "idle"
  /\ oldTier = tier
  /\ settled = FALSE
-----------------------------------------------------------------------------
(* Orders and selections *)

\* An order is a set of pairs <<a, b>>, a before b.  The sorts are stable and
\* start from ascending ids.
Pairs == Blocks \X Blocks
ById == {p \in Pairs : p[1] < p[2]}
ByScore ==
  {p \in Pairs : score[p[1]] > score[p[2]] \/ (score[p[1]] = score[p[2]] /\ p \in ById)}
ByLowScore ==
  {p \in Pairs : score[p[1]] < score[p[2]] \/ (score[p[1]] = score[p[2]] /\ p \in ById)}

\* The pinned blocks first, in an order; then the others, in the same one.
PinsThen(order) ==
  {p \in Pairs : \/ p[1] \in pinned /\ p[2] \notin pinned
                 \/ (p[1] \in pinned <=> p[2] \in pinned) /\ p \in order}

PinnedByIdMutant == ById

PinnedById == PinsThen(ById)
PinnedByScore == PinsThen(ByScore)

\* The first n of S in an order.
First(S, n, order) ==
  {b \in S : Cardinality({a \in S : <<a, b>> \in order}) < n}

In(t) == {b \in Live : tier[b] = t}
NonVram == {b \in Live : tier[b] # "vram"}

Unpinned == In("vram") \ pinned

\* max_by keeps the last of the largest, min_by the first of the smallest.
IsBest(b, S) ==
  b \in S /\ \A a \in S : score[a] <= score[b] /\ (score[a] = score[b] => a <= b)
IsWorst(b, S) ==
  b \in S /\ \A a \in S : score[b] <= score[a] /\ (score[a] = score[b] => b <= a)

Moved(t, S, to) == [b \in Blocks |-> IF b \in S THEN to ELSE t[b]]
-----------------------------------------------------------------------------
(* Entry points *)

PinBlocks(token_idx, n) ==
  {b \in 0 .. n - 1 :
     \/ b >= token_idx - cfg.recent_window
     \/ cfg.policy # "recent_only" /\ b < SinkBlocks}

Due == tokens' = 1 \/ tokens' % cfg.rebalance_interval = 0

\* on_step with the scores of n blocks.  The query block is the last of them,
\* or, when a block filled up after the forward pass that scored them, the next:
\* it is pinned if there already, and ensured by a rebalance that is due.
OnStep(n, query_block) ==
  /\ pc = "idle"
  /\ n >= count
  /\ query_block \in {n - 1, n}
  /\ \E s \in [0 .. n - 1 -> 0 .. MaxScore] :
       score' = [b \in Blocks |-> IF b < n THEN s[b] ELSE 0]
  /\ tokens' = IF tokens = 2 * cfg.rebalance_interval
               THEN cfg.rebalance_interval + 1 ELSE tokens + 1
  /\ settled' = FALSE
  /\ IF Due THEN count' = query_block + 1 /\ pc' = "place" /\ oldTier' = tier
            ELSE count' = n /\ UNCHANGED <<pc, oldTier>>
  /\ pinned' = PinBlocks(query_block, count')
  /\ UNCHANGED <<cfg, tier>>

\* The block count is taken for the last block.
ForceRebalanceMutant(query_block) ==
  /\ pc = "idle" /\ count > 0
  /\ query_block \in {count - 1, count}
  /\ count' = query_block + 1
  /\ pinned' = PinBlocks(count', count')
  /\ oldTier' = tier
  /\ pc' = "place"
  /\ settled' = (settled /\ count' = count)
  /\ UNCHANGED <<cfg, tier, score, tokens>>

\* force_rebalance of the last block, which may be new to the pager: PagedModel
\* calls it after blocks were added; a second call in a row is the test's
\* idempotence check.
ForceRebalance(query_block) ==
  /\ pc = "idle" /\ count > 0
  /\ query_block \in {count - 1, count}
  /\ count' = query_block + 1
  /\ pinned' = PinBlocks(query_block, count')
  /\ oldTier' = tier
  /\ pc' = "place"
  /\ settled' = (settled /\ count' = count)
  /\ UNCHANGED <<cfg, tier, score, tokens>>
-----------------------------------------------------------------------------
(* place_blocks *)

Finish ==
  /\ pc' = "idle"
  /\ settled' = TRUE
  /\ UNCHANGED <<cfg, count, score, pinned, tokens, oldTier>>

\* assign_ranked_blocks, over all blocks.
Assigned(order) ==
  LET vram == First(Live, cfg.vram, order)
      kept == First(Live, cfg.vram + cfg.ram, order) IN
  [b \in Blocks |-> IF b \in vram THEN "vram"
                    ELSE IF b \in Live \ kept THEN "ssd" ELSE "ram"]

PlaceBaseline ==
  /\ pc = "place" /\ cfg.policy \in {"recent_only", "sinks_recent"}
  /\ tier' = Assigned(PinnedById)
  /\ Finish

PlaceHeavyFirst ==
  /\ pc = "place" /\ cfg.policy = "heavy_hitter"
  /\ In("vram") = {}
  /\ tier' = Assigned(PinnedByScore)
  /\ Finish

\* The pinned blocks go to VRAM; enforce_vram_budget_keep_best then drops what
\* exceeds the budget to RAM.
PinHeavy ==
  LET wanted == In("vram") \cup pinned IN
  /\ pc = "place" /\ cfg.policy = "heavy_hitter"
  /\ In("vram") # {}
  /\ tier' = [b \in Blocks |->
                IF b \notin wanted THEN tier[b]
                ELSE IF b \in First(wanted, cfg.vram, PinnedByScore) THEN "vram"
                ELSE "ram"]
  /\ pc' = "vram"
  /\ UNCHANGED <<cfg, count, score, pinned, tokens, oldTier, settled>>

\* RAM is trimmed and never filled.
FillRamMutant(t) ==
  LET ram == {b \in Live : t[b] = "ram"}
      n == Cardinality(ram) IN
  IF n >= cfg.ram THEN Moved(t, First(ram, n - cfg.ram, ByLowScore), "ssd")
                  ELSE t

\* fill_ram and trim_ram, on tiers t.
FillRam(t) ==
  LET ram == {b \in Live : t[b] = "ram"}
      ssd == {b \in Live : t[b] = "ssd"}
      n == Cardinality(ram) IN
  IF n >= cfg.ram THEN Moved(t, First(ram, n - cfg.ram, ByLowScore), "ssd")
                  ELSE Moved(t, First(ssd, cfg.ram - n, ByScore), "ram")

VramFullMutant == Cardinality(In("vram")) > cfg.vram

VramFull == Cardinality(In("vram")) >= cfg.vram
VramGainMutant(best, worst) == score[best] - score[worst] >= cfg.promote_margin

VramGain(best, worst) == score[best] - score[worst] > cfg.promote_margin

\* promote_vram_with_hysteresis, one iteration a step.
FillVram ==
  /\ pc = "vram" /\ ~VramFull
  /\ \E best \in NonVram :
       /\ IsBest(best, NonVram)
       /\ tier' = [tier EXCEPT ![best] = "vram"]
  /\ UNCHANGED <<cfg, count, score, pinned, tokens, pc, oldTier, settled>>

SwapVram ==
  /\ pc = "vram" /\ VramFull
  /\ \E best \in NonVram, worst \in Unpinned :
       /\ IsBest(best, NonVram)
       /\ IsWorst(worst, Unpinned)
       /\ VramGain(best, worst)
       /\ tier' = [tier EXCEPT ![best] = "vram", ![worst] = tier[best]]
  /\ UNCHANGED <<cfg, count, score, pinned, tokens, pc, oldTier, settled>>

\* The loop may end after any iteration.
EndVramMutant ==
  /\ pc = "vram"
  /\ VramFull \/ NonVram = {}
  /\ tier' = FillRam(tier)
  /\ pc' = "ram"
  /\ UNCHANGED <<cfg, count, score, pinned, tokens, oldTier, settled>>

EndVram ==
  /\ pc = "vram"
  /\ IF VramFull
     THEN \A best \in NonVram, worst \in Unpinned :
            IsBest(best, NonVram) /\ IsWorst(worst, Unpinned)
              => ~VramGain(best, worst)
     ELSE NonVram = {}
  /\ tier' = FillRam(tier)
  /\ pc' = "ram"
  /\ UNCHANGED <<cfg, count, score, pinned, tokens, oldTier, settled>>

RamGain(best, worst) == score[best] - score[worst] > cfg.ram_promote_margin

\* promote_ram_with_hysteresis, one iteration a step.
SwapRam ==
  /\ pc = "ram" /\ Cardinality(In("ram")) >= cfg.ram
  /\ \E best \in In("ssd"), worst \in In("ram") :
       /\ IsBest(best, In("ssd"))
       /\ IsWorst(worst, In("ram"))
       /\ RamGain(best, worst)
       /\ tier' = [tier EXCEPT ![best] = "ram", ![worst] = "ssd"]
  /\ UNCHANGED <<cfg, count, score, pinned, tokens, pc, oldTier, settled>>

EndRam ==
  /\ pc = "ram"
  /\ \/ Cardinality(In("ram")) < cfg.ram
     \/ \A best \in In("ssd"), worst \in In("ram") :
          IsBest(best, In("ssd")) /\ IsWorst(worst, In("ram"))
            => ~RamGain(best, worst)
  /\ UNCHANGED tier
  /\ Finish

AtMost(m, n) == IF m <= n THEN m ELSE n
AtLeast(m, n) == IF m >= n THEN m ELSE n

\* place_sinks_heavy_hitter: sinks, then recent blocks, then the best of the
\* rest; without VRAM it returns before fill_ram.
PlaceSinks ==
  LET sinks == {b \in Live : b < AtMost(SinkBlocks, cfg.vram)}
      budget == AtMost(AtMost(cfg.recent_window, AtLeast(cfg.vram \div 2, 1)),
                       cfg.vram - Cardinality(sinks))
      chosen == sinks \cup {b \in Live : b >= count - budget}
      vram == chosen \cup
                First(Live \ chosen, cfg.vram - Cardinality(chosen), ByScore)
      none == Moved(tier, Live, "ssd") IN
  /\ pc = "place" /\ cfg.policy = "sinks_heavy_hitter"
  /\ tier' = IF cfg.vram = 0 THEN none ELSE FillRam(Moved(none, vram, "vram"))
  /\ Finish

Rebalance ==
  \/ PlaceBaseline \/ PlaceHeavyFirst \/ PinHeavy \/ PlaceSinks
  \/ FillVram \/ SwapVram \/ EndVram \/ SwapRam \/ EndRam

Next ==
  \/ \E n \in 1 .. MaxBlocks, q \in Blocks : OnStep(n, q)
  \/ \E q \in Blocks : ForceRebalance(q)
  \/ Rebalance

Spec == Init /\ [][Next]_vars

\* A call that has begun goes on; nobody has to make the next one.
FairSpec == Spec /\ WF_vars(Rebalance)
-----------------------------------------------------------------------------
TypeOK ==
  /\ cfg \in Configs
  /\ count \in 0 .. MaxBlocks
  /\ tier \in [Blocks -> {"vram", "ram", "ssd"}]
  /\ score \in [Blocks -> 0 .. MaxScore]
  /\ pinned \subseteq Live
  /\ tokens \in 0 .. 2 * cfg.rebalance_interval
  /\ pc \in {"idle", "place", "vram", "ram"}
  /\ oldTier \in [Blocks -> {"vram", "ram", "ssd"}]
  /\ settled \in BOOLEAN

\* No caller ever sees more blocks in VRAM than the budget: not after blocks
\* were added, pinned or rescored between two rebalances, and not while
\* place_heavy_hitter first pins and then enforces.
VramBudget == Cardinality(In("vram")) <= cfg.vram

\* What a finished rebalance leaves, on top of the VRAM budget.
AfterRebalance == pc = "idle" /\ settled

\* A rebalance leaves RAM within its budget, and it leaves a block on the SSD
\* only if both are full: the loops, fill_ram and trim_ram agree on what is
\* free.  (With no VRAM at all sinks_heavy_hitter leaves RAM unused.)
TiersFilled ==
  AfterRebalance =>
    /\ Cardinality(In("ram")) <= cfg.ram
    /\ NonVram # {} => Cardinality(In("vram")) = cfg.vram
    /\ In("ssd") # {} => \/ Cardinality(In("ram")) = cfg.ram
                         \/ cfg.policy = "sinks_heavy_hitter" /\ cfg.vram = 0

\* Where pinning decides placement, a pinned block is outside VRAM only if
\* pinned blocks fill it, whatever the order in which the promotion loop swaps.
PinnedFirst ==
  AfterRebalance /\ cfg.policy # "sinks_heavy_hitter" =>
    pinned \subseteq In("vram") \/ In("vram") \subseteq pinned

\* The promotion loops end where no swap is worth its margin: not only for the
\* pair they looked at last, but for every block outside against every unpinned
\* block inside, and the same between RAM and SSD.
NoProfitableSwap ==
  AfterRebalance /\ cfg.policy = "heavy_hitter" =>
    /\ \A b \in NonVram, w \in Unpinned : ~VramGain(b, w)
    /\ \A b \in In("ssd"), w \in In("ram") \ pinned : ~RamGain(b, w)

\* force_rebalance repeated with no new score or block leaves the VRAM set as it
\* is: the test checks recent_only, here it is every policy, ties and first
\* placement included.
RebalanceIdempotent ==
  [][pc # "idle" /\ pc' = "idle" /\ settled =>
       In("vram")' = {b \in Live : oldTier[b] = "vram"}]_vars

\* A rebalance ends: each swap of the promotion loops is progress.
RebalanceEnds == (pc # "idle") ~> (pc = "idle")

\* README, "Placement policies": recent_only keeps the most recent blocks in
\* VRAM; here only the newest one.
KeepsMostRecent ==
  AfterRebalance /\ cfg.policy = "recent_only" /\ cfg.vram > 0 =>
    count - 1 \in In("vram")
=============================================================================
