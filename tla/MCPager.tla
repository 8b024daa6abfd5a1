------------------------------ MODULE MCPager ------------------------------
(* Configurations of Pager for TLC: the policies that place in one pass with  *)
(* budgets from none to half of the blocks, and heavy_hitter with budgets up  *)
(* to all but one block and margins that equal scores do and do not reach.    *)
EXTENDS Pager

CONSTANTS Vram, Ram, HeavyVram, HeavyRam, Windows, Margins

MCConfigs ==
  {c \in [vram : Vram, ram : Ram, recent_window : Windows,
          rebalance_interval : {2}, promote_margin : {0},
          ram_promote_margin : {0}, policy : Policies \ {"heavy_hitter"}] :
     c.vram = 0 => c.recent_window = 0}
  \cup
  {c \in [vram : HeavyVram, ram : HeavyRam, recent_window : Windows,
          rebalance_interval : {1}, promote_margin : Margins,
          ram_promote_margin : Margins, policy : {"heavy_hitter"}] :
     c.promote_margin = c.ram_promote_margin}
=============================================================================
