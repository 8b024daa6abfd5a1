------------------------ MODULE MCStreamingAttention ------------------------
(* The instance of StreamingAttention that TLC checks.                     *)
EXTENDS StreamingAttention

MCModes ==
  {"layer", "sessions", "one_shot", "grouped", "mass", "full_loop", "chunks",
   "one_layer"}
MCGroupSizes == {1, 2}
MCWindows == {0, 2}
MCTables == {<<0, 2, 1, 0, 3>>, <<3, 1, 0>>}
=============================================================================
