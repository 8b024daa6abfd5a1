------------------------- MODULE MCPagedGeneration -------------------------
(* The instance of PagedGeneration that TLC checks.                        *)
EXTENDS PagedGeneration

MCPrompts == 1 .. 6
MCChunks == {2, 3}
MCSlots == {0, 1, 3}
=============================================================================
