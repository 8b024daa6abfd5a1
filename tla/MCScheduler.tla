---------------------------- MODULE MCScheduler ----------------------------
(***************************************************************************)
(* Scheduler, with the symmetry of its identities for TLC.  Requests that  *)
(* are told apart by BadSampling are not symmetric: the configurations     *)
(* that use Symmetry have none.                                            *)
(***************************************************************************)
EXTENDS Scheduler

Symmetry ==
  Permutations(Requests) \cup Permutations(Sessions) \cup Permutations(Callers)
=============================================================================
