---------------------------- MODULE MCBeamSearch ----------------------------
(* The instance of BeamSearch that TLC checks: two prompts searched        *)
(* deterministically, one with three beams, one sampled.                   *)
EXTENDS BeamSearch

MCVocab == {1, 2, 3}
MCCosts == {<<1, 2, 2, 4, 7>>, <<3, 1, 4, 1, 5, 9, 2>>, <<2, 0, 1>>}

MCRun(prompts, beams, steps, eos, sample, penalty, returns, costs) ==
  [prompts |-> prompts, num_beams |-> beams, max_new_tokens |-> steps,
   eos |-> eos, sample |-> sample, length_penalty |-> penalty,
   returns |-> returns, costs |-> costs]

MCRuns ==
  {MCRun(<<<<0, 1, 2>>, <<3, 2, 1>>>>, 2, 4, eos, FALSE, p, 1, costs) :
     eos \in {0, 3}, p \in {0, 1}, costs \in MCCosts}
  \cup {MCRun(<<<<0, 2>>>>, 3, 3, 3, FALSE, p, 2, costs) :
          p \in {0, 2}, costs \in MCCosts}
  \cup {MCRun(<<<<1, 2>>>>, 2, 3, 3, TRUE, 1, 2, costs) :
          costs \in {<<1, 2, 2, 4, 7>>}}
=============================================================================
