----------------------------- MODULE MCRunFile -----------------------------
(* The symmetry of agents, and what is kept apart to see the other alone.   *)
EXTENDS RunFile, FiniteSets, TLC

Symmetry == Permutations(Agent)

OneAtATime == Cardinality(Starting) <= 1
=============================================================================
