---------------------------- MODULE MCEnvCompare ----------------------------
(* Two envs, three names, of which the collector returns two.              *)
EXTENDS EnvCompare

CONSTANTS e1, e2, o1, o2, o3

MCEnv == {e1, e2}
MCObject == {o1, o2, o3}

Symmetry == Permutations(MCEnv) \cup Permutations(MCObject)
=============================================================================
