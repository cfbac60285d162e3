---------------------------- MODULE MCPageScripts ----------------------------
(* Bounded instances of PageScripts for TLC. *)
EXTENDS PageScripts, TLC

Symmetric == Permutations(Srcs) \cup Permutations(Slots) \cup Permutations(Infos)
==============================================================================
