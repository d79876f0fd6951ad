----------------------------- MODULE MCApplyPage -----------------------------
(* ApplyPage on small instances, with texts and users interchangeable. *)
EXTENDS ApplyPage, TLC

Renamings == Permutations(Text) \cup Permutations(User)
==============================================================================
