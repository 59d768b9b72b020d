----------------------------- MODULE MCPostHooks -----------------------------
(* A small instance of the post dispatch hooks.                               *)
EXTENDS PostHooks

HookSymmetry == Permutations(Threads) \cup Permutations(Hooks)
=============================================================================
