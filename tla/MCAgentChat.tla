---------------------------- MODULE MCAgentChat ----------------------------
(***************************************************************************)
(* Asks, threads and widgets are interchangeable; the run has no liveness. *)
(***************************************************************************)
EXTENDS AgentChat, TLC

Symmetry == Permutations(Asks) \cup Permutations(Threads) \cup Permutations(Widgets)
=============================================================================
