---------------------------- MODULE MC_SyncEngine -----------------------------
(* SyncEngine with two devices; documents are model values. *)
EXTENDS SyncEngine, TLC

Symmetry == Permutations(Devices) \cup Permutations(Docs) \cup Permutations(Slots)
===============================================================================
