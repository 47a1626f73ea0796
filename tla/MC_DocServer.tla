----------------------------- MODULE MC_DocServer -----------------------------
(* DocServer with two documents, one blob and two concurrent requests, and a *)
(* reader of its feed.                                                       *)
EXTENDS ChangeFeed

Symmetry == Permutations(Docs) \cup Permutations(Reqs)
===============================================================================
