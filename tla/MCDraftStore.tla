----------------------------- MODULE MCDraftStore -----------------------------
(* DraftStore with two documents that share an asset. *)
EXTENDS DraftStore, TLC

CONSTANTS a

Shared == [d \in Docs |-> a]
Alike == Permutations(Tabs) \cup Permutations(Docs)
================================================================================
