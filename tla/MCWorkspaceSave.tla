---------------------------- MODULE MCWorkspaceSave ----------------------------
(* WorkspaceSave with two presses of Save: the first is retried, and its key is used again for another save. *)
(* Two retries meet the other save, or one without a key; and one save's document is versioned by two editors. *)
EXTENDS WorkspaceSave, TLC

CONSTANTS r1, r2, r3, r4, k, e1, e2

KeyOf == [r \in Requests |-> IF r = r4 THEN None ELSE k]
MeaningOf == [r \in Requests |-> IF r = r3 THEN "other" ELSE "this"]
CastsOf == {{r1, r2, r3}, {r1, r2, r4}, {r3, e1, e2}}
Alike == Permutations({r1, r2}) \cup Permutations({e1, e2})
================================================================================
