------------------------------ MODULE DraftShelf ------------------------------
(***************************************************************************)
(* What the browser's draft store promises, with no generations, pointers  *)
(* or sweeps: a shelf with at most one piece of work per document, which a *)
(* tab replaces by newer work and a user may clear.  Nothing else, a crash *)
(* least of all, changes what a reopened document would find.              *)
(***************************************************************************)
EXTENDS Integers

CONSTANTS Docs, Tabs, Revisions, None

VARIABLES
    shelf,   \* what would be recovered for each document: a tab's revision, or None
    asked    \* the user has asked for the document's draft to be deleted

vars == <<shelf, asked>>

Init == shelf = [d \in Docs |-> None] /\ asked = [d \in Docs |-> FALSE]

\* A tab's work replaces what is there; what it kept itself only gives way to a later revision.
Keep(d, t, r) ==
    /\ shelf[d] # None /\ shelf[d].by = t => r > shelf[d].revision
    /\ shelf' = [shelf EXCEPT ![d] = [by |-> t, revision |-> r]]
    /\ UNCHANGED asked

\* The user asks, or the tab asked in goes away.
Ask(d) == asked' = [asked EXCEPT ![d] = ~@] /\ UNCHANGED shelf

Clear(d) ==
    /\ asked[d]
    /\ shelf' = [shelf EXCEPT ![d] = None]
    /\ \E still \in BOOLEAN : asked' = [asked EXCEPT ![d] = still]

Next == \E d \in Docs : Ask(d) \/ Clear(d) \/ \E t \in Tabs, r \in Revisions : Keep(d, t, r)

Spec == Init /\ [][Next]_vars
===============================================================================
