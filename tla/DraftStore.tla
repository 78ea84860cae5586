------------------------------ MODULE DraftStore ------------------------------
(***************************************************************************)
(* The drafts a browser keeps of the documents its tabs edit.  A draft is  *)
(* a pointer to the snapshot of its active generation and of the one       *)
(* before, and snapshots share content-addressed assets.  A tab commits    *)
(* under a lock and a compare-and-swap, hears of its siblings' commits by  *)
(* broadcast, and may reclaim space or delete a draft; every transaction   *)
(* of the key-value store is one action, and a tab may die between two.    *)
(*                                                                         *)
(* A tab stands for one opening of one document in one page.  Definitions  *)
(* named x_y are x with a plausible bug y.                                 *)
(***************************************************************************)
EXTENDS Integers, FiniteSets

CONSTANTS
    Docs, Tabs, Assets,
    Source,           \* the asset each document's snapshots refer to
    None,             \* no pointer, no snapshot, no document
    Locks,            \* the browser has Web Locks
    SweepsOverlap,    \* a sweep or a deletion may run while another tab commits
    MaxRevision, MaxGeneration, MaxFaults   \* bounds: edits of a tab, commits of a document,
                      \* transactions that fail

\* The generations a document's pointer names, and the work a snapshot holds.
Pointer == [active: Nat, previous: Nat]
Draft == [by: Tabs, revision: Nat]

ASSUME DraftAssumption ==
    /\ Source \in [Docs -> Assets] /\ {Locks, SweepsOverlap} \subseteq BOOLEAN
    /\ {MaxRevision, MaxGeneration, MaxFaults} \subseteq Nat
    /\ None \notin Docs \cup Pointer \cup Draft

VARIABLES
    pointers,   \* per document: pointer and index record, always written together
    snapshots,  \* per document and generation: the work it holds
    assets,     \* the assets stored
    tabs,       \* per tab: what it shows, knows and is doing
    news,       \* per tab: announcements on their way to it
    clock, faults

vars == <<pointers, snapshots, assets, tabs, news, clock, faults>>

NoGeneration == 0
NoClaim == -1      \* expectedActiveGeneration: undefined
Generations == 1..MaxGeneration
Unheard == [generation |-> NoGeneration, revision |-> 0, at |-> 0]
Larger(a, b) == IF a > b THEN a ELSE b

Unopened == [doc |-> None, at |-> "new"]
Gone == [doc |-> None, at |-> "gone"]

--------------------------------------------------------------------------------
(* What the store holds.                                                      *)

Active(pointer) == IF pointer = None THEN NoGeneration ELSE pointer.active
Named(d) == IF pointers[d] = None THEN {} ELSE {pointers[d].active, pointers[d].previous} \ {NoGeneration}
Held(d) == {g \in Generations : snapshots[<<d, g>>] # None}

\* loadBest: the active generation, or the one before.
LoadBest(d) ==
    IF pointers[d] = None THEN None
    ELSE LET usable == Named(d) \cap Held(d)
         IN  IF pointers[d].active \in usable THEN snapshots[<<d, pointers[d].active>>]
             ELSE IF pointers[d].previous \in usable THEN snapshots[<<d, pointers[d].previous>>] ELSE None

--------------------------------------------------------------------------------
Init ==
    /\ pointers = [d \in Docs |-> None]
    /\ snapshots = [k \in Docs \X Generations |-> None]
    /\ assets = {}
    /\ tabs = [t \in Tabs |-> Unopened]
    /\ news = [t \in Tabs |-> {}]
    /\ clock = 0 /\ faults = 0

Open(t) == tabs[t].doc # None
Idle(t) == tabs[t].at = "idle"
Sweeps == {"unlist", "drop", "mark", "list", "sweep", "visit", "shorten", "discard"}
Sweeping(t) == tabs[t].at \in Sweeps
Others(t) == Tabs \ {t}

\* What a tab that starts, and a sweep that starts, assume of the others.
MayStart(t) == SweepsOverlap \/ \A u \in Others(t) : ~Sweeping(u)
MaySweep(t) == SweepsOverlap \/ \A u \in Others(t) : ~Open(u) \/ Idle(u)

\* The tab goes on to "at", keeping what else it is doing.
Goes(t, at) == tabs' = [tabs EXCEPT ![t].at = at]

\* An attempt is over, whatever came of it.
Over(tab) == [tab EXCEPT !.at = "idle", !.writing = 0, !.seen = None, !.expected = NoClaim,
                         !.retried = FALSE, !.doomed = {}, !.visits = {}]
Rests(t) == tabs' = [tabs EXCEPT ![t] = Over(@)]

\* openDocument and findRecoverableDraft, which offers a draft with work in it.
OpenDocument(t, d) ==
    /\ tabs[t] = Unopened
    /\ tabs' = [tabs EXCEPT ![t] =
          [doc |-> d, at |-> "idle", revision |-> 0, durable |-> 0, own |-> NoGeneration, peer |-> Unheard,
           offered |-> LoadBest(d), writing |-> 0, expected |-> NoClaim, seen |-> None,
           retried |-> FALSE, doomed |-> {}, visits |-> {}]]
    /\ UNCHANGED <<pointers, snapshots, assets, news, clock, faults>>

\* restoreOfferedDraft of a complete draft: the tab counts on from its revision.
RestoreOffered(t) ==
    /\ Open(t) /\ Idle(t) /\ tabs[t].offered # None /\ tabs[t].revision = 0
    /\ tabs' = [tabs EXCEPT ![t].revision = tabs[t].offered.revision,
                            ![t].durable = tabs[t].offered.revision, ![t].offered = None]
    /\ UNCHANGED <<pointers, snapshots, assets, news, clock, faults>>

Edit(t) ==
    /\ Open(t) /\ tabs[t].revision < MaxRevision
    /\ tabs' = [tabs EXCEPT ![t].revision = @ + 1]
    /\ UNCHANGED <<pointers, snapshots, assets, news, clock, faults>>

\* The tab is closed, or killed: the browser frees its lock, and its transaction is not applied.
Dies(t) ==
    /\ Open(t)
    /\ tabs' = [tabs EXCEPT ![t] = Gone] /\ news' = [news EXCEPT ![t] = {}]
    /\ UNCHANGED <<pointers, snapshots, assets, clock, faults>>

--------------------------------------------------------------------------------
(* Announcements.                                                             *)

\* onLocalSucceeded: the tab remembers the generation, and tells its siblings.
Succeeds(t, generation, revision) ==
    /\ tabs' = [tabs EXCEPT ![t] = [Over(@) EXCEPT !.own = generation, !.durable = revision]]
    /\ news' = [u \in Tabs |-> IF u # t /\ tabs[u].doc = tabs[t].doc
                THEN news[u] \cup {[generation |-> generation, revision |-> revision, at |-> clock]} ELSE news[u]]
    /\ clock' = clock + 1

\* observePeer: in any order, but an older announcement changes nothing; or it is lost.
Hears(t, m) ==
    /\ news' = [news EXCEPT ![t] = @ \ {m}]
    /\ \/ UNCHANGED tabs
       \/ m.at >= tabs[t].peer.at /\ tabs' = [tabs EXCEPT ![t].peer = m]
    /\ UNCHANGED <<pointers, snapshots, assets, clock, faults>>

--------------------------------------------------------------------------------
(* A commit.                                                                  *)

\* The lock is asked for, not queued for: a tab that finds it taken writes nothing now.
LockFree_ignored(t) == TRUE
LockFree(t) == Locks => \A u \in Others(t) : tabs[u].doc = tabs[t].doc => tabs[u].writing = 0

\* planCrossTabCommit's guard value.
Guard(t) ==
    IF tabs[t].own # NoGeneration \/ tabs[t].peer.generation # NoGeneration
      THEN Larger(tabs[t].own, tabs[t].peer.generation)
    ELSE IF Locks THEN NoClaim ELSE NoGeneration

Unsaved(t) == Open(t) /\ Idle(t) /\ tabs[t].revision > tabs[t].durable

StartCommit(t) ==
    /\ Unsaved(t) /\ tabs[t].peer.revision < tabs[t].revision
    /\ LockFree(t) /\ MayStart(t)
    /\ tabs' = [tabs EXCEPT ![t].at = "read", ![t].writing = tabs[t].revision,
                            ![t].expected = Guard(t), ![t].retried = FALSE]
    /\ UNCHANGED <<pointers, snapshots, assets, news, clock, faults>>

\* A sibling announced this revision: it is taken to be stored, and nothing is written.
AlreadyDurable(t) ==
    /\ Unsaved(t) /\ tabs[t].peer.revision = tabs[t].revision
    /\ Succeeds(t, tabs[t].peer.generation, tabs[t].revision)
    /\ UNCHANGED <<pointers, snapshots, assets, faults>>

\* The pointer is read, and compared with the generation this tab last knew of.
ReadPointer(t) ==
    LET pointer == pointers[tabs[t].doc]
    IN  /\ tabs[t].at = "read"
        /\ IF tabs[t].expected \in {NoClaim, Active(pointer)}
             THEN tabs' = [tabs EXCEPT ![t].at = "look", ![t].seen = pointer] ELSE Rests(t)
        /\ UNCHANGED <<pointers, snapshots, assets, news, clock, faults>>

Generation(t) == Active(tabs[t].seen) + 1

Work(t) == [by |-> t, revision |-> tabs[t].writing]
Without(keys) == [k \in DOMAIN snapshots |-> IF k \in keys THEN None ELSE snapshots[k]]
Fault == faults < MaxFaults /\ faults' = faults + 1

LookForAssets(t) ==
    /\ tabs[t].at = "look"
    /\ Goes(t, IF Source[tabs[t].doc] \in assets THEN "stage" ELSE "assets")
    /\ UNCHANGED <<pointers, snapshots, assets, news, clock, faults>>

WriteAssets(t) ==
    /\ tabs[t].at = "assets"
    /\ assets' = assets \cup {Source[tabs[t].doc]}
    /\ Goes(t, "stage")
    /\ UNCHANGED <<pointers, snapshots, news, clock, faults>>

\* The snapshot, under a key that nothing reads yet; the browser may evict what it said it stored.
StageSnapshot(t) ==
    /\ tabs[t].at = "stage" /\ Generation(t) \in Generations
    /\ \/ snapshots' = [snapshots EXCEPT ![<<tabs[t].doc, Generation(t)>>] = Work(t)] /\ UNCHANGED faults
       \/ snapshots' = Without({<<tabs[t].doc, Generation(t)>>}) /\ Fault
    /\ Goes(t, "verify")
    /\ UNCHANGED <<pointers, assets, news, clock>>

ReadsBack(t) == snapshots[<<tabs[t].doc, Generation(t)>>] # None /\ Source[tabs[t].doc] \in assets

\* The snapshot reads back, and its assets are there.
Verify(t) ==
    /\ tabs[t].at = "verify"
    /\ IF ReadsBack(t) THEN Goes(t, "promote") ELSE Rests(t)
    /\ UNCHANGED <<pointers, snapshots, assets, news, clock, faults>>

Promote(t) ==
    /\ tabs[t].at = "promote"
    /\ pointers' = [pointers EXCEPT ![tabs[t].doc] = [active |-> Generation(t), previous |-> Active(tabs[t].seen)]]
    /\ Goes(t, "list prune")
    /\ UNCHANGED <<snapshots, assets, news, clock, faults>>

\* pruneGenerations keeps what the pointer this commit wrote names.
Kept_activeOnly(t) == {Generation(t)}
Kept(t) == {Generation(t), Active(tabs[t].seen)}

\* The revision a commit is credited with.
Credit_onScreen(t) == tabs[t].revision
Credit(t) == tabs[t].writing

ListForPrune(t) ==
    LET doomed == Held(tabs[t].doc) \ Kept(t)
    IN  /\ tabs[t].at = "list prune"
        /\ IF doomed = {} THEN Succeeds(t, Generation(t), Credit(t))
           ELSE /\ tabs' = [tabs EXCEPT ![t].at = "prune", ![t].doomed = {<<tabs[t].doc, g>> : g \in doomed}]
                /\ UNCHANGED <<news, clock>>
        /\ UNCHANGED <<pointers, snapshots, assets, faults>>

Prune(t) ==
    /\ tabs[t].at = "prune"
    /\ snapshots' = Without(tabs[t].doomed)
    /\ Succeeds(t, Generation(t), Credit(t))
    /\ UNCHANGED <<pointers, assets, faults>>

--------------------------------------------------------------------------------
(* Deleting a draft, sweeping up, and making room.                            *)

\* deleteOfferedDraft: the pointer goes first, then the snapshots, then what nothing references.
DeleteOffered(t) ==
    /\ Open(t) /\ Idle(t) /\ tabs[t].offered # None
    /\ MayStart(t) /\ MaySweep(t)
    /\ tabs' = [tabs EXCEPT ![t].at = "unlist", ![t].offered = None]
    /\ UNCHANGED <<pointers, snapshots, assets, news, clock, faults>>

Unlist(t) ==
    /\ tabs[t].at = "unlist"
    /\ pointers' = [pointers EXCEPT ![tabs[t].doc] = None]
    /\ Goes(t, "drop")
    /\ UNCHANGED <<snapshots, assets, news, clock, faults>>

DropSnapshots(t) ==
    /\ tabs[t].at = "drop"
    /\ snapshots' = Without({tabs[t].doc} \X Generations)
    /\ Goes(t, "mark")
    /\ UNCHANGED <<pointers, assets, news, clock, faults>>

\* collectGarbage: what every draft's pointer names is live, and so are the assets of those snapshots.
Live_ownOnly(t) == {<<tabs[t].doc, g>> : g \in Named(tabs[t].doc)}
Live(t) == UNION {{<<d, g>> : g \in Named(d)} : d \in Docs}

Mark(t) ==
    /\ tabs[t].at = "mark"
    /\ tabs' = [tabs EXCEPT ![t].at = "list",
                  ![t].doomed = Live(t) \cup {Source[k[1]] : k \in {l \in Live(t) : snapshots[l] # None}}]
    /\ UNCHANGED <<pointers, snapshots, assets, news, clock, faults>>

ListForSweep(t) ==
    LET live == tabs[t].doomed
        stored == {k \in DOMAIN snapshots : snapshots[k] # None}
    IN  /\ tabs[t].at = "list"
        /\ tabs' = [tabs EXCEPT ![t].at = "sweep", ![t].doomed = (stored \cup assets) \ live]
        /\ UNCHANGED <<pointers, snapshots, assets, news, clock, faults>>

\* After the first sweep of a reclaim come the other drafts; after the second, the commit again.
Sweep(t) ==
    /\ tabs[t].at = "sweep"
    /\ snapshots' = Without(tabs[t].doomed) /\ assets' = assets \ tabs[t].doomed
    /\ tabs' = [tabs EXCEPT ![t].doomed = {},
                  ![t].at = IF tabs[t].writing = 0 THEN "idle" ELSE IF tabs[t].retried THEN "read" ELSE "visit"]
    /\ UNCHANGED <<pointers, news, clock, faults>>

\* reclaimSpace: every other draft gives up the generation before its active one.
Visit(t) ==
    /\ tabs[t].at = "visit"
    /\ IF tabs[t].visits = {} THEN tabs' = [tabs EXCEPT ![t].at = "mark", ![t].retried = TRUE]
       ELSE \E d \in tabs[t].visits :
              tabs' = IF pointers[d] = None \/ pointers[d].previous = NoGeneration
                      THEN [tabs EXCEPT ![t].visits = @ \ {d}]
                      ELSE [tabs EXCEPT ![t].at = "shorten", ![t].seen = pointers[d], ![t].visits = @ \ {d},
                              ![t].doomed = {<<d, pointers[d].previous>>}]
    /\ UNCHANGED <<pointers, snapshots, assets, news, clock, faults>>

Victim(t) == CHOOSE d \in Docs : \E g \in Generations : <<d, g>> \in tabs[t].doomed

Shorten(t) ==
    /\ tabs[t].at = "shorten"
    /\ pointers' = [pointers EXCEPT ![Victim(t)] = [tabs[t].seen EXCEPT !.previous = NoGeneration]]
    /\ Goes(t, "discard")
    /\ UNCHANGED <<snapshots, assets, news, clock, faults>>

Discard(t) ==
    /\ tabs[t].at = "discard"
    /\ snapshots' = Without(tabs[t].doomed)
    /\ tabs' = [tabs EXCEPT ![t].at = "visit", ![t].doomed = {}]
    /\ UNCHANGED <<pointers, assets, news, clock, faults>>

\* A transaction fails, and with it what the tab was doing; a write that is out of space makes
\* room first, once.
TransactionFails(t, full) ==
    /\ Open(t) /\ ~Idle(t)
    /\ Fault
    /\ full => tabs[t].at \in {"assets", "stage", "promote"}
    /\ IF full /\ ~tabs[t].retried
         THEN MaySweep(t) /\ tabs' = [tabs EXCEPT ![t].at = "mark", ![t].visits = Docs \ {tabs[t].doc}]
         ELSE Rests(t)
    /\ UNCHANGED <<pointers, snapshots, assets, news, clock>>

--------------------------------------------------------------------------------
Commit(t) ==
    \/ StartCommit(t) \/ AlreadyDurable(t) \/ ReadPointer(t) \/ LookForAssets(t) \/ WriteAssets(t)
    \/ StageSnapshot(t) \/ Verify(t) \/ Promote(t) \/ ListForPrune(t) \/ Prune(t)

Clean(t) ==
    \/ DeleteOffered(t) \/ Unlist(t) \/ DropSnapshots(t) \/ Mark(t) \/ ListForSweep(t) \/ Sweep(t)
    \/ Visit(t) \/ Shorten(t) \/ Discard(t)

Next ==
    \E t \in Tabs :
        \/ \E d \in Docs : OpenDocument(t, d)
        \/ RestoreOffered(t) \/ Edit(t) \/ Dies(t) \/ Commit(t) \/ Clean(t)
        \/ \E m \in news[t] : Hears(t, m)
        \/ \E full \in BOOLEAN : TransactionFails(t, full)

Spec == Init /\ [][Next]_vars

--------------------------------------------------------------------------------
\* Every variable keeps its type; a pointer's generations are in order, and under the lock at most
\* one tab is committing a document.
TypeOK ==
    /\ \A d \in Docs : pointers[d] # None =>
         pointers[d].active \in Generations /\ pointers[d].previous \in 0..(pointers[d].active - 1)
    /\ \A k \in DOMAIN snapshots : snapshots[k] = None \/ snapshots[k] \in [by: Tabs, revision: 1..MaxRevision]
    /\ assets \subseteq Assets /\ faults \in 0..MaxFaults
    /\ \A t \in Tabs : Open(t) =>
         /\ tabs[t].revision \in 0..MaxRevision /\ tabs[t].durable \in 0..tabs[t].revision
         /\ tabs[t].writing \in 0..tabs[t].revision /\ tabs[t].own \in 0..MaxGeneration
         /\ Locks /\ tabs[t].writing # 0 => \A u \in Others(t) :
              tabs[u].doc = tabs[t].doc => tabs[u].writing = 0

\* A draft that can be found is whole: the two generations its pointer names are stored, with their
\* assets, whatever tab died, whatever transaction failed, and whatever another document gave up.
DraftsIntact ==
    \A d \in Docs : Named(d) \subseteq Held(d) /\ (Named(d) # {} => Source[d] \in assets)

\* The moment a tab that wrote is told how far its work is durable, that revision of its work is what
\* a reopened document would find: no sibling came in between, and no later edit is credited.
DurableIsFound ==
    [][\A t \in Tabs : Open(t) /\ tabs[t].writing # 0 /\ Open(t)' /\ tabs'[t].durable # tabs[t].durable =>
         LoadBest(tabs[t].doc)' = [by |-> t, revision |-> tabs'[t].durable]]_vars

\* A commit replaces the generation its tab compared with, and no other: nothing was promoted
\* between the comparison and the swap.
SwapsWhatItCompared ==
    [][\A t \in Tabs : Promote(t) => Active(pointers[tabs[t].doc]) = Active(tabs[t].seen)]_vars

\* A tab is told its work is durable only when that work is stored.
DurableIsStored ==
    [][\A t \in Tabs : Open(t) /\ tabs'[t].doc # None /\ tabs'[t].durable > tabs[t].durable
          /\ tabs'[t].offered = tabs[t].offered =>
         \E g \in Generations : snapshots'[<<tabs[t].doc, g>>] = [by |-> t, revision |-> tabs'[t].durable]]_vars

\* What each document would be found with, and whether a tab was asked to clear it.
Shown == [d \in Docs |-> LoadBest(d)]
Asking(d) == \E t \in Tabs : tabs[t].doc = d /\ tabs[t].at = "unlist"
Asked == [d \in Docs |-> Asking(d)]

\* The store keeps the promise of DraftShelf.
Shelf == INSTANCE DraftShelf WITH Revisions <- 1..MaxRevision, shelf <- Shown, asked <- Asked
ShelfKept == Shelf!Spec
================================================================================
