--------------------------- MODULE DraftStoreProofs ---------------------------
(***************************************************************************)
(* The browser's drafts stay whole, for any documents, tabs and assets,    *)
(* where the browser has Web Locks and a sweep runs alone: what a draft's  *)
(* pointer names is stored, work reported durable is what is found, and    *)
(* the store implements DraftShelf.                                        *)
(***************************************************************************)
EXTENDS DraftStore, TLAPS

Commits == {"read", "look", "assets", "stage", "verify", "promote", "list prune", "prune"}
Promoting == {"verify", "promote", "list prune", "prune"}
Places == {"idle"} \cup Commits \cup Sweeps

\* A pointer the store holds: the generation before is an earlier one.
Ordered(p) == p.active \in Generations /\ p.previous \in 0..MaxGeneration /\ p.previous < p.active
Pointers == {p \in Pointer : Ordered(p)}
Drafts == [by: Tabs, revision: 1..MaxRevision]
Announcements == [generation: 0..MaxGeneration, revision: 0..MaxRevision, at: Nat]

Tab ==
    [doc: Docs, at: Places, revision: 0..MaxRevision, durable: 0..MaxRevision, own: 0..MaxGeneration,
     peer: Announcements, offered: Drafts \cup {None}, writing: 0..MaxRevision,
     expected: Nat \cup {NoClaim}, seen: Pointers \cup {None}, retried: BOOLEAN,
     doomed: SUBSET ((Docs \X Generations) \cup Assets), visits: SUBSET Docs]

\* What a tab's counts say of where it is.
Counted(tab) ==
    /\ tab.durable <= tab.revision /\ tab.writing <= tab.revision
    /\ tab.at \in Commits => tab.writing > 0
    /\ tab.at \in {"idle", "unlist", "drop"} => tab.writing = 0
    /\ tab.at \in Promoting => Active(tab.seen) < MaxGeneration
    /\ tab.at = "shorten" => tab.seen # None

Types ==
    /\ pointers \in [Docs -> Pointers \cup {None}]
    /\ snapshots \in [Docs \X Generations -> Drafts \cup {None}]
    /\ assets \subseteq Assets
    /\ tabs \in [Tabs -> Tab \cup {Unopened, Gone}]
    /\ news \in [Tabs -> SUBSET Announcements]
    /\ clock \in Nat /\ faults \in 0..MaxFaults
    /\ \A t \in Tabs : Open(t) => Counted(tabs[t])

\* One step of one tab.
Step(t) ==
    \/ \E d \in Docs : OpenDocument(t, d)
    \/ RestoreOffered(t) \/ Edit(t) \/ Dies(t) \/ Commit(t) \/ Clean(t)
    \/ \E m \in news[t] : Hears(t, m)
    \/ \E full \in BOOLEAN : TransactionFails(t, full)

LEMMA AtWork ==
    ASSUME Types, NEW t \in Tabs
    PROVE  /\ Open(t) => tabs[t] \in Tab
           /\ tabs[t].at \in Places => tabs[t] \in Tab /\ Open(t)
           /\ tabs[t] \in Tab => Open(t) /\ tabs[t].at \in Places
<1>1. tabs[t] \in Tab \cup {Unopened, Gone}
  BY DEF Types
<1>2. Unopened.doc = None /\ Gone.doc = None /\ Unopened.at \notin Places /\ Gone.at \notin Places
  BY DEF Unopened, Gone, Places, Commits, Sweeps
<1>3. tabs[t] \in Tab => tabs[t].doc # None /\ tabs[t].at \in Places
  BY DraftAssumption DEF Tab
<1> QED BY <1>1, <1>2, <1>3 DEF Open

\* What a tab stages is an ordered generation of its document.
LEMMA SeenActive ==
    ASSUME NEW tab \in Tab
    PROVE  /\ Active(tab.seen) \in 0..MaxGeneration
           /\ tab.seen # None => Active(tab.seen) \in Generations
BY DraftAssumption DEF Tab, Active, NoGeneration, Pointers, Ordered, Pointer, Generations

\* The work a document would be found with is a draft.
LEMMA BestIsDraft ==
    ASSUME Types, NEW d \in Docs
    PROVE  LoadBest(d) \in Drafts \cup {None}
<1>1. \A g \in Held(d) : snapshots[<<d, g>>] \in Drafts
  BY DEF Types, Held
<1>2. \A g \in Named(d) \cap Held(d) : snapshots[<<d, g>>] \in Drafts
  BY <1>1
<1> QED BY <1>2 DEF LoadBest

--------------------------------------------------------------------------------
(* Types.                                                                     *)

LEMMA GoesTyped ==
    ASSUME Types, NEW t \in Tabs, tabs[t] \in Tab, NEW at \in Places, Goes(t, at),
           Counted([tabs[t] EXCEPT !.at = at])
    PROVE  /\ tabs' \in [Tabs -> Tab \cup {Unopened, Gone}]
           /\ \A u \in Tabs : Open(u)' => Counted(tabs[u])'
           /\ tabs'[t] = [tabs[t] EXCEPT !.at = at] /\ tabs'[t] \in Tab
           /\ \A u \in Others(t) : tabs'[u] = tabs[u]
<1>1. tabs' = [tabs EXCEPT ![t] = [tabs[t] EXCEPT !.at = at]]
  BY DEF Goes
<1>2. [tabs[t] EXCEPT !.at = at] \in Tab
  BY DEF Tab
<1>3. \A u \in Others(t) : tabs'[u] = tabs[u]
  BY <1>1 DEF Types, Others
<1>4. tabs'[t] = [tabs[t] EXCEPT !.at = at]
  BY <1>1 DEF Types
<1>5. \A u \in Tabs : Open(u)' => Counted(tabs[u])'
  BY <1>3, <1>4 DEF Types, Others, Open, Counted
<1> QED BY <1>1, <1>2, <1>3, <1>4, <1>5 DEF Types

LEMMA BecomesTyped ==
    ASSUME Types, NEW t \in Tabs, NEW tab \in Tab, Counted(tab), tabs' = [tabs EXCEPT ![t] = tab]
    PROVE  /\ tabs' \in [Tabs -> Tab \cup {Unopened, Gone}]
           /\ \A u \in Tabs : Open(u)' => Counted(tabs[u])'
           /\ tabs'[t] = tab
           /\ \A u \in Others(t) : tabs'[u] = tabs[u]
<1>1. \A u \in Others(t) : tabs'[u] = tabs[u]
  BY DEF Types, Others
<1>2. tabs'[t] = tab
  BY DEF Types
<1>3. \A u \in Tabs : Open(u)' => Counted(tabs[u])'
  BY <1>1, <1>2 DEF Types, Others, Open, Counted
<1> QED BY <1>1, <1>2, <1>3 DEF Types

LEMMA OverTyped ==
    ASSUME NEW tab \in Tab, Counted(tab)
    PROVE  Over(tab) \in Tab /\ Counted(Over(tab))
<1>1. /\ "idle" \in Places /\ 0 \in 0..MaxRevision /\ None \in Pointers \cup {None}
      /\ NoClaim \in Nat \cup {NoClaim}
      /\ {} \in SUBSET ((Docs \X Generations) \cup Assets) /\ {} \in SUBSET Docs
  BY DraftAssumption DEF Places
<1>2. Over(tab) \in Tab
  BY <1>1 DEF Over, Tab
<1>3. /\ Over(tab).at = "idle" /\ Over(tab).writing = 0
      /\ Over(tab).durable = tab.durable /\ Over(tab).revision = tab.revision
  BY DEF Over, Tab
<1>4. tab.durable <= tab.revision /\ 0 <= tab.revision
  BY DraftAssumption DEF Counted, Tab
<1>5. Counted(Over(tab))
  BY <1>3, <1>4 DEF Counted, Commits, Promoting
<1> QED BY <1>2, <1>5

LEMMA RestsTyped ==
    ASSUME Types, NEW t \in Tabs, tabs[t] \in Tab, Rests(t)
    PROVE  /\ tabs' \in [Tabs -> Tab \cup {Unopened, Gone}]
           /\ \A u \in Tabs : Open(u)' => Counted(tabs[u])'
           /\ tabs'[t] = Over(tabs[t])
           /\ \A u \in Others(t) : tabs'[u] = tabs[u]
<1>1. Counted(tabs[t])
  BY AtWork DEF Types
<1>2. tabs' = [tabs EXCEPT ![t] = Over(tabs[t])]
  BY DEF Rests
<1> QED BY <1>1, <1>2, OverTyped, BecomesTyped

\* Where a tab that changes only its place may go.
LEMMA GoesCounted ==
    ASSUME NEW tab \in Tab, Counted(tab), NEW at \in Places,
           at \in Commits => tab.writing > 0,
           at \in {"idle", "unlist", "drop"} => tab.writing = 0,
           at \in Promoting => Active(tab.seen) < MaxGeneration,
           at # "shorten"
    PROVE  Counted([tab EXCEPT !.at = at])
<1>1. [tab EXCEPT !.at = at] = [tab EXCEPT !.at = at]
      /\ [tab EXCEPT !.at = at].at = at
      /\ [tab EXCEPT !.at = at].durable = tab.durable
      /\ [tab EXCEPT !.at = at].revision = tab.revision
      /\ [tab EXCEPT !.at = at].writing = tab.writing
      /\ [tab EXCEPT !.at = at].seen = tab.seen
  BY DEF Tab
<1> QED BY <1>1 DEF Counted

LEMMA SucceedsTyped ==
    ASSUME Types, NEW t \in Tabs, tabs[t] \in Tab, NEW generation \in 0..MaxGeneration,
           NEW revision \in 0..MaxRevision, revision <= tabs[t].revision,
           Succeeds(t, generation, revision)
    PROVE  /\ tabs' \in [Tabs -> Tab \cup {Unopened, Gone}]
           /\ \A u \in Tabs : Open(u)' => Counted(tabs[u])'
           /\ news' \in [Tabs -> SUBSET Announcements] /\ clock' \in Nat
           /\ tabs'[t] = [Over(tabs[t]) EXCEPT !.own = generation, !.durable = revision]
           /\ \A u \in Others(t) : tabs'[u] = tabs[u]
<1> DEFINE tab == [Over(tabs[t]) EXCEPT !.own = generation, !.durable = revision]
           m == [generation |-> generation, revision |-> revision, at |-> clock]
<1>1. Counted(tabs[t])
  BY AtWork DEF Types
<1>2. Over(tabs[t]) \in Tab /\ Counted(Over(tabs[t]))
  BY <1>1, OverTyped
<1>3. tab \in Tab
  BY <1>2 DEF Tab
<1>4. /\ Over(tabs[t]).at = "idle" /\ Over(tabs[t]).writing = 0
      /\ Over(tabs[t]).revision = tabs[t].revision
  BY DEF Over, Tab
<1>5. tab.at = "idle" /\ tab.writing = 0 /\ tab.durable = revision /\ tab.revision = tabs[t].revision
  BY <1>2, <1>4 DEF Tab
<1>6. Counted(tab)
  BY <1>2, <1>5 DEF Counted, Commits, Promoting, Tab
<1>7. tabs' = [tabs EXCEPT ![t] = tab]
  BY DEF Succeeds
<1>8. m \in Announcements
  BY DEF Announcements, Types
<1>9. \A u \in Tabs : news[u] \in SUBSET Announcements /\ news[u] \cup {m} \in SUBSET Announcements
  BY <1>8 DEF Types
<1>10. news' \in [Tabs -> SUBSET Announcements] /\ clock' \in Nat
  BY <1>9 DEF Succeeds, Types
<1> QED BY <1>3, <1>6, <1>7, <1>10, BecomesTyped

\* What every step leaves typed, and that a tab moves no other.
Moving(t) ==
    /\ tabs' \in [Tabs -> Tab \cup {Unopened, Gone}]
    /\ \A u \in Tabs : Open(u)' => Counted(tabs[u])'
    /\ \A u \in Others(t) : tabs'[u] = tabs[u]

LEMMA CommitTypes ==
    ASSUME Types, NEW t \in Tabs, Commit(t)
    PROVE  Types' /\ Moving(t)
<1>0. tabs[t] \in Tab /\ Open(t) /\ Counted(tabs[t])
  <2>1. Open(t) \/ tabs[t].at \in Places
    BY DEF Commit, StartCommit, AlreadyDurable, Unsaved, ReadPointer, LookForAssets, WriteAssets,
           StageSnapshot, Verify, Promote, ListForPrune, Prune, Places, Commits
  <2> QED BY <2>1, AtWork DEF Types
<1>a. /\ tabs[t].doc \in Docs /\ tabs[t].seen \in Pointers \cup {None}
      /\ Active(tabs[t].seen) \in 0..MaxGeneration
  BY <1>0, SeenActive DEF Tab
<1>b. /\ tabs[t].writing \in 0..MaxRevision /\ tabs[t].revision \in 0..MaxRevision
      /\ tabs[t].durable \in 0..MaxRevision /\ tabs[t].at \in Places
      /\ tabs[t].peer \in Announcements
  BY <1>0 DEF Tab
<1>c. pointers[tabs[t].doc] \in Pointers \cup {None}
  BY <1>a DEF Types
<1>1. CASE StartCommit(t)
  <2> DEFINE tab == [tabs[t] EXCEPT !.at = "read", !.writing = tabs[t].revision,
                                    !.expected = Guard(t), !.retried = FALSE]
  <2>1. Guard(t) \in Nat \cup {NoClaim}
    BY <1>0 DEF Guard, Larger, Tab, Announcements, NoGeneration
  <2>2. tab \in Tab
    BY <1>0, <2>1 DEF Tab, Places, Commits
  <2>3. tab.at = "read" /\ tab.writing = tabs[t].revision /\ tab.revision = tabs[t].revision
        /\ tab.durable = tabs[t].durable
    BY <1>0 DEF Tab
  <2>4. tabs[t].revision > 0 /\ tabs[t].durable <= tabs[t].revision
    BY <1>0, <1>1, <1>b DEF StartCommit, Unsaved, Counted
  <2>5. Counted(tab)
    <3> HIDE DEF tab
    <3> QED BY <1>b, <2>3, <2>4 DEF Counted, Promoting, Commits
  <2>6. tabs' = [tabs EXCEPT ![t] = tab]
    BY <1>1 DEF StartCommit
  <2> HIDE DEF tab
  <2>7. Moving(t)
    BY <2>2, <2>5, <2>6, BecomesTyped DEF Moving
  <2> QED BY <1>1, <2>7 DEF StartCommit, Types, Moving
<1>2. CASE AlreadyDurable(t)
  <2>1. tabs[t].peer.generation \in 0..MaxGeneration
    BY <1>b DEF Announcements
  <2>2. tabs[t].revision <= tabs[t].revision
    BY <1>b
  <2>3. Succeeds(t, tabs[t].peer.generation, tabs[t].revision)
    BY <1>2 DEF AlreadyDurable
  <2>4. Moving(t) /\ news' \in [Tabs -> SUBSET Announcements] /\ clock' \in Nat
    BY <1>0, <1>b, <2>1, <2>2, <2>3, SucceedsTyped DEF Moving
  <2> QED BY <1>2, <2>4 DEF AlreadyDurable, Types, Moving
<1>3. CASE ReadPointer(t)
  <2>1. CASE Rests(t)
    BY <1>0, <1>3, <2>1, RestsTyped DEF ReadPointer, Types, Moving
  <2>2. CASE tabs' = [tabs EXCEPT ![t].at = "look", ![t].seen = pointers[tabs[t].doc]]
    <3> DEFINE tab == [tabs[t] EXCEPT !.at = "look", !.seen = pointers[tabs[t].doc]]
    <3>1. tab \in Tab
      BY <1>0, <1>c DEF Tab, Places, Commits
    <3>2. /\ tab.at = "look" /\ tab.writing = tabs[t].writing /\ tab.revision = tabs[t].revision
          /\ tab.durable = tabs[t].durable
      BY <1>0 DEF Tab
    <3>3. Counted(tab)
      BY <1>0, <1>3, <3>2 DEF Counted, Promoting, Commits, ReadPointer
    <3>4. tabs' = [tabs EXCEPT ![t] = tab]
      BY <2>2
    <3> HIDE DEF tab
    <3>5. Moving(t)
      BY <3>1, <3>3, <3>4, BecomesTyped DEF Moving
    <3> QED BY <1>3, <3>5 DEF ReadPointer, Types, Moving
  <2> QED BY <1>3, <2>1, <2>2 DEF ReadPointer
<1>4. ASSUME NEW at \in {"stage", "assets"}, tabs[t].at \in Commits, Goes(t, at)
      PROVE  Moving(t)
  <2>1. Counted([tabs[t] EXCEPT !.at = at])
    BY <1>0, <1>4, GoesCounted DEF Places, Commits, Promoting, Counted
  <2> QED BY <1>0, <1>4, <2>1, GoesTyped DEF Places, Commits, Moving
<1>5. CASE LookForAssets(t)
  <2>1. Moving(t)
    BY <1>4, <1>5 DEF LookForAssets, Commits
  <2> QED BY <1>5, <2>1 DEF LookForAssets, Types, Moving
<1>6. CASE WriteAssets(t)
  <2>1. Moving(t)
    BY <1>4, <1>6 DEF WriteAssets, Commits
  <2>2. Source[tabs[t].doc] \in Assets
    BY <1>a, DraftAssumption
  <2> QED BY <1>6, <2>1, <2>2 DEF WriteAssets, Types, Moving
<1>7. ASSUME NEW at \in Promoting, tabs[t].at \in Commits, Active(tabs[t].seen) < MaxGeneration, Goes(t, at)
      PROVE  Moving(t)
  <2>1. Counted([tabs[t] EXCEPT !.at = at])
    BY <1>0, <1>7, GoesCounted DEF Places, Commits, Promoting, Counted
  <2> QED BY <1>0, <1>7, <2>1, GoesTyped DEF Places, Commits, Promoting, Moving
<1>8. ASSUME NEW keys PROVE Without(keys) \in [Docs \X Generations -> Drafts \cup {None}]
  BY DEF Without, Types
<1>9. CASE StageSnapshot(t)
  <2>0. Active(tabs[t].seen) < MaxGeneration
    BY <1>9, <1>a, DraftAssumption DEF StageSnapshot, Generation, Generations
  <2>1. Moving(t)
    BY <1>7, <1>9, <2>0 DEF StageSnapshot, Commits, Promoting
  <2>2. Work(t) \in Drafts
    BY <1>0, <1>9, <1>b DEF Work, Drafts, StageSnapshot, Counted, Commits
  <2>3. snapshots' \in [Docs \X Generations -> Drafts \cup {None}]
    BY <1>8, <1>9, <2>2 DEF StageSnapshot, Types
  <2>4. faults' \in 0..MaxFaults
    BY <1>9, DraftAssumption DEF StageSnapshot, Fault, Types
  <2> QED BY <1>9, <2>1, <2>3, <2>4 DEF StageSnapshot, Types, Moving
<1>10. CASE Verify(t)
  <2>1. Active(tabs[t].seen) < MaxGeneration
    BY <1>0, <1>10 DEF Verify, Counted, Promoting
  <2>2. Moving(t)
    BY <1>0, <1>7, <1>10, <2>1, RestsTyped DEF Verify, Commits, Promoting, Moving
  <2> QED BY <1>10, <2>2 DEF Verify, Types, Moving
<1>11. CASE Promote(t)
  <2>1. Active(tabs[t].seen) < MaxGeneration
    BY <1>0, <1>11 DEF Promote, Counted, Promoting
  <2>2. Moving(t)
    BY <1>7, <1>11, <2>1 DEF Promote, Commits, Promoting
  <2>3. [active |-> Generation(t), previous |-> Active(tabs[t].seen)] \in Pointers
    BY <1>a, <2>1, DraftAssumption DEF Generation, Generations, Pointers, Pointer, Ordered
  <2>4. pointers' \in [Docs -> Pointers \cup {None}]
    BY <1>11, <2>3 DEF Promote, Types
  <2> QED BY <1>11, <2>2, <2>4 DEF Promote, Types, Moving
<1>12. ASSUME tabs[t].at \in Promoting PROVE Generation(t) \in 0..MaxGeneration
  BY <1>0, <1>12, <1>a, DraftAssumption DEF Generation, Counted
<1>13. CASE ListForPrune(t)
  <2>1. CASE Succeeds(t, Generation(t), Credit(t))
    BY <1>0, <1>12, <1>13, <1>b, <2>1, SucceedsTyped
       DEF ListForPrune, Promoting, Credit, Counted, Types, Moving
  <2>2. CASE ~Succeeds(t, Generation(t), Credit(t))
    <3> DEFINE doomed == {<<tabs[t].doc, g>> : g \in Held(tabs[t].doc) \ Kept(t)}
               tab == [tabs[t] EXCEPT !.at = "prune", !.doomed = doomed]
    <3>a. \A g \in Held(tabs[t].doc) \ Kept(t) : <<tabs[t].doc, g>> \in Docs \X Generations
      BY <1>a DEF Held
    <3>0. doomed \in SUBSET ((Docs \X Generations) \cup Assets)
      BY <3>a
    <3>1. tab \in Tab
      BY <1>0, <3>0 DEF Tab, Places, Commits
    <3>2. /\ tab.at = "prune" /\ tab.writing = tabs[t].writing /\ tab.revision = tabs[t].revision
          /\ tab.durable = tabs[t].durable /\ tab.seen = tabs[t].seen
      BY <1>0 DEF Tab
    <3>3. Counted(tab)
      BY <1>0, <1>13, <3>2 DEF Counted, Promoting, Commits, ListForPrune
    <3>4. tabs' = [tabs EXCEPT ![t] = tab] /\ UNCHANGED <<pointers, snapshots, assets, faults, news, clock>>
      BY <1>13, <2>2 DEF ListForPrune
    <3> HIDE DEF tab
    <3>5. Moving(t)
      BY <3>1, <3>3, <3>4, BecomesTyped DEF Moving
    <3> QED BY <3>4, <3>5 DEF Types, Moving
  <2> QED BY <2>1, <2>2
<1>14. CASE Prune(t)
  BY <1>0, <1>8, <1>12, <1>14, <1>b, SucceedsTyped DEF Prune, Promoting, Credit, Counted, Types, Moving
<1> QED BY <1>1, <1>2, <1>3, <1>5, <1>6, <1>9, <1>10, <1>11, <1>13, <1>14 DEF Commit

LEMMA WithoutTyped ==
    ASSUME Types, NEW keys
    PROVE  Without(keys) \in [Docs \X Generations -> Drafts \cup {None}]
BY DEF Without, Types

LEMMA CleanTypes ==
    ASSUME Types, NEW t \in Tabs, Clean(t)
    PROVE  Types' /\ Moving(t)
<1>0. tabs[t] \in Tab /\ Open(t) /\ Counted(tabs[t])
  <2>1. Open(t) \/ tabs[t].at \in Places
    BY DEF Clean, DeleteOffered, Unlist, DropSnapshots, Mark, ListForSweep, Sweep, Visit, Shorten,
           Discard, Places, Sweeps
  <2> QED BY <2>1, AtWork DEF Types
<1>a. tabs[t].doc \in Docs /\ tabs[t].seen \in Pointers \cup {None} /\ tabs[t].visits \subseteq Docs
  BY <1>0 DEF Tab
<1>b. /\ tabs[t].writing \in 0..MaxRevision /\ tabs[t].revision \in 0..MaxRevision
      /\ tabs[t].durable \in 0..MaxRevision
  BY <1>0 DEF Tab
<1>1. CASE DeleteOffered(t)
  <2> DEFINE tab == [tabs[t] EXCEPT !.at = "unlist", !.offered = None]
  <2>1. tab \in Tab
    BY <1>0 DEF Tab, Places, Sweeps
  <2>2. /\ tab.at = "unlist" /\ tab.writing = tabs[t].writing /\ tab.revision = tabs[t].revision
        /\ tab.durable = tabs[t].durable
    BY <1>0 DEF Tab
  <2>3. Counted(tab)
    BY <1>0, <1>1, <2>2 DEF Counted, Promoting, Commits, DeleteOffered, Idle
  <2>4. tabs' = [tabs EXCEPT ![t] = tab]
    BY <1>1 DEF DeleteOffered
  <2> HIDE DEF tab
  <2>5. Moving(t)
    BY <2>1, <2>3, <2>4, BecomesTyped DEF Moving
  <2> QED BY <1>1, <2>5 DEF DeleteOffered, Types, Moving
<1>2. CASE Unlist(t)
  <2>1. Counted([tabs[t] EXCEPT !.at = "drop"])
    BY <1>0, <1>2, GoesCounted DEF Places, Sweeps, Commits, Promoting, Counted, Unlist
  <2>2. Moving(t)
    BY <1>0, <1>2, <2>1, GoesTyped DEF Places, Sweeps, Moving, Unlist
  <2> QED BY <1>2, <2>2 DEF Unlist, Types, Moving
<1>3. CASE DropSnapshots(t)
  <2>1. Counted([tabs[t] EXCEPT !.at = "mark"])
    BY <1>0, GoesCounted DEF Places, Sweeps, Commits, Promoting
  <2>2. Moving(t)
    BY <1>0, <1>3, <2>1, GoesTyped DEF Places, Sweeps, Moving, DropSnapshots
  <2> QED BY <1>3, <2>2, WithoutTyped DEF DropSnapshots, Types, Moving
<1>4. ASSUME NEW at \in {"list", "sweep", "visit"},
             NEW doomed \in SUBSET ((Docs \X Generations) \cup Assets),
             tabs' = [tabs EXCEPT ![t].at = at, ![t].doomed = doomed]
      PROVE  Moving(t)
  <2> DEFINE tab == [tabs[t] EXCEPT !.at = at, !.doomed = doomed]
  <2>1. tab \in Tab
    BY <1>0 DEF Tab, Places, Sweeps
  <2>2. /\ tab.at = at /\ tab.writing = tabs[t].writing /\ tab.revision = tabs[t].revision
        /\ tab.durable = tabs[t].durable
    BY <1>0 DEF Tab
  <2>3. Counted(tab)
    BY <1>0, <2>2 DEF Counted, Promoting, Commits
  <2>4. tabs' = [tabs EXCEPT ![t] = tab]
    BY <1>4
  <2> HIDE DEF tab
  <2> QED BY <2>1, <2>3, <2>4, BecomesTyped DEF Moving
<1>5. CASE Mark(t)
  <2> DEFINE live == Live(t) \cup {Source[k[1]] : k \in {l \in Live(t) : snapshots[l] # None}}
  <2>1. \A d \in Docs : Named(d) \subseteq Generations
    <3> TAKE d \in Docs
    <3>1. pointers[d] \in Pointers \cup {None}
      BY DEF Types
    <3> QED BY <3>1, DraftAssumption DEF Named, Pointers, Ordered, Generations, NoGeneration
  <2>2. Live(t) \subseteq Docs \X Generations
    BY <2>1 DEF Live
  <2>3. \A k \in Live(t) : Source[k[1]] \in Assets
    BY <2>2, DraftAssumption
  <2>4. live \in SUBSET ((Docs \X Generations) \cup Assets)
    BY <2>2, <2>3
  <2>5. tabs' = [tabs EXCEPT ![t].at = "list", ![t].doomed = live]
    BY <1>5 DEF Mark
  <2> HIDE DEF live
  <2>6. Moving(t)
    BY <1>4, <2>4, <2>5
  <2> QED BY <1>5, <2>6 DEF Mark, Types, Moving
<1>6. CASE ListForSweep(t)
  <2> DEFINE doomed == ({k \in DOMAIN snapshots : snapshots[k] # None} \cup assets) \ tabs[t].doomed
  <2>1. doomed \in SUBSET ((Docs \X Generations) \cup Assets)
    BY DEF Types
  <2>2. tabs' = [tabs EXCEPT ![t].at = "sweep", ![t].doomed = doomed]
    BY <1>6 DEF ListForSweep
  <2> HIDE DEF doomed
  <2>3. Moving(t)
    BY <1>4, <2>1, <2>2
  <2> QED BY <1>6, <2>3 DEF ListForSweep, Types, Moving
<1>7. CASE Sweep(t)
  <2> DEFINE at == IF tabs[t].writing = 0 THEN "idle" ELSE IF tabs[t].retried THEN "read" ELSE "visit"
             tab == [tabs[t] EXCEPT !.doomed = {}, !.at = at]
  <2>0. at \in {"idle", "read", "visit"} /\ (at = "idle" <=> tabs[t].writing = 0)
    OBVIOUS
  <2> HIDE DEF at
  <2>1. tab \in Tab
    BY <1>0, <2>0 DEF Tab, Places, Sweeps, Commits
  <2>2. /\ tab.at = at /\ tab.writing = tabs[t].writing /\ tab.revision = tabs[t].revision
        /\ tab.durable = tabs[t].durable
    BY <1>0 DEF Tab
  <2>4. tabs' = [tabs EXCEPT ![t] = tab]
    BY <1>7 DEF Sweep, at
  <2> HIDE DEF tab
  <2>3. Counted(tab)
    <3>1. tab.durable <= tab.revision /\ tab.writing <= tab.revision
      BY <1>0, <2>2 DEF Counted
    <3>2. tab.at # "shorten" /\ tab.at \notin Promoting /\ tab.at \notin {"unlist", "drop"}
      BY <2>0, <2>2 DEF Promoting
    <3>3. tab.at = "idle" => tab.writing = 0
      BY <2>0, <2>2
    <3>4. tab.at \in Commits => tab.writing > 0
      <4>1. tab.at \in Commits => tabs[t].writing # 0
        BY <2>0, <2>2 DEF Commits
      <4> QED BY <1>b, <2>2, <4>1
    <3> QED BY <3>1, <3>2, <3>3, <3>4 DEF Counted
  <2>5. Moving(t)
    BY <2>1, <2>3, <2>4, BecomesTyped DEF Moving
  <2>6. snapshots' \in [Docs \X Generations -> Drafts \cup {None}]
    BY <1>7, WithoutTyped DEF Sweep
  <2> QED BY <1>7, <2>5, <2>6 DEF Sweep, Types, Moving
<1>8. CASE Visit(t)
  <2>1. ASSUME NEW tab \in Tab, tab.at \in {"mark", "visit", "shorten"}, tab.writing = tabs[t].writing,
               tab.revision = tabs[t].revision, tab.durable = tabs[t].durable,
               tab.at = "shorten" => tab.seen # None,
               tabs' = [tabs EXCEPT ![t] = tab]
        PROVE  Moving(t)
    <3>1. Counted(tab)
      BY <1>0, <2>1 DEF Counted, Promoting, Commits
    <3> QED BY <2>1, <3>1, BecomesTyped DEF Moving
  <2>2. CASE tabs[t].visits = {}
    <3> DEFINE tab == [tabs[t] EXCEPT !.at = "mark", !.retried = TRUE]
    <3>1. tab \in Tab
      BY <1>0 DEF Tab, Places, Sweeps
    <3>2. /\ tab.at = "mark" /\ tab.writing = tabs[t].writing /\ tab.revision = tabs[t].revision
          /\ tab.durable = tabs[t].durable
      BY <1>0 DEF Tab
    <3>3. tabs' = [tabs EXCEPT ![t] = tab]
      BY <1>8, <2>2 DEF Visit
    <3> HIDE DEF tab
    <3>4. Moving(t)
      BY <2>1, <3>1, <3>2, <3>3
    <3> QED BY <1>8, <3>4 DEF Visit, Types, Moving
  <2>3. ASSUME NEW d \in tabs[t].visits,
               tabs' = IF pointers[d] = None \/ pointers[d].previous = NoGeneration
                       THEN [tabs EXCEPT ![t].visits = @ \ {d}]
                       ELSE [tabs EXCEPT ![t].at = "shorten", ![t].seen = pointers[d],
                               ![t].visits = @ \ {d}, ![t].doomed = {<<d, pointers[d].previous>>}]
        PROVE  Moving(t)
    <3>0. d \in Docs /\ pointers[d] \in Pointers \cup {None}
      BY <1>a, <2>3 DEF Types
    <3>1. CASE pointers[d] = None \/ pointers[d].previous = NoGeneration
      <4> DEFINE tab == [tabs[t] EXCEPT !.visits = tabs[t].visits \ {d}]
      <4>1. tab \in Tab
        BY <1>0, <1>a DEF Tab
      <4>2. /\ tab.at = "visit" /\ tab.writing = tabs[t].writing /\ tab.revision = tabs[t].revision
            /\ tab.durable = tabs[t].durable
        BY <1>0, <1>8 DEF Tab, Visit
      <4>3. tabs' = [tabs EXCEPT ![t] = tab]
        BY <2>3, <3>1
      <4> HIDE DEF tab
      <4> QED BY <2>1, <4>1, <4>2, <4>3
    <3>2. CASE ~(pointers[d] = None \/ pointers[d].previous = NoGeneration)
      <4> DEFINE doomed == {<<d, pointers[d].previous>>}
                 tab == [tabs[t] EXCEPT !.at = "shorten", !.seen = pointers[d],
                                        !.visits = tabs[t].visits \ {d}, !.doomed = doomed]
      <4>0. doomed \in SUBSET ((Docs \X Generations) \cup Assets)
        BY <3>0, <3>2, DraftAssumption DEF Pointers, Ordered, Generations, NoGeneration
      <4>1. tab \in Tab
        BY <1>0, <1>a, <3>0, <4>0 DEF Tab, Places, Sweeps
      <4>2. /\ tab.at = "shorten" /\ tab.writing = tabs[t].writing /\ tab.revision = tabs[t].revision
            /\ tab.durable = tabs[t].durable /\ tab.seen # None
        BY <1>0, <3>2 DEF Tab
      <4>3. tabs' = [tabs EXCEPT ![t] = tab]
        BY <2>3, <3>2
      <4> HIDE DEF tab
      <4> QED BY <2>1, <4>1, <4>2, <4>3
    <3> QED BY <3>1, <3>2
  <2>4. CASE tabs[t].visits # {}
    <3>1. Moving(t)
      BY <1>8, <2>3, <2>4 DEF Visit
    <3> QED BY <1>8, <3>1 DEF Visit, Types, Moving
  <2> QED BY <2>2, <2>4
<1>9. CASE Shorten(t)
  <2>1. Counted([tabs[t] EXCEPT !.at = "discard"])
    BY <1>0, GoesCounted DEF Places, Sweeps, Commits, Promoting
  <2>2. Moving(t)
    BY <1>0, <1>9, <2>1, GoesTyped DEF Places, Sweeps, Moving, Shorten
  <2>3. tabs[t].seen \in Pointers
    BY <1>0, <1>9, <1>a DEF Counted, Shorten
  <2>4. [tabs[t].seen EXCEPT !.previous = NoGeneration] \in Pointers
    BY <2>3, DraftAssumption DEF Pointers, Pointer, Ordered, NoGeneration, Generations
  <2>5. pointers' \in [Docs -> Pointers \cup {None}]
    BY <1>9, <2>4 DEF Shorten, Types
  <2> QED BY <1>9, <2>2, <2>5 DEF Shorten, Types, Moving
<1>10. CASE Discard(t)
  <2>1. Moving(t)
    <3> DEFINE doomed == {}
    <3>1. tabs' = [tabs EXCEPT ![t].at = "visit", ![t].doomed = doomed]
      BY <1>10 DEF Discard
    <3>2. doomed \in SUBSET ((Docs \X Generations) \cup Assets)
      OBVIOUS
    <3> HIDE DEF doomed
    <3> QED BY <1>4, <3>1, <3>2
  <2> QED BY <1>10, <2>1, WithoutTyped DEF Discard, Types, Moving
<1> QED BY <1>1, <1>2, <1>3, <1>5, <1>6, <1>7, <1>8, <1>9, <1>10 DEF Clean

--------------------------------------------------------------------------------
(* What no step changes.                                                      *)

\* A tab keeps its document, until it goes.
LEMMA DocStays ==
    ASSUME Types, NEW t \in Tabs, Open(t), Step(t), ~Dies(t)
    PROVE  tabs'[t].doc = tabs[t].doc
<1>0. tabs[t] \in Tab /\ tabs \in [Tabs -> Tab \cup {Unopened, Gone}]
  BY AtWork DEF Types
<1>1. Over(tabs[t]).doc = tabs[t].doc
  BY <1>0 DEF Over, Tab
<1>2. ASSUME NEW at, Goes(t, at) PROVE tabs'[t].doc = tabs[t].doc
  BY <1>0, <1>2 DEF Goes, Tab
<1>3. ASSUME NEW generation, NEW revision, Succeeds(t, generation, revision)
      PROVE  tabs'[t].doc = tabs[t].doc
  <2>1. [Over(tabs[t]) EXCEPT !.own = generation, !.durable = revision].doc = Over(tabs[t]).doc
    BY <1>0 DEF Over, Tab
  <2> QED BY <1>0, <1>1, <1>3, <2>1 DEF Succeeds
<1>4. CASE Rests(t)
  BY <1>0, <1>1, <1>4 DEF Rests
<1>5. CASE Commit(t)
  <2>1. CASE StartCommit(t)
    BY <1>0, <2>1 DEF StartCommit, Tab
  <2>2. CASE ReadPointer(t)
    BY <1>0, <1>4, <2>2 DEF ReadPointer, Tab
  <2>3. CASE ListForPrune(t)
    <3>1. ASSUME NEW doomed, tabs' = [tabs EXCEPT ![t].at = "prune", ![t].doomed = doomed]
          PROVE  tabs'[t].doc = tabs[t].doc
      BY <1>0, <3>1 DEF Tab
    <3> QED BY <1>3, <2>3, <3>1 DEF ListForPrune
  <2>4. CASE AlreadyDurable(t) \/ Prune(t)
    BY <1>3, <2>4 DEF AlreadyDurable, Prune
  <2> QED BY <1>2, <1>4, <1>5, <2>1, <2>2, <2>3, <2>4
          DEF Commit, LookForAssets, WriteAssets, StageSnapshot, Verify, Promote
<1>6. CASE Clean(t)
  <2>1. CASE DeleteOffered(t) \/ Mark(t) \/ ListForSweep(t) \/ Sweep(t) \/ Discard(t)
    BY <1>0, <2>1 DEF DeleteOffered, Mark, ListForSweep, Sweep, Discard, Tab
  <2>2. CASE Visit(t)
    <3>1. CASE tabs[t].visits = {}
      BY <1>0, <2>2, <3>1 DEF Visit, Tab
    <3>2. ASSUME NEW visits, tabs' = [tabs EXCEPT ![t].visits = visits]
          PROVE  tabs'[t].doc = tabs[t].doc
      BY <1>0, <3>2 DEF Tab
    <3>3. ASSUME NEW seen, NEW visits, NEW doomed,
                 tabs' = [tabs EXCEPT ![t].at = "shorten", ![t].seen = seen, ![t].visits = visits,
                            ![t].doomed = doomed]
          PROVE  tabs'[t].doc = tabs[t].doc
      BY <1>0, <3>3 DEF Tab
    <3>4. ASSUME NEW d \in tabs[t].visits,
                 tabs' = IF pointers[d] = None \/ pointers[d].previous = NoGeneration
                         THEN [tabs EXCEPT ![t].visits = @ \ {d}]
                         ELSE [tabs EXCEPT ![t].at = "shorten", ![t].seen = pointers[d],
                                 ![t].visits = @ \ {d}, ![t].doomed = {<<d, pointers[d].previous>>}]
          PROVE  tabs'[t].doc = tabs[t].doc
      BY <3>2, <3>3, <3>4
    <3> QED BY <2>2, <3>1, <3>4 DEF Visit
  <2> QED BY <1>2, <1>6, <2>1, <2>2 DEF Clean, Unlist, DropSnapshots, Shorten
<1>7. ~ \E d \in Docs : OpenDocument(t, d)
  BY DEF OpenDocument, Open, Unopened
<1>8. CASE RestoreOffered(t) \/ Edit(t)
  BY <1>0, <1>8 DEF RestoreOffered, Edit, Tab
<1>9. ASSUME NEW m \in news[t], Hears(t, m) PROVE tabs'[t].doc = tabs[t].doc
  BY <1>0, <1>9 DEF Hears, Tab
<1>10. ASSUME NEW full \in BOOLEAN, TransactionFails(t, full) PROVE tabs'[t].doc = tabs[t].doc
  BY <1>0, <1>4, <1>10 DEF TransactionFails, Tab
<1> QED BY <1>5, <1>6, <1>7, <1>8, <1>9, <1>10 DEF Step

\* Announcements only reach a tab that is open.
Silent == \A t \in Tabs : ~Open(t) => news[t] = {}

LEMMA SilentStep ==
    ASSUME Types, Silent, NEW t \in Tabs, Step(t), Types', Moving(t)
    PROVE  Silent'
<1>0. \A u \in Others(t) : tabs'[u] = tabs[u]
  BY DEF Moving
<1>1. ASSUME UNCHANGED news, ~Dies(t) PROVE Silent'
  <2> SUFFICES ASSUME NEW u \in Tabs, ~Open(u)' PROVE news'[u] = {}
    BY DEF Silent
  <2>1. CASE u = t
    BY <1>1, <2>1, DocStays DEF Silent, Open
  <2>2. CASE u # t
    BY <1>0, <1>1, <2>2 DEF Silent, Open, Others
  <2> QED BY <2>1, <2>2
<1>2. ASSUME NEW generation, NEW revision, Succeeds(t, generation, revision), Open(t), ~Dies(t)
      PROVE  Silent'
  <2> SUFFICES ASSUME NEW u \in Tabs, ~Open(u)' PROVE news'[u] = {}
    BY DEF Silent
  <2>1. u # t
    BY <1>2, DocStays DEF Open
  <2>2. tabs'[u] = tabs[u]
    BY <1>0, <2>1 DEF Others
  <2>3. ~Open(u) /\ tabs[u].doc # tabs[t].doc
    BY <1>2, <2>2 DEF Open
  <2> QED BY <1>2, <2>1, <2>3 DEF Succeeds, Silent
<1>3. CASE Dies(t)
  <2> SUFFICES ASSUME NEW u \in Tabs, ~Open(u)' PROVE news'[u] = {}
    BY DEF Silent
  <2>1. CASE u = t
    BY <1>3, <2>1 DEF Dies, Types
  <2>2. CASE u # t
    BY <1>0, <1>3, <2>2 DEF Silent, Open, Others, Dies, Types
  <2> QED BY <2>1, <2>2
<1>4. ASSUME NEW m \in news[t], Hears(t, m) PROVE Silent'
  <2> SUFFICES ASSUME NEW u \in Tabs, ~Open(u)', ~Dies(t) PROVE news'[u] = {}
    BY <1>3 DEF Silent
  <2>0. Open(t)
    BY <1>4 DEF Silent
  <2>1. u # t
    BY <2>0, DocStays DEF Open
  <2> QED BY <1>0, <1>4, <2>1 DEF Silent, Open, Others, Hears, Types
<1>5. CASE Commit(t) /\ ~Dies(t)
  <2>1. Open(t)
    BY <1>5, AtWork
       DEF Commit, StartCommit, AlreadyDurable, Unsaved, ReadPointer, LookForAssets, WriteAssets,
           StageSnapshot, Verify, Promote, ListForPrune, Prune, Places, Commits
  <2> QED BY <1>1, <1>2, <1>5, <2>1
          DEF Commit, StartCommit, AlreadyDurable, ReadPointer, LookForAssets, WriteAssets,
              StageSnapshot, Verify, Promote, ListForPrune, Prune
<1>6. CASE Clean(t) /\ ~Dies(t)
  BY <1>1, <1>6 DEF Clean, DeleteOffered, Unlist, DropSnapshots, Mark, ListForSweep, Sweep, Visit,
                    Shorten, Discard
<1>7. CASE RestoreOffered(t) \/ Edit(t) \/ (\E d \in Docs : OpenDocument(t, d))
           \/ \E full \in BOOLEAN : TransactionFails(t, full)
  BY <1>1, <1>3, <1>7 DEF RestoreOffered, Edit, OpenDocument, TransactionFails
<1> QED BY <1>3, <1>4, <1>5, <1>6, <1>7 DEF Step

LEMMA StepMoves ==
    ASSUME Types, Silent, NEW t \in Tabs, Step(t)
    PROVE  Types' /\ Moving(t)
<1>1. CASE Commit(t)
  BY <1>1, CommitTypes
<1>2. CASE Clean(t)
  BY <1>2, CleanTypes
<1>3. ASSUME NEW d \in Docs, OpenDocument(t, d) PROVE Types' /\ Moving(t)
  <2> DEFINE tab == [doc |-> d, at |-> "idle", revision |-> 0, durable |-> 0, own |-> NoGeneration,
                     peer |-> Unheard, offered |-> LoadBest(d), writing |-> 0, expected |-> NoClaim,
                     seen |-> None, retried |-> FALSE, doomed |-> {}, visits |-> {}]
  <2>1. tab \in Tab
    <3>1. Unheard \in Announcements
      BY DraftAssumption DEF Unheard, Announcements, NoGeneration
    <3> QED BY <3>1, BestIsDraft, DraftAssumption DEF Tab, Places, NoGeneration, NoClaim
  <2>2. tab.at = "idle" /\ tab.writing = 0 /\ tab.durable = 0 /\ tab.revision = 0
    OBVIOUS
  <2>3. tabs' = [tabs EXCEPT ![t] = tab]
    BY <1>3 DEF OpenDocument
  <2> HIDE DEF tab
  <2>4. Counted(tab)
    BY <2>2 DEF Counted, Commits, Promoting
  <2>5. Moving(t)
    BY <2>1, <2>3, <2>4, BecomesTyped DEF Moving
  <2> QED BY <1>3, <2>5 DEF OpenDocument, Types, Moving
<1>4. CASE RestoreOffered(t)
  <2>0. tabs[t] \in Tab /\ Counted(tabs[t])
    BY <1>4, AtWork DEF RestoreOffered, Types
  <2>1. tabs[t].offered.revision \in 0..MaxRevision
    BY <1>4, <2>0, DraftAssumption DEF RestoreOffered, Tab, Drafts
  <2> DEFINE tab == [tabs[t] EXCEPT !.revision = tabs[t].offered.revision,
                                    !.durable = tabs[t].offered.revision, !.offered = None]
  <2>2. tab \in Tab
    BY <2>0, <2>1 DEF Tab
  <2>3. /\ tab.at = "idle" /\ tab.writing = tabs[t].writing /\ tab.revision = tabs[t].offered.revision
        /\ tab.durable = tabs[t].offered.revision
    BY <1>4, <2>0 DEF Tab, RestoreOffered, Idle
  <2>4. tabs' = [tabs EXCEPT ![t] = tab]
    BY <1>4 DEF RestoreOffered
  <2> HIDE DEF tab
  <2>5. Counted(tab)
    BY <1>4, <2>0, <2>1, <2>3 DEF Counted, Commits, Promoting, RestoreOffered, Idle
  <2>6. Moving(t)
    BY <2>2, <2>4, <2>5, BecomesTyped DEF Moving
  <2> QED BY <1>4, <2>6 DEF RestoreOffered, Types, Moving
<1>5. CASE Edit(t)
  <2>0. tabs[t] \in Tab /\ Counted(tabs[t])
    BY <1>5, AtWork DEF Edit, Types
  <2> DEFINE tab == [tabs[t] EXCEPT !.revision = tabs[t].revision + 1]
  <2>1. tabs[t].revision + 1 \in 0..MaxRevision
    BY <1>5, <2>0, DraftAssumption DEF Edit, Tab
  <2>2. tab \in Tab
    BY <2>0, <2>1 DEF Tab
  <2>3. /\ tab.at = tabs[t].at /\ tab.writing = tabs[t].writing /\ tab.revision = tabs[t].revision + 1
        /\ tab.durable = tabs[t].durable /\ tab.seen = tabs[t].seen
        /\ tabs[t].writing \in Nat /\ tabs[t].durable \in Nat /\ tabs[t].revision \in Nat
    BY <2>0, DraftAssumption DEF Tab
  <2>4. tabs' = [tabs EXCEPT ![t] = tab]
    BY <1>5 DEF Edit
  <2> HIDE DEF tab
  <2>5. Counted(tab)
    BY <2>0, <2>3 DEF Counted
  <2>6. Moving(t)
    BY <2>2, <2>4, <2>5, BecomesTyped DEF Moving
  <2> QED BY <1>5, <2>6 DEF Edit, Types, Moving
<1>6. CASE Dies(t)
  <2>1. \A u \in Others(t) : tabs'[u] = tabs[u]
    BY <1>6 DEF Dies, Others, Types
  <2>2. tabs'[t] = Gone
    BY <1>6 DEF Dies, Types
  <2>3. Moving(t)
    BY <1>6, <2>1, <2>2 DEF Dies, Moving, Others, Open, Gone, Counted, Types
  <2> QED BY <1>6, <2>3 DEF Dies, Types, Moving
<1>7. ASSUME NEW m \in news[t], Hears(t, m) PROVE Types' /\ Moving(t)
  <2>1. news' \in [Tabs -> SUBSET Announcements]
    BY <1>7 DEF Hears, Types
  <2>2. CASE UNCHANGED tabs
    <3>1. Moving(t)
      BY <2>2 DEF Moving, Types, Others, Open, Counted
    <3> QED BY <1>7, <2>1, <3>1 DEF Hears, Types, Moving
  <2>3. CASE tabs' = [tabs EXCEPT ![t].peer = m] /\ Open(t)
    <3>0. tabs[t] \in Tab /\ Counted(tabs[t])
      BY <2>3, AtWork DEF Types
    <3> DEFINE tab == [tabs[t] EXCEPT !.peer = m]
    <3>1. tab \in Tab
      BY <3>0, <1>7 DEF Tab, Types
    <3>2. /\ tab.at = tabs[t].at /\ tab.writing = tabs[t].writing /\ tab.revision = tabs[t].revision
          /\ tab.durable = tabs[t].durable /\ tab.seen = tabs[t].seen
      BY <3>0 DEF Tab
    <3>3. tabs' = [tabs EXCEPT ![t] = tab]
      BY <2>3
    <3> HIDE DEF tab
    <3>4. Counted(tab)
      BY <3>0, <3>2 DEF Counted
    <3>5. Moving(t)
      BY <3>1, <3>3, <3>4, BecomesTyped DEF Moving
    <3> QED BY <1>7, <2>1, <3>5 DEF Hears, Types, Moving
  <2>4. Open(t)
    BY <1>7 DEF Silent
  <2> QED BY <1>7, <2>2, <2>3, <2>4 DEF Hears
<1>8. ASSUME NEW full \in BOOLEAN, TransactionFails(t, full) PROVE Types' /\ Moving(t)
  <2>0. tabs[t] \in Tab /\ Counted(tabs[t])
    BY <1>8, AtWork DEF TransactionFails, Types
  <2>1. faults' \in 0..MaxFaults
    BY <1>8, DraftAssumption DEF TransactionFails, Fault, Types
  <2>2. CASE Rests(t)
    BY <1>8, <2>0, <2>1, <2>2, RestsTyped DEF TransactionFails, Types, Moving
  <2>3. CASE tabs' = [tabs EXCEPT ![t].at = "mark", ![t].visits = Docs \ {tabs[t].doc}]
    <3> DEFINE tab == [tabs[t] EXCEPT !.at = "mark", !.visits = Docs \ {tabs[t].doc}]
    <3>1. tab \in Tab
      BY <2>0 DEF Tab, Places, Sweeps
    <3>2. /\ tab.at = "mark" /\ tab.writing = tabs[t].writing /\ tab.revision = tabs[t].revision
          /\ tab.durable = tabs[t].durable
      BY <2>0 DEF Tab
    <3>3. tabs' = [tabs EXCEPT ![t] = tab]
      BY <2>3
    <3> HIDE DEF tab
    <3>4. Counted(tab)
      BY <2>0, <3>2 DEF Counted, Commits, Promoting
    <3>5. Moving(t)
      BY <3>1, <3>3, <3>4, BecomesTyped DEF Moving
    <3> QED BY <1>8, <2>1, <3>5 DEF TransactionFails, Types, Moving
  <2> QED BY <1>8, <2>2, <2>3 DEF TransactionFails
<1> QED BY <1>1, <1>2, <1>3, <1>4, <1>5, <1>6, <1>7, <1>8 DEF Step

LEMMA StepTypes ==
    ASSUME Types, Silent, NEW t \in Tabs, Step(t)
    PROVE  Types' /\ Moving(t) /\ Silent'
BY StepMoves, SilentStep

--------------------------------------------------------------------------------
(* Whose turn it is: a sweep runs alone, and one tab at a time writes a       *)
(* document.                                                                  *)

Guarded == Locks /\ ~SweepsOverlap

Alone ==
    \A t, u \in Tabs : t # u /\ Sweeping(t) => ~Open(u) \/ Idle(u)

OneWriter ==
    \A t, u \in Tabs :
        t # u /\ Open(t) /\ tabs[t].doc = tabs[u].doc /\ tabs[t].writing # 0 => tabs[u].writing = 0

\* A tab starts to sweep, to work, and to write only when the others let it.
Turns(t) ==
    /\ Sweeping(t)' => Sweeping(t) \/ \A u \in Others(t) : ~Open(u) \/ Idle(u)
    /\ Open(t)' /\ ~Idle(t)' => (Open(t) /\ ~Idle(t)) \/ \A u \in Others(t) : ~Sweeping(u)
    /\ Open(t)' /\ tabs'[t].writing # 0 => Open(t) /\ (tabs[t].writing # 0 \/ LockFree(t))

LEMMA StepTurns ==
    ASSUME Guarded, Types, Silent, NEW t \in Tabs, Step(t)
    PROVE  Turns(t)
<1>0. tabs \in [Tabs -> Tab \cup {Unopened, Gone}] /\ ~SweepsOverlap
  BY DEF Types, Guarded
<1>a. tabs[t] \in Tab <=> Open(t)
  BY AtWork
<1>1. ASSUME NEW tab, tabs' = [tabs EXCEPT ![t] = tab], Open(t) /\ ~Idle(t), tab.at \notin Sweeps,
             tab.writing # 0 => tabs[t].writing # 0
      PROVE  Turns(t)
  BY <1>0, <1>1 DEF Turns, Sweeping, Open
<1>2. ASSUME NEW tab, tabs' = [tabs EXCEPT ![t] = tab], Open(t), tab.at = "idle",
             tab.writing # 0 => tabs[t].writing # 0
      PROVE  Turns(t)
  BY <1>0, <1>2 DEF Turns, Sweeping, Open, Sweeps, Idle
<1>3. ASSUME NEW tab, tabs' = [tabs EXCEPT ![t] = tab], Open(t) /\ ~Idle(t),
             Sweeping(t) \/ \A u \in Others(t) : ~Open(u) \/ Idle(u),
             tab.writing # 0 => tabs[t].writing # 0
      PROVE  Turns(t)
  BY <1>0, <1>3 DEF Turns, Sweeping, Open
<1>4. ASSUME NEW at, Goes(t, at), tabs[t].at \in Commits, at \notin Sweeps PROVE Turns(t)
  <2> DEFINE tab == [tabs[t] EXCEPT !.at = at]
  <2>0. tabs[t] \in Tab /\ Open(t) /\ ~Idle(t)
    BY <1>4, AtWork DEF Places, Commits, Idle
  <2>1. tabs' = [tabs EXCEPT ![t] = tab]
    BY <1>4 DEF Goes
  <2>2. tab.at = at /\ tab.writing = tabs[t].writing
    BY <2>0 DEF Tab
  <2> HIDE DEF tab
  <2> QED BY <1>1, <1>4, <2>0, <2>1, <2>2
<1>5. ASSUME Rests(t), tabs[t] \in Tab PROVE Turns(t)
  <2>1. Over(tabs[t]).at = "idle" /\ Over(tabs[t]).writing = 0
    BY <1>5 DEF Over, Tab
  <2> QED BY <1>2, <1>5, <1>a, <2>1 DEF Rests
<1>6. ASSUME NEW generation, NEW revision, Succeeds(t, generation, revision), tabs[t] \in Tab
      PROVE  Turns(t)
  <2> DEFINE tab == [Over(tabs[t]) EXCEPT !.own = generation, !.durable = revision]
  <2>1. tab.at = "idle" /\ tab.writing = 0
    BY <1>6 DEF Over, Tab
  <2>2. tabs' = [tabs EXCEPT ![t] = tab]
    BY <1>6 DEF Succeeds
  <2> HIDE DEF tab
  <2> QED BY <1>2, <1>6, <1>a, <2>1, <2>2
<1>7. CASE Commit(t)
  <2>0. tabs[t] \in Tab /\ Open(t)
    BY <1>7, AtWork
       DEF Commit, StartCommit, AlreadyDurable, Unsaved, ReadPointer, LookForAssets, WriteAssets,
           StageSnapshot, Verify, Promote, ListForPrune, Prune, Places, Commits
  <2>1. CASE StartCommit(t)
    <3> DEFINE tab == [tabs[t] EXCEPT !.at = "read", !.writing = tabs[t].revision,
                                      !.expected = Guard(t), !.retried = FALSE]
    <3>1. tab.at = "read"
      BY <2>0 DEF Tab
    <3>2. tabs' = [tabs EXCEPT ![t] = tab] /\ LockFree(t) /\ \A u \in Others(t) : ~Sweeping(u)
      BY <1>0, <2>1 DEF StartCommit, MayStart
    <3> HIDE DEF tab
    <3> QED BY <1>0, <2>0, <3>1, <3>2 DEF Turns, Sweeping, Sweeps
  <2>2. CASE ReadPointer(t)
    <3> DEFINE tab == [tabs[t] EXCEPT !.at = "look", !.seen = pointers[tabs[t].doc]]
    <3>1. tab.at = "look" /\ tab.writing = tabs[t].writing
      BY <2>0 DEF Tab
    <3>2. tabs' = [tabs EXCEPT ![t] = tab] \/ Rests(t)
      BY <2>2 DEF ReadPointer
    <3> HIDE DEF tab
    <3>3. ~Idle(t)
      BY <2>2 DEF ReadPointer, Idle
    <3> QED BY <1>1, <1>5, <2>0, <3>1, <3>2, <3>3 DEF Sweeps
  <2>3. CASE ListForPrune(t)
    <3>1. ASSUME NEW doomed, tabs' = [tabs EXCEPT ![t].at = "prune", ![t].doomed = doomed]
          PROVE  Turns(t)
      <4> DEFINE tab == [tabs[t] EXCEPT !.at = "prune", !.doomed = doomed]
      <4>1. tab.at = "prune" /\ tab.writing = tabs[t].writing
        BY <2>0 DEF Tab
      <4>2. tabs' = [tabs EXCEPT ![t] = tab]
        BY <3>1
      <4>3. ~Idle(t)
        BY <2>3 DEF ListForPrune, Idle
      <4> HIDE DEF tab
      <4> QED BY <1>1, <2>0, <4>1, <4>2, <4>3 DEF Sweeps
    <3> QED BY <1>6, <2>0, <2>3, <3>1 DEF ListForPrune
  <2>4. CASE AlreadyDurable(t) \/ Prune(t)
    BY <1>6, <2>0, <2>4 DEF AlreadyDurable, Prune
  <2>5. CASE LookForAssets(t) \/ WriteAssets(t) \/ StageSnapshot(t) \/ Verify(t) \/ Promote(t)
    BY <1>4, <1>5, <2>0, <2>5
       DEF LookForAssets, WriteAssets, StageSnapshot, Verify, Promote, Commits, Sweeps
  <2> QED BY <1>7, <2>1, <2>2, <2>3, <2>4, <2>5 DEF Commit
<1>8. CASE Clean(t)
  <2>0. tabs[t] \in Tab /\ Open(t)
    BY <1>8, AtWork
       DEF Clean, DeleteOffered, Unlist, DropSnapshots, Mark, ListForSweep, Sweep, Visit, Shorten,
           Discard, Places, Sweeps
  <2>1. CASE DeleteOffered(t)
    <3> DEFINE tab == [tabs[t] EXCEPT !.at = "unlist", !.offered = None]
    <3>1. tab.at = "unlist" /\ tab.writing = tabs[t].writing
      BY <2>0 DEF Tab
    <3>2. tabs' = [tabs EXCEPT ![t] = tab] /\ \A u \in Others(t) : ~Sweeping(u) /\ (~Open(u) \/ Idle(u))
      BY <1>0, <2>1 DEF DeleteOffered, MayStart, MaySweep
    <3> HIDE DEF tab
    <3> QED BY <1>0, <2>0, <3>1, <3>2 DEF Turns
  <2>2. CASE ~DeleteOffered(t)
    <3>1. Sweeping(t) /\ ~Idle(t)
      BY <1>8, <2>2 DEF Clean, Unlist, DropSnapshots, Mark, ListForSweep, Sweep, Visit, Shorten,
                        Discard, Sweeping, Sweeps, Idle
    <3>2. tabs'[t].writing = tabs[t].writing
      <4>1. ASSUME NEW at, Goes(t, at) PROVE tabs'[t].writing = tabs[t].writing
        BY <1>0, <2>0, <4>1 DEF Goes, Tab
      <4>2. ASSUME NEW at, NEW doomed, tabs' = [tabs EXCEPT ![t].at = at, ![t].doomed = doomed]
            PROVE  tabs'[t].writing = tabs[t].writing
        BY <1>0, <2>0, <4>2 DEF Tab
      <4>3. CASE Sweep(t)
        BY <1>0, <2>0, <4>3 DEF Sweep, Tab
      <4>4. CASE Visit(t)
        <5>1. CASE tabs[t].visits = {}
          BY <1>0, <2>0, <4>4, <5>1 DEF Visit, Tab
        <5>2. ASSUME NEW visits, tabs' = [tabs EXCEPT ![t].visits = visits]
              PROVE  tabs'[t].writing = tabs[t].writing
          BY <1>0, <2>0, <5>2 DEF Tab
        <5>3. ASSUME NEW seen, NEW visits, NEW doomed,
                     tabs' = [tabs EXCEPT ![t].at = "shorten", ![t].seen = seen, ![t].visits = visits,
                                ![t].doomed = doomed]
              PROVE  tabs'[t].writing = tabs[t].writing
          BY <1>0, <2>0, <5>3 DEF Tab
        <5>4. ASSUME NEW d \in tabs[t].visits,
                     tabs' = IF pointers[d] = None \/ pointers[d].previous = NoGeneration
                             THEN [tabs EXCEPT ![t].visits = @ \ {d}]
                             ELSE [tabs EXCEPT ![t].at = "shorten", ![t].seen = pointers[d],
                                     ![t].visits = @ \ {d}, ![t].doomed = {<<d, pointers[d].previous>>}]
              PROVE  tabs'[t].writing = tabs[t].writing
          BY <5>2, <5>3, <5>4
        <5> QED BY <4>4, <5>1, <5>4 DEF Visit
      <4> QED BY <1>8, <2>2, <4>1, <4>2, <4>3, <4>4
              DEF Clean, Unlist, DropSnapshots, Mark, ListForSweep, Shorten, Discard
    <3> QED BY <2>0, <3>1, <3>2 DEF Turns
  <2> QED BY <2>1, <2>2
<1>9. ASSUME NEW d \in Docs, OpenDocument(t, d) PROVE Turns(t)
  <2>1. tabs'[t].at = "idle" /\ tabs'[t].writing = 0
    BY <1>0, <1>9 DEF OpenDocument
  <2> QED BY <2>1 DEF Turns, Sweeping, Sweeps, Idle
<1>10. CASE RestoreOffered(t) \/ Edit(t)
  <2>0. tabs[t] \in Tab /\ Open(t)
    BY <1>10, AtWork DEF RestoreOffered, Edit
  <2>1. tabs'[t].at = tabs[t].at /\ tabs'[t].writing = tabs[t].writing
    BY <1>0, <1>10, <2>0 DEF RestoreOffered, Edit, Tab
  <2> QED BY <2>0, <2>1 DEF Turns, Sweeping, Idle
<1>11. CASE Dies(t)
  <2>1. tabs'[t] = Gone
    BY <1>0, <1>11 DEF Dies
  <2> QED BY <2>1 DEF Turns, Sweeping, Sweeps, Gone, Open
<1>12. ASSUME NEW m \in news[t], Hears(t, m) PROVE Turns(t)
  <2>0. tabs[t] \in Tab /\ Open(t)
    BY <1>12, <1>a DEF Silent
  <2>1. tabs'[t].at = tabs[t].at /\ tabs'[t].writing = tabs[t].writing
    BY <1>0, <1>12, <2>0 DEF Hears, Tab
  <2> QED BY <2>0, <2>1 DEF Turns, Sweeping, Idle
<1>13. ASSUME NEW full \in BOOLEAN, TransactionFails(t, full) PROVE Turns(t)
  <2>0. tabs[t] \in Tab /\ Open(t) /\ ~Idle(t)
    BY <1>13, <1>a DEF TransactionFails
  <2>1. CASE Rests(t)
    BY <1>5, <2>0, <2>1
  <2>2. CASE MaySweep(t) /\ tabs' = [tabs EXCEPT ![t].at = "mark", ![t].visits = Docs \ {tabs[t].doc}]
    <3> DEFINE tab == [tabs[t] EXCEPT !.at = "mark", !.visits = Docs \ {tabs[t].doc}]
    <3>1. tab.writing = tabs[t].writing
      BY <2>0 DEF Tab
    <3>2. tabs' = [tabs EXCEPT ![t] = tab] /\ \A u \in Others(t) : ~Open(u) \/ Idle(u)
      BY <1>0, <2>2 DEF MaySweep
    <3> HIDE DEF tab
    <3> QED BY <1>3, <2>0, <3>1, <3>2
  <2> QED BY <1>13, <2>1, <2>2 DEF TransactionFails
<1> QED BY <1>7, <1>8, <1>9, <1>10, <1>11, <1>12, <1>13 DEF Step

LEMMA TurnsStep ==
    ASSUME Guarded, Types, Silent, Alone, OneWriter, NEW t \in Tabs, Step(t)
    PROVE  Alone' /\ OneWriter'
<1>0. Turns(t) /\ \A u \in Others(t) : tabs'[u] = tabs[u]
  BY StepTurns, StepTypes DEF Moving
<1>1. ASSUME NEW u \in Tabs, NEW v \in Tabs, u # v, Sweeping(u)' PROVE ~Open(v)' \/ Idle(v)'
  <2>1. CASE u = t
    BY <1>0, <1>1, <2>1 DEF Turns, Others, Alone, Open, Idle
  <2>2. CASE v = t
    <3>1. Sweeping(u) /\ u \in Others(t)
      BY <1>0, <1>1, <2>2 DEF Others, Sweeping
    <3> QED BY <1>0, <1>1, <2>2, <3>1 DEF Turns, Alone
  <2>3. CASE u # t /\ v # t
    BY <1>0, <1>1, <2>3 DEF Others, Sweeping, Alone, Open, Idle
  <2> QED BY <2>1, <2>2, <2>3
<1>2. ASSUME NEW u \in Tabs, NEW v \in Tabs, u # v, Open(u)', tabs'[u].doc = tabs'[v].doc,
             tabs'[u].writing # 0
      PROVE  tabs'[v].writing = 0
  <2>0. Open(v)'
    BY <1>2 DEF Open
  <2>1. ASSUME NEW w \in Others(t), Open(w)', Open(t)', tabs'[w].doc = tabs'[t].doc,
               tabs'[w].writing # 0, tabs'[t].writing # 0
        PROVE  FALSE
    <3>1. tabs'[w] = tabs[w] /\ Open(t) /\ (tabs[t].writing # 0 \/ LockFree(t))
      BY <1>0, <2>1 DEF Turns
    <3>2. tabs'[t].doc = tabs[t].doc
      BY <2>1, <3>1, DocStays DEF Dies, Types, Open, Gone
    <3>3. tabs[w].doc = tabs[t].doc /\ tabs[w].writing # 0
      BY <2>1, <3>1, <3>2
    <3>4. CASE LockFree(t)
      BY <3>3, <3>4 DEF LockFree, Guarded
    <3>5. CASE tabs[t].writing # 0
      BY <3>1, <3>3, <3>5 DEF OneWriter, Others
    <3> QED BY <3>1, <3>4, <3>5
  <2>2. CASE u = t \/ v = t
    BY <1>2, <2>0, <2>1, <2>2 DEF Others
  <2>3. CASE u # t /\ v # t
    BY <1>0, <1>2, <2>3 DEF Others, Open, OneWriter
  <2> QED BY <2>2, <2>3
<1> QED BY <1>1, <1>2 DEF Alone, OneWriter

--------------------------------------------------------------------------------
(* What a tab at work can rely on.                                            *)

Holding == {"look", "assets", "stage", "verify", "promote"}
Pruning == {"list prune", "prune"}
Key(t) == <<tabs[t].doc, Generation(t)>>

\* A committing tab saw the document's pointer, and nobody has moved it or what was staged.
Writing(t) ==
    /\ tabs[t].at \in Holding => tabs[t].seen = pointers[tabs[t].doc]
    /\ tabs[t].at \in {"promote"} \cup Pruning => snapshots[Key(t)] = Work(t)
    /\ tabs[t].at = "verify" => snapshots[Key(t)] \in {None, Work(t)}
    /\ tabs[t].at = "promote" => Source[tabs[t].doc] \in assets
    /\ tabs[t].at \in Pruning =>
          pointers[tabs[t].doc] = [active |-> Generation(t), previous |-> Active(tabs[t].seen)]
    /\ tabs[t].at = "prune" =>
          \A k \in tabs[t].doomed : \E g \in Generations \ Kept(t) : k = <<tabs[t].doc, g>>

\* A sweep removes nothing that a pointer names.
Clearing(t) ==
    /\ tabs[t].at = "drop" => pointers[tabs[t].doc] = None
    /\ tabs[t].at = "list" =>
          \A d \in Docs : \A g \in Named(d) : <<d, g>> \in tabs[t].doomed /\ Source[d] \in tabs[t].doomed
    /\ tabs[t].at = "sweep" =>
          \A d \in Docs : \A g \in Named(d) : <<d, g>> \notin tabs[t].doomed /\ Source[d] \notin tabs[t].doomed
    /\ tabs[t].at = "shorten" =>
          \E d \in Docs : /\ pointers[d] # None /\ tabs[t].seen = pointers[d]
                          /\ pointers[d].previous \in Generations
                          /\ tabs[t].doomed = {<<d, pointers[d].previous>>}
    /\ tabs[t].at = "discard" =>
          \E d \in Docs : \E g \in Generations \ Named(d) : tabs[t].doomed = {<<d, g>>}

StoreInv ==
    /\ Types /\ Silent /\ Alone /\ OneWriter
    /\ \A t \in Tabs : Writing(t) /\ Clearing(t)
    /\ DraftsIntact

\* What a pointer names: its active generation, and one before it.
LEMMA Naming ==
    ASSUME Types, NEW d \in Docs
    PROVE  /\ Named(d) \subseteq Generations
           /\ pointers[d] # None =>
                /\ pointers[d].active \in Named(d) /\ pointers[d].active \in Generations
                /\ \A g \in Named(d) : g \in {pointers[d].active, pointers[d].previous} /\ g # 0
                /\ pointers[d].previous \in 0..MaxGeneration
                /\ pointers[d].previous < pointers[d].active
                /\ pointers[d].previous # 0 => pointers[d].previous \in Named(d)
           /\ pointers[d] = None => Named(d) = {}
<1>1. pointers[d] \in Pointers \cup {None}
  BY DEF Types
<1> QED BY <1>1, DraftAssumption DEF Named, Pointers, Ordered, Generations, NoGeneration

LEMMA GoesFields ==
    ASSUME Types, NEW t \in Tabs, tabs[t] \in Tab, NEW at, Goes(t, at)
    PROVE  /\ tabs'[t].at = at /\ tabs'[t].doc = tabs[t].doc /\ tabs'[t].seen = tabs[t].seen
           /\ tabs'[t].writing = tabs[t].writing /\ tabs'[t].doomed = tabs[t].doomed
           /\ tabs'[t].revision = tabs[t].revision
BY DEF Goes, Tab, Types

\* What one tab's step does to the store.
Effect(t) ==
    \/ UNCHANGED <<pointers, snapshots, assets>>
    \/ Sweeping(t)
    \/ /\ tabs[t].at \in Commits /\ assets \subseteq assets'
       /\ \A d \in Docs \ {tabs[t].doc} :
            pointers'[d] = pointers[d] /\ \A g \in Generations : snapshots'[<<d, g>>] = snapshots[<<d, g>>]

LEMMA StepEffect ==
    ASSUME Types, NEW t \in Tabs, Writing(t), Step(t)
    PROVE  Effect(t)
<1>1. CASE Prune(t)
  <2>1. \A d \in Docs \ {tabs[t].doc} : \A g \in Generations : <<d, g>> \notin tabs[t].doomed
    BY <1>1 DEF Prune, Writing, Pruning
  <2> QED BY <1>1, <2>1 DEF Prune, Effect, Without, Types, Commits
<1>2. CASE StageSnapshot(t)
  BY <1>2 DEF StageSnapshot, Effect, Without, Types, Commits
<1>3. CASE Promote(t)
  BY <1>3 DEF Promote, Effect, Types, Commits
<1>4. CASE WriteAssets(t)
  BY <1>4 DEF WriteAssets, Effect, Types, Commits
<1>5. CASE Commit(t)
  BY <1>1, <1>2, <1>3, <1>4, <1>5
     DEF Commit, StartCommit, AlreadyDurable, ReadPointer, LookForAssets, Verify, ListForPrune, Effect
<1>6. CASE Clean(t)
  BY <1>6 DEF Clean, DeleteOffered, Unlist, DropSnapshots, Mark, ListForSweep, Sweep, Visit, Shorten,
              Discard, Effect, Sweeping, Sweeps
<1>7. CASE ~Commit(t) /\ ~Clean(t)
  BY <1>7 DEF Step, OpenDocument, RestoreOffered, Edit, Dies, Hears, TransactionFails, Effect
<1> QED BY <1>5, <1>6, <1>7

LEMMA OthersStand ==
    ASSUME StoreInv, NEW t \in Tabs, Effect(t), NEW u \in Others(t), tabs'[u] = tabs[u]
    PROVE  Writing(u)' /\ Clearing(u)'
<1>0. /\ u \in Tabs /\ u # t /\ Types /\ Writing(u) /\ Clearing(u) /\ Generation(u)' = Generation(u)
      /\ Work(u)' = Work(u) /\ Key(u)' = Key(u) /\ Kept(u)' = Kept(u)
  BY DEF Others, StoreInv, Generation, Work, Key, Kept
<1>1. CASE UNCHANGED <<pointers, snapshots, assets>>
  BY <1>0, <1>1 DEF Writing, Clearing, Named
<1>2. CASE ~Open(u) \/ Idle(u)
  <2>1. tabs[u].at \in {"idle", "new", "gone"}
    <3>1. tabs[u] \in Tab \cup {Unopened, Gone} /\ (tabs[u] \in Tab => Open(u))
      BY <1>0, AtWork DEF Types
    <3> QED BY <1>2, <3>1 DEF Idle, Unopened, Gone
  <2> QED BY <2>1 DEF Writing, Clearing, Holding, Pruning
<1>3. CASE Sweeping(t)
  BY <1>0, <1>2, <1>3 DEF StoreInv, Alone
<1>4. CASE /\ tabs[t].at \in Commits /\ assets \subseteq assets'
           /\ \A d \in Docs \ {tabs[t].doc} :
                pointers'[d] = pointers[d] /\ \A g \in Generations : snapshots'[<<d, g>>] = snapshots[<<d, g>>]
  <2>1. ~Sweeping(u)
    <3>1. Open(t) /\ ~Idle(t)
      BY <1>0, <1>4, AtWork DEF Places, Commits, Idle
    <3> QED BY <1>0, <3>1 DEF StoreInv, Alone
  <2>2. CASE tabs[u].at \in Commits
    <3>1. tabs[u] \in Tab /\ tabs[t] \in Tab /\ Open(u) /\ Open(t)
      BY <1>0, <1>4, <2>2, AtWork DEF Places
    <3>2. tabs[u].writing # 0 /\ tabs[t].writing # 0
      BY <1>0, <1>4, <2>2, <3>1 DEF Types, Counted
    <3>3. tabs[u].doc # tabs[t].doc /\ tabs[u].doc \in Docs
      BY <1>0, <3>1, <3>2 DEF StoreInv, OneWriter, Tab
    <3>4. tabs[u].at \in Promoting => Generation(u) \in Generations
      BY <1>0, <3>1, SeenActive, DraftAssumption DEF Types, Counted, Generation, Generations
    <3>5. tabs[u].at \in Promoting => snapshots'[Key(u)] = snapshots[Key(u)]
      BY <1>4, <3>3, <3>4 DEF Key
    <3>6. pointers'[tabs[u].doc] = pointers[tabs[u].doc]
      BY <1>4, <3>3
    <3>7. Writing(u)'
      BY <1>0, <1>4, <3>5, <3>6 DEF Writing, Promoting, Pruning
    <3>8. Clearing(u)'
      BY <2>2 DEF Clearing, Commits
    <3> QED BY <3>7, <3>8
  <2>3. CASE tabs[u].at \notin Commits
    <3>1. tabs[u].at \in {"idle", "new", "gone"}
      <4>1. tabs[u] \in Tab => tabs[u].at = "idle"
        BY <1>0, <2>1, <2>3, AtWork DEF Places, Sweeping
      <4>2. tabs[u] \in Tab \cup {Unopened, Gone}
        BY <1>0 DEF Types
      <4> QED BY <4>1, <4>2 DEF Unopened, Gone
    <3> QED BY <3>1 DEF Writing, Clearing, Holding, Pruning
  <2> QED BY <2>2, <2>3
<1> QED BY <1>1, <1>3, <1>4 DEF Effect

\* A step that leaves the store and the tab's plan alone leaves what it relies on.
LEMMA QuietStands ==
    ASSUME NEW t \in Tabs, Writing(t), Clearing(t), UNCHANGED <<pointers, snapshots, assets>>,
           tabs'[t].at = tabs[t].at, tabs'[t].doc = tabs[t].doc, tabs'[t].seen = tabs[t].seen,
           tabs'[t].writing = tabs[t].writing, tabs'[t].doomed = tabs[t].doomed
    PROVE  Writing(t)' /\ Clearing(t)'
<1>1. /\ Generation(t)' = Generation(t) /\ Key(t)' = Key(t) /\ Kept(t)' = Kept(t)
      /\ Work(t)' = Work(t)
  BY DEF Generation, Key, Kept, Work
<1>2. \A d : Named(d)' = Named(d)
  BY DEF Named
<1> QED BY <1>1, <1>2 DEF Writing, Clearing

\* A tab that comes to rest, or starts over, relies on nothing.
LEMMA RestStands ==
    ASSUME NEW t \in Tabs, tabs'[t].at \in {"idle", "gone", "read", "mark", "unlist", "visit"}
    PROVE  Writing(t)' /\ Clearing(t)'
BY DEF Writing, Clearing, Holding, Pruning

LEMMA CommitStands ==
    ASSUME StoreInv, NEW t \in Tabs, Commit(t), Types'
    PROVE  Writing(t)' /\ Clearing(t)'
<1>0. tabs[t] \in Tab /\ Open(t) /\ Types /\ Writing(t) /\ Clearing(t) /\ Counted(tabs[t])
  <2>1. Open(t) \/ tabs[t].at \in Places
    BY DEF Commit, StartCommit, AlreadyDurable, Unsaved, ReadPointer, LookForAssets, WriteAssets,
           StageSnapshot, Verify, Promote, ListForPrune, Prune, Places, Commits
  <2> QED BY <2>1, AtWork DEF Types, StoreInv
<1>a. /\ tabs[t].doc \in Docs /\ tabs[t].seen \in Pointers \cup {None}
      /\ Active(tabs[t].seen) \in 0..MaxGeneration
      /\ tabs \in [Tabs -> Tab \cup {Unopened, Gone}]
  <2>1. tabs[t].doc \in Docs /\ tabs[t].seen \in Pointers \cup {None}
    BY <1>0 DEF Tab
  <2> QED BY <1>0, <2>1, SeenActive DEF Types
<1>b. ASSUME NEW at, Goes(t, at)
      PROVE  /\ tabs'[t].at = at /\ tabs'[t].doc = tabs[t].doc /\ tabs'[t].seen = tabs[t].seen
             /\ tabs'[t].doomed = tabs[t].doomed
             /\ Generation(t)' = Generation(t) /\ Key(t)' = Key(t) /\ Kept(t)' = Kept(t)
             /\ Work(t)' = Work(t)
  BY <1>0, <1>b, GoesFields DEF Generation, Key, Kept, Work
<1>c. ASSUME Rests(t) PROVE tabs'[t].at = "idle"
  <2>1. Over(tabs[t]).at = "idle"
    BY <1>0 DEF Over, Tab
  <2> QED BY <1>a, <1>c, <2>1 DEF Rests
<1>d. ASSUME NEW generation, NEW revision, Succeeds(t, generation, revision) PROVE tabs'[t].at = "idle"
  <2>1. [Over(tabs[t]) EXCEPT !.own = generation, !.durable = revision].at = "idle"
    BY <1>0 DEF Over, Tab
  <2> QED BY <1>a, <1>d, <2>1 DEF Succeeds
<1>1. CASE StartCommit(t)
  <2>1. tabs'[t].at = "read"
    BY <1>0, <1>1, <1>a DEF StartCommit, Tab
  <2> QED BY <2>1, RestStands
<1>2. CASE AlreadyDurable(t) \/ Prune(t)
  BY <1>2, <1>d, RestStands DEF AlreadyDurable, Prune
<1>3. CASE ReadPointer(t)
  <2>1. CASE Rests(t)
    BY <1>c, <2>1, RestStands
  <2>2. CASE tabs' = [tabs EXCEPT ![t].at = "look", ![t].seen = pointers[tabs[t].doc]]
    <3>1. tabs'[t].at = "look" /\ tabs'[t].seen = pointers[tabs[t].doc] /\ tabs'[t].doc = tabs[t].doc
      BY <1>0, <1>a, <2>2 DEF Tab
    <3>2. UNCHANGED pointers
      BY <1>3 DEF ReadPointer
    <3> QED BY <3>1, <3>2 DEF Writing, Clearing, Pruning
  <2> QED BY <1>3, <2>1, <2>2 DEF ReadPointer
<1>4. CASE LookForAssets(t) \/ WriteAssets(t)
  <2>1. tabs[t].seen = pointers[tabs[t].doc]
    BY <1>0, <1>4 DEF LookForAssets, WriteAssets, Writing, Holding
  <2>2. tabs'[t].at \in {"stage", "assets"} /\ tabs'[t].seen = tabs[t].seen /\ tabs'[t].doc = tabs[t].doc
    BY <1>4, <1>b DEF LookForAssets, WriteAssets
  <2>3. UNCHANGED pointers
    BY <1>4 DEF LookForAssets, WriteAssets
  <2> QED BY <2>1, <2>2, <2>3 DEF Writing, Clearing, Pruning
<1>5. CASE StageSnapshot(t)
  <2>1. tabs[t].seen = pointers[tabs[t].doc]
    BY <1>0, <1>5 DEF StageSnapshot, Writing, Holding
  <2>2. /\ tabs'[t].at = "verify" /\ tabs'[t].seen = tabs[t].seen /\ tabs'[t].doc = tabs[t].doc
        /\ Key(t)' = Key(t) /\ Work(t)' = Work(t) /\ UNCHANGED pointers
    BY <1>5, <1>b DEF StageSnapshot
  <2>3. Key(t) \in Docs \X Generations
    BY <1>5, <1>a DEF StageSnapshot, Key
  <2>4. snapshots'[Key(t)] \in {None, Work(t)}
    BY <1>0, <1>5, <2>3 DEF StageSnapshot, Without, Types, Key
  <2> QED BY <2>1, <2>2, <2>4 DEF Writing, Clearing, Pruning
<1>6. CASE Verify(t)
  <2>1. tabs[t].seen = pointers[tabs[t].doc] /\ snapshots[Key(t)] \in {None, Work(t)}
    BY <1>0, <1>6 DEF Verify, Writing, Holding
  <2>2. CASE ReadsBack(t)
    <3>1. /\ tabs'[t].at = "promote" /\ tabs'[t].seen = tabs[t].seen /\ tabs'[t].doc = tabs[t].doc
          /\ Key(t)' = Key(t) /\ Work(t)' = Work(t) /\ UNCHANGED <<pointers, snapshots, assets>>
      BY <1>6, <1>b, <2>2 DEF Verify
    <3>2. snapshots[Key(t)] = Work(t) /\ Source[tabs[t].doc] \in assets
      BY <2>1, <2>2 DEF ReadsBack, Key
    <3> QED BY <2>1, <3>1, <3>2 DEF Writing, Clearing, Pruning
  <2>3. CASE ~ReadsBack(t)
    BY <1>6, <1>c, <2>3, RestStands DEF Verify
  <2> QED BY <2>2, <2>3
<1>7. CASE Promote(t)
  <2>1. snapshots[Key(t)] = Work(t)
    BY <1>0, <1>7 DEF Promote, Writing
  <2>2. /\ tabs'[t].at = "list prune" /\ tabs'[t].seen = tabs[t].seen /\ tabs'[t].doc = tabs[t].doc
        /\ Key(t)' = Key(t) /\ Work(t)' = Work(t) /\ Generation(t)' = Generation(t)
        /\ UNCHANGED snapshots
    BY <1>7, <1>b DEF Promote
  <2>3. pointers'[tabs[t].doc] = [active |-> Generation(t), previous |-> Active(tabs[t].seen)]
    BY <1>0, <1>7, <1>a DEF Promote, Types
  <2> QED BY <2>1, <2>2, <2>3 DEF Writing, Clearing, Holding
<1>8. CASE ListForPrune(t)
  <2>1. CASE Succeeds(t, Generation(t), Credit(t))
    BY <1>d, <2>1, RestStands
  <2>2. CASE ~Succeeds(t, Generation(t), Credit(t))
    <3> DEFINE doomed == {<<tabs[t].doc, g>> : g \in Held(tabs[t].doc) \ Kept(t)}
    <3>1. tabs' = [tabs EXCEPT ![t].at = "prune", ![t].doomed = doomed]
      BY <1>8, <2>2 DEF ListForPrune
    <3>2. \A k \in doomed : \E g \in Generations \ Kept(t) : k = <<tabs[t].doc, g>>
      BY DEF Held
    <3> HIDE DEF doomed
    <3>3. /\ tabs'[t].at = "prune" /\ tabs'[t].seen = tabs[t].seen /\ tabs'[t].doc = tabs[t].doc
          /\ tabs'[t].writing = tabs[t].writing /\ tabs'[t].doomed = doomed
      BY <1>0, <1>a, <3>1 DEF Tab
    <3>4. /\ Generation(t)' = Generation(t) /\ Key(t)' = Key(t) /\ Kept(t)' = Kept(t)
          /\ Work(t)' = Work(t) /\ UNCHANGED <<pointers, snapshots>>
      BY <1>8, <3>3 DEF Generation, Key, Kept, Work, ListForPrune
    <3>5. /\ snapshots[Key(t)] = Work(t)
          /\ pointers[tabs[t].doc] = [active |-> Generation(t), previous |-> Active(tabs[t].seen)]
      BY <1>0, <1>8 DEF ListForPrune, Writing, Pruning
    <3> QED BY <3>2, <3>3, <3>4, <3>5 DEF Writing, Clearing, Holding
  <2> QED BY <2>1, <2>2
<1> QED BY <1>1, <1>2, <1>3, <1>4, <1>5, <1>6, <1>7, <1>8 DEF Commit

LEMMA CleanStands ==
    ASSUME StoreInv, NEW t \in Tabs, Clean(t), Types'
    PROVE  Writing(t)' /\ Clearing(t)'
<1>0. tabs[t] \in Tab /\ Open(t) /\ Types /\ Writing(t) /\ Clearing(t) /\ Counted(tabs[t]) /\ DraftsIntact
  <2>1. Open(t) \/ tabs[t].at \in Places
    BY DEF Clean, DeleteOffered, Unlist, DropSnapshots, Mark, ListForSweep, Sweep, Visit, Shorten,
           Discard, Places, Sweeps
  <2> QED BY <2>1, AtWork DEF Types, StoreInv
<1>a. /\ tabs[t].doc \in Docs /\ tabs[t].visits \subseteq Docs
      /\ tabs \in [Tabs -> Tab \cup {Unopened, Gone}]
  BY <1>0 DEF Tab, Types
<1>w. ASSUME tabs'[t].at \in Sweeps PROVE Writing(t)'
  BY <1>w DEF Writing, Holding, Pruning, Sweeps
<1>1. CASE DeleteOffered(t)
  <2>1. tabs'[t].at = "unlist"
    BY <1>0, <1>1, <1>a DEF DeleteOffered, Tab
  <2> QED BY <2>1, RestStands
<1>2. CASE Unlist(t)
  <2>1. tabs'[t].at = "drop" /\ tabs'[t].doc = tabs[t].doc
    BY <1>0, <1>2, GoesFields DEF Unlist
  <2>2. pointers'[tabs[t].doc] = None
    BY <1>0, <1>2, <1>a DEF Unlist, Types
  <2> QED BY <2>1, <2>2 DEF Writing, Clearing, Holding, Pruning
<1>3. CASE DropSnapshots(t)
  <2>1. tabs'[t].at = "mark"
    BY <1>0, <1>3, GoesFields DEF DropSnapshots
  <2> QED BY <2>1, RestStands
<1>4. CASE Mark(t)
  <2> DEFINE live == Live(t) \cup {Source[k[1]] : k \in {l \in Live(t) : snapshots[l] # None}}
  <2>1. tabs'[t].at = "list" /\ tabs'[t].doomed = live
    BY <1>0, <1>4, <1>a DEF Mark, Tab
  <2>2. ASSUME NEW d \in Docs, NEW g \in Named(d) PROVE <<d, g>> \in live /\ Source[d] \in live
    <3>1. <<d, g>> \in Live(t)
      BY DEF Live
    <3>2. snapshots[<<d, g>>] # None
      BY <1>0, <2>2 DEF DraftsIntact, Held
    <3>3. Source[<<d, g>>[1]] \in live
      BY <3>1, <3>2
    <3> QED BY <3>1, <3>3
  <2>3. \A d \in Docs : Named(d)' = Named(d)
    BY <1>4 DEF Mark, Named
  <2> HIDE DEF live
  <2>4. Clearing(t)'
    BY <2>1, <2>2, <2>3 DEF Clearing
  <2> QED BY <1>w, <2>1, <2>4 DEF Sweeps
<1>5. CASE ListForSweep(t)
  <2> DEFINE doomed == ({k \in DOMAIN snapshots : snapshots[k] # None} \cup assets) \ tabs[t].doomed
  <2>1. tabs'[t].at = "sweep" /\ tabs'[t].doomed = doomed
    BY <1>0, <1>5, <1>a DEF ListForSweep, Tab
  <2>2. \A d \in Docs : \A g \in Named(d) : <<d, g>> \in tabs[t].doomed /\ Source[d] \in tabs[t].doomed
    BY <1>0, <1>5 DEF ListForSweep, Clearing
  <2>3. \A d \in Docs : \A g \in Named(d) : <<d, g>> \notin doomed /\ Source[d] \notin doomed
    BY <2>2
  <2>4. \A d \in Docs : Named(d)' = Named(d)
    BY <1>5 DEF ListForSweep, Named
  <2> HIDE DEF doomed
  <2>5. Clearing(t)'
    BY <2>1, <2>3, <2>4 DEF Clearing
  <2> QED BY <1>w, <2>1, <2>5 DEF Sweeps
<1>6. CASE Sweep(t)
  <2>1. tabs'[t].at \in {"idle", "read", "visit"}
    BY <1>0, <1>6, <1>a DEF Sweep, Tab
  <2> QED BY <2>1, RestStands
<1>7. CASE Visit(t)
  <2>1. CASE tabs[t].visits = {}
    <3>1. tabs'[t].at = "mark"
      BY <1>0, <1>7, <1>a, <2>1 DEF Visit, Tab
    <3> QED BY <3>1, RestStands
  <2>2. ASSUME NEW visits, tabs' = [tabs EXCEPT ![t].visits = visits]
        PROVE  tabs'[t].at = "visit"
    BY <1>0, <1>7, <1>a, <2>2 DEF Visit, Tab
  <2>3. ASSUME NEW d \in tabs[t].visits, pointers[d] # None, pointers[d].previous # NoGeneration,
               NEW visits,
               tabs' = [tabs EXCEPT ![t].at = "shorten", ![t].seen = pointers[d],
                          ![t].visits = visits, ![t].doomed = {<<d, pointers[d].previous>>}]
        PROVE  Writing(t)' /\ Clearing(t)'
    <3>1. /\ tabs'[t].at = "shorten" /\ tabs'[t].seen = pointers[d]
          /\ tabs'[t].doomed = {<<d, pointers[d].previous>>}
      BY <1>0, <1>a, <2>3 DEF Tab
    <3>2. d \in Docs /\ pointers[d].previous \in Generations /\ UNCHANGED pointers
      BY <1>0, <1>7, <1>a, <2>3, Naming, DraftAssumption DEF Visit, NoGeneration, Generations
    <3>3. Clearing(t)'
      BY <2>3, <3>1, <3>2 DEF Clearing
    <3> QED BY <1>w, <3>1, <3>3 DEF Sweeps
  <2>4. ASSUME NEW d \in tabs[t].visits,
               tabs' = IF pointers[d] = None \/ pointers[d].previous = NoGeneration
                       THEN [tabs EXCEPT ![t].visits = @ \ {d}]
                       ELSE [tabs EXCEPT ![t].at = "shorten", ![t].seen = pointers[d],
                               ![t].visits = @ \ {d}, ![t].doomed = {<<d, pointers[d].previous>>}]
        PROVE  Writing(t)' /\ Clearing(t)'
    BY <2>2, <2>3, <2>4, RestStands
  <2> QED BY <1>7, <2>1, <2>4 DEF Visit
<1>8. CASE Shorten(t)
  <2>1. PICK d \in Docs : /\ pointers[d] # None /\ tabs[t].seen = pointers[d]
                          /\ pointers[d].previous \in Generations
                          /\ tabs[t].doomed = {<<d, pointers[d].previous>>}
    BY <1>0, <1>8 DEF Shorten, Clearing
  <2>2. Victim(t) = d
    <3>1. \E g \in Generations : <<d, g>> \in tabs[t].doomed
      BY <2>1
    <3>2. \A e \in Docs : (\E g \in Generations : <<e, g>> \in tabs[t].doomed) => e = d
      BY <2>1
    <3> QED BY <3>1, <3>2 DEF Victim
  <2>3. pointers'[d] = [pointers[d] EXCEPT !.previous = NoGeneration]
    BY <1>0, <1>8, <2>1, <2>2 DEF Shorten, Types
  <2>4. pointers[d].previous \notin Named(d)'
    <3>1. pointers[d] \in Pointers
      BY <1>0, <2>1 DEF Types
    <3>2. pointers'[d].active = pointers[d].active /\ pointers'[d].previous = 0
      BY <2>3, <3>1 DEF Pointers, Pointer, NoGeneration
    <3> QED BY <2>1, <3>1, <3>2, DraftAssumption DEF Named, Pointers, Ordered, Generations, NoGeneration
  <2>5. tabs'[t].at = "discard" /\ tabs'[t].doomed = tabs[t].doomed
    BY <1>0, <1>8, GoesFields DEF Shorten
  <2>6. Clearing(t)'
    BY <2>1, <2>4, <2>5 DEF Clearing
  <2> QED BY <1>w, <2>5, <2>6 DEF Sweeps
<1>9. CASE Discard(t)
  <2>1. tabs'[t].at = "visit"
    BY <1>0, <1>9, <1>a DEF Discard, Tab
  <2> QED BY <2>1, RestStands
<1> QED BY <1>1, <1>2, <1>3, <1>4, <1>5, <1>6, <1>7, <1>8, <1>9 DEF Clean

\* A draft's active generation stays, and nothing is taken from the generations it names.
Spares(d) ==
    /\ pointers'[d] = None <=> pointers[d] = None
    /\ pointers[d] # None => pointers'[d].active = pointers[d].active
    /\ Named(d)' \subseteq Named(d)
    /\ \A g \in Named(d)' : snapshots'[<<d, g>>] = snapshots[<<d, g>>]
    /\ Named(d)' # {} /\ Source[d] \in assets => Source[d] \in assets'

LEMMA SparesStep ==
    ASSUME StoreInv, NEW t \in Tabs, Step(t), ~Promote(t), ~Unlist(t), NEW d \in Docs
    PROVE  Spares(d)
<1>0. Types /\ DraftsIntact /\ Writing(t) /\ Clearing(t)
  BY DEF StoreInv
<1>a. Named(d) \subseteq Generations /\ Named(d) \subseteq Held(d)
  BY <1>0, Naming DEF DraftsIntact
<1>1. CASE UNCHANGED <<pointers, snapshots, assets>>
  BY <1>1 DEF Named, Spares
<1>b. ASSUME NEW keys, snapshots' = Without(keys), \A g \in Named(d) : <<d, g>> \notin keys
      PROVE  \A g \in Named(d) : snapshots'[<<d, g>>] = snapshots[<<d, g>>]
  BY <1>0, <1>a, <1>b DEF Without, Types
<1>c. ASSUME UNCHANGED pointers PROVE Named(d)' = Named(d)
  BY <1>c DEF Named
<1>2. CASE WriteAssets(t)
  BY <1>2, <1>c DEF WriteAssets, Spares
<1>3. CASE StageSnapshot(t)
  <2>1. tabs[t] \in Tab
    BY <1>0, <1>3, AtWork DEF StageSnapshot, Places, Commits
  <2>2. tabs[t].seen = pointers[tabs[t].doc]
    BY <1>0, <1>3 DEF StageSnapshot, Writing, Holding
  <2>3. d = tabs[t].doc => Generation(t) \notin Named(d)
    BY <1>0, <2>2, Naming, DraftAssumption DEF Generation, Active, NoGeneration, Generations
  <2>4. \A g \in Named(d) : <<d, g>> # Key(t)
    BY <2>3 DEF Key
  <2>5. \A g \in Named(d) : snapshots'[<<d, g>>] = snapshots[<<d, g>>]
    <3>1. CASE snapshots' = [snapshots EXCEPT ![Key(t)] = Work(t)]
      BY <1>0, <1>a, <2>4, <3>1 DEF Types
    <3>2. CASE snapshots' = Without({Key(t)})
      BY <1>b, <2>4, <3>2
    <3> QED BY <1>3, <3>1, <3>2 DEF StageSnapshot, Key
  <2>6. UNCHANGED <<pointers, assets>>
    BY <1>3 DEF StageSnapshot
  <2> QED BY <1>c, <2>5, <2>6 DEF Spares
<1>5. CASE Prune(t)
  <2>1. /\ pointers[tabs[t].doc] = [active |-> Generation(t), previous |-> Active(tabs[t].seen)]
        /\ \A k \in tabs[t].doomed : \E g \in Generations \ Kept(t) : k = <<tabs[t].doc, g>>
    BY <1>0, <1>5 DEF Prune, Writing, Pruning
  <2>2. tabs[t] \in Tab /\ tabs[t].doc \in Docs
    BY <1>0, <1>5, AtWork DEF Prune, Places, Commits, Tab
  <2>3. d = tabs[t].doc => Named(d) \subseteq Kept(t)
    BY <2>1 DEF Named, Kept
  <2>4. \A g \in Named(d) : <<d, g>> \notin tabs[t].doomed
    BY <2>1, <2>3
  <2> QED BY <1>5, <1>b, <1>c, <2>4 DEF Prune, Spares
<1>7. CASE DropSnapshots(t)
  <2>1. d = tabs[t].doc => Named(d) = {}
    BY <1>0, <1>7 DEF DropSnapshots, Clearing, Named
  <2>2. \A g \in Named(d) : <<d, g>> \notin {tabs[t].doc} \X Generations
    BY <2>1
  <2> QED BY <1>7, <1>b, <1>c, <2>2 DEF DropSnapshots, Spares
<1>8. CASE Sweep(t)
  <2>1. \A g \in Named(d) : <<d, g>> \notin tabs[t].doomed /\ Source[d] \notin tabs[t].doomed
    BY <1>0, <1>8 DEF Sweep, Clearing
  <2> QED BY <1>8, <1>b, <1>c, <2>1 DEF Sweep, Spares
<1>9. CASE Shorten(t)
  <2>1. PICK e \in Docs : /\ pointers[e] # None /\ tabs[t].seen = pointers[e]
                          /\ pointers[e].previous \in Generations
                          /\ tabs[t].doomed = {<<e, pointers[e].previous>>}
    BY <1>0, <1>9 DEF Shorten, Clearing
  <2>2. Victim(t) = e
    <3>1. \E g \in Generations : <<e, g>> \in tabs[t].doomed
      BY <2>1
    <3>2. \A f \in Docs : (\E g \in Generations : <<f, g>> \in tabs[t].doomed) => f = e
      BY <2>1
    <3> QED BY <3>1, <3>2 DEF Victim
  <2>3. pointers' = [pointers EXCEPT ![e] = [pointers[e] EXCEPT !.previous = NoGeneration]]
    BY <1>9, <2>1, <2>2 DEF Shorten
  <2>4. Named(d)' \subseteq Named(d)
    <3>1. CASE d # e
      BY <1>0, <2>3, <3>1 DEF Types, Named
    <3>2. CASE d = e
      <4>1. pointers[e] \in Pointers
        BY <1>0, <2>1 DEF Types
      <4>2. pointers'[e].active = pointers[e].active /\ pointers'[e].previous = 0 /\ pointers'[e] # None
        <5>1. pointers'[e] = [pointers[e] EXCEPT !.previous = NoGeneration]
          BY <1>0, <2>3 DEF Types
        <5>2. pointers'[e] \in Pointer
          BY <4>1, <5>1 DEF Pointers, Pointer, NoGeneration
        <5> QED BY <4>1, <5>1, <5>2, DraftAssumption DEF Pointers, Pointer, NoGeneration
      <4> QED BY <2>1, <3>2, <4>2 DEF Named, NoGeneration
    <3> QED BY <3>1, <3>2
  <2>5. /\ pointers'[d] = None <=> pointers[d] = None
        /\ pointers[d] # None => pointers'[d].active = pointers[d].active
    <3>1. CASE d # e
      BY <1>0, <2>3, <3>1 DEF Types
    <3>2. CASE d = e
      <4>1. pointers[e] \in Pointers
        BY <1>0, <2>1 DEF Types
      <4>2. pointers'[e] = [pointers[e] EXCEPT !.previous = NoGeneration]
        BY <1>0, <2>3 DEF Types
      <4>3. pointers'[e] \in Pointer
        BY <4>1, <4>2 DEF Pointers, Pointer, NoGeneration
      <4>4. pointers'[e] # None
        BY <4>3, DraftAssumption
      <4>5. pointers'[e].active = pointers[e].active
        BY <4>1, <4>2 DEF Pointers, Pointer
      <4> QED BY <2>1, <3>2, <4>4, <4>5
    <3> QED BY <3>1, <3>2
  <2> QED BY <1>9, <2>4, <2>5 DEF Shorten, Spares
<1>10. CASE Discard(t)
  <2>1. \A g \in Named(d) : <<d, g>> \notin tabs[t].doomed
    BY <1>0, <1>10 DEF Discard, Clearing
  <2> QED BY <1>10, <1>b, <1>c, <2>1 DEF Discard, Spares
<1>11. CASE Commit(t)
  BY <1>1, <1>2, <1>3, <1>5, <1>11
     DEF Commit, StartCommit, AlreadyDurable, ReadPointer, LookForAssets, Verify, ListForPrune
<1>12. CASE Clean(t)
  BY <1>1, <1>7, <1>8, <1>9, <1>10, <1>12 DEF Clean, DeleteOffered, Mark, ListForSweep, Visit
<1>13. CASE ~Commit(t) /\ ~Clean(t)
  BY <1>1, <1>13 DEF Step, OpenDocument, RestoreOffered, Edit, Dies, Hears, TransactionFails
<1> QED BY <1>11, <1>12, <1>13

LEMMA WholeStep ==
    ASSUME StoreInv, NEW t \in Tabs, Step(t)
    PROVE  DraftsIntact'
<1>0. Types /\ DraftsIntact /\ Writing(t) /\ Clearing(t)
  BY DEF StoreInv
<1> SUFFICES ASSUME NEW d \in Docs
             PROVE  Named(d)' \subseteq Held(d)' /\ (Named(d)' # {} => Source[d] \in assets')
  BY DEF DraftsIntact
<1>a. Named(d) \subseteq Generations /\ Named(d) \subseteq Held(d) /\ (Named(d) # {} => Source[d] \in assets)
  BY <1>0, Naming DEF DraftsIntact
<1>b. ASSUME Named(d)' \subseteq Named(d),
             \A g \in Named(d)' : snapshots'[<<d, g>>] = snapshots[<<d, g>>],
             Named(d)' # {} /\ Source[d] \in assets => Source[d] \in assets'
      PROVE  Named(d)' \subseteq Held(d)' /\ (Named(d)' # {} => Source[d] \in assets')
  BY <1>a, <1>b DEF Held
<1>4. CASE Promote(t)
  <2>1. tabs[t] \in Tab /\ tabs[t].doc \in Docs
    BY <1>0, <1>4, AtWork DEF Promote, Places, Commits, Tab
  <2>2. /\ tabs[t].seen = pointers[tabs[t].doc] /\ snapshots[Key(t)] = Work(t)
        /\ Source[tabs[t].doc] \in assets
    BY <1>0, <1>4 DEF Promote, Writing, Holding
  <2>3. UNCHANGED <<snapshots, assets>>
    BY <1>4 DEF Promote
  <2>4. CASE d # tabs[t].doc
    <3>1. pointers'[d] = pointers[d]
      BY <1>0, <1>4, <2>4 DEF Promote, Types
    <3>2. Named(d)' = Named(d)
      BY <3>1 DEF Named
    <3> QED BY <1>b, <2>3, <3>2
  <2>5. CASE d = tabs[t].doc
    <3>1. pointers'[d] = [active |-> Generation(t), previous |-> Active(pointers[d])]
      BY <1>0, <1>4, <2>2, <2>5 DEF Promote, Types
    <3>2. Active(pointers[d]) # 0 => Active(pointers[d]) \in Held(d)
      BY <1>0, <1>a, Naming DEF Active, NoGeneration
    <3>3. \A g \in Named(d)' : g = Generation(t) \/ (g = Active(pointers[d]) /\ g # 0)
      BY <3>1 DEF Named, NoGeneration
    <3>4. Generation(t) \in Generations
      <4>1. Active(tabs[t].seen) < MaxGeneration
        BY <1>0, <1>4, <2>1, AtWork DEF Types, Counted, Promote, Promoting
      <4> QED BY <2>1, <4>1, SeenActive, DraftAssumption DEF Generation, Generations
    <3>5. Work(t) # None
      <4>1. Open(t) /\ tabs[t].writing \in Nat
        BY <1>0, <2>1, AtWork, DraftAssumption DEF Tab
      <4> QED BY <4>1, DraftAssumption DEF Work, Draft
    <3>6. Held(d)' = Held(d) /\ (Generation(t) \in Generations => Generation(t) \in Held(d))
      BY <2>2, <2>3, <2>5, <3>5 DEF Held, Key
    <3> QED BY <2>2, <2>3, <2>5, <3>2, <3>3, <3>4, <3>6
  <2> QED BY <2>4, <2>5
<1>6. CASE Unlist(t)
  <2>1. d # tabs[t].doc => Named(d)' = Named(d)
    BY <1>0, <1>6 DEF Unlist, Named, Types
  <2>2. d = tabs[t].doc => Named(d)' = {}
    BY <1>0, <1>6 DEF Unlist, Named, Types
  <2> QED BY <1>6, <1>b, <2>1, <2>2 DEF Unlist
<1>7. CASE ~Promote(t) /\ ~Unlist(t)
  BY <1>7, <1>b, SparesStep DEF Spares
<1> QED BY <1>4, <1>6, <1>7

--------------------------------------------------------------------------------
(* Drafts are whole, and commits replace what they compared with.             *)

LEMMA NextIsStep == ASSUME Next PROVE \E t \in Tabs : Step(t)
BY DEF Next, Step

LEMMA StoreStep ==
    ASSUME Guarded, StoreInv, [Next]_vars
    PROVE  StoreInv'
<1>1. CASE UNCHANGED vars
  <2>0. UNCHANGED <<pointers, snapshots, assets, tabs, news, clock, faults>>
    BY <1>1 DEF vars
  <2>1. (Types /\ Silent)' <=> (Types /\ Silent)
    BY <2>0 DEF Types, Silent, Open, Counted
  <2>2. (Alone /\ OneWriter)' <=> (Alone /\ OneWriter)
    BY <2>0 DEF Alone, OneWriter, Open, Sweeping, Idle
  <2>3. \A t \in Tabs : (Writing(t) /\ Clearing(t))'
    BY <2>0, QuietStands DEF StoreInv
  <2>4. DraftsIntact' <=> DraftsIntact
    BY <2>0 DEF DraftsIntact, Named, Held
  <2> QED BY <2>1, <2>2, <2>3, <2>4 DEF StoreInv
<1>2. ASSUME NEW t \in Tabs, Step(t) PROVE StoreInv'
  <2>1. Types' /\ Moving(t) /\ Silent' /\ Alone' /\ OneWriter'
    BY <1>2, StepTypes, TurnsStep DEF StoreInv
  <2>2. Effect(t) /\ \A u \in Others(t) : tabs'[u] = tabs[u]
    BY <1>2, <2>1, StepEffect DEF StoreInv, Moving
  <2>3. \A u \in Others(t) : Writing(u)' /\ Clearing(u)'
    BY <2>2, OthersStand
  <2>4. Writing(t)' /\ Clearing(t)'
    <3>0. Types /\ Writing(t) /\ Clearing(t) /\ tabs \in [Tabs -> Tab \cup {Unopened, Gone}]
      BY DEF StoreInv, Types
    <3>1. CASE Commit(t) \/ Clean(t)
      BY <2>1, <3>1, CommitStands, CleanStands
    <3>2. ASSUME NEW d \in Docs, OpenDocument(t, d) PROVE Writing(t)' /\ Clearing(t)'
      <4>1. tabs'[t].at = "idle"
        BY <3>0, <3>2 DEF OpenDocument
      <4> QED BY <4>1, RestStands
    <3>3. CASE RestoreOffered(t) \/ Edit(t)
      <4>1. tabs[t] \in Tab
        BY <3>0, <3>3, AtWork DEF RestoreOffered, Edit
      <4>2. /\ tabs'[t].at = tabs[t].at /\ tabs'[t].doc = tabs[t].doc /\ tabs'[t].seen = tabs[t].seen
            /\ tabs'[t].writing = tabs[t].writing /\ tabs'[t].doomed = tabs[t].doomed
            /\ UNCHANGED <<pointers, snapshots, assets>>
        BY <3>0, <3>3, <4>1 DEF RestoreOffered, Edit, Tab
      <4> QED BY <3>0, <4>2, QuietStands
    <3>4. CASE Dies(t)
      <4>1. tabs'[t].at = "gone"
        BY <3>0, <3>4 DEF Dies, Gone
      <4> QED BY <4>1, RestStands
    <3>5. ASSUME NEW m \in news[t], Hears(t, m) PROVE Writing(t)' /\ Clearing(t)'
      <4>1. tabs[t] \in Tab
        BY <3>0, <3>5, AtWork DEF StoreInv, Silent
      <4>2. /\ tabs'[t].at = tabs[t].at /\ tabs'[t].doc = tabs[t].doc /\ tabs'[t].seen = tabs[t].seen
            /\ tabs'[t].writing = tabs[t].writing /\ tabs'[t].doomed = tabs[t].doomed
            /\ UNCHANGED <<pointers, snapshots, assets>>
        BY <3>0, <3>5, <4>1 DEF Hears, Tab
      <4> QED BY <3>0, <4>2, QuietStands
    <3>6. ASSUME NEW full \in BOOLEAN, TransactionFails(t, full) PROVE Writing(t)' /\ Clearing(t)'
      <4>1. tabs[t] \in Tab
        BY <3>0, <3>6, AtWork DEF TransactionFails
      <4>2. Rests(t) => tabs'[t].at = "idle"
        <5>1. Over(tabs[t]).at = "idle"
          BY <4>1 DEF Over, Tab
        <5> QED BY <3>0, <5>1 DEF Rests
      <4>3. tabs' = [tabs EXCEPT ![t].at = "mark", ![t].visits = Docs \ {tabs[t].doc}]
            => tabs'[t].at = "mark"
        BY <3>0, <4>1 DEF Tab
      <4> QED BY <3>6, <4>2, <4>3, RestStands DEF TransactionFails
    <3> QED BY <1>2, <3>1, <3>2, <3>3, <3>4, <3>5, <3>6 DEF Step
  <2>5. DraftsIntact'
    BY <1>2, WholeStep
  <2> QED BY <2>1, <2>3, <2>4, <2>5 DEF StoreInv, Others
<1> QED BY <1>1, <1>2, NextIsStep

LEMMA StoreInit == Init => StoreInv
<1> SUFFICES ASSUME Init PROVE StoreInv
  OBVIOUS
<1>1. \A t \in Tabs : tabs[t] = Unopened /\ ~Open(t) /\ tabs[t].at = "new"
  BY DEF Init, Open, Unopened
<1>2. Types
  BY <1>1, DraftAssumption DEF Init, Types
<1>3. Silent
  BY DEF Init, Silent
<1>4. Alone /\ OneWriter
  BY <1>1 DEF Alone, OneWriter, Sweeping, Sweeps
<1>5. \A t \in Tabs : Writing(t) /\ Clearing(t)
  BY <1>1 DEF Writing, Clearing, Holding, Pruning
<1>6. DraftsIntact
  BY DEF Init, DraftsIntact, Named
<1> QED BY <1>2, <1>3, <1>4, <1>5, <1>6 DEF StoreInv

LEMMA StoreIsKept == ASSUME Guarded PROVE Spec => []StoreInv
BY StoreInit, StoreStep, PTL DEF Spec

\* Every variable keeps its type, pointers are ordered, and one tab commits a document at a time.
THEOREM Typing == ASSUME Guarded PROVE Spec => []TypeOK
<1>1. StoreInv => TypeOK
  <2> SUFFICES ASSUME StoreInv PROVE TypeOK
    OBVIOUS
  <2>0. Types /\ OneWriter
    BY DEF StoreInv
  <2>1. ASSUME NEW d \in Docs, pointers[d] # None
        PROVE  pointers[d].active \in Generations /\ pointers[d].previous \in 0..(pointers[d].active - 1)
    BY <2>0, <2>1, Naming DEF Generations
  <2>2. \A k \in DOMAIN snapshots : snapshots[k] = None \/ snapshots[k] \in [by: Tabs, revision: 1..MaxRevision]
    BY <2>0 DEF Types, Drafts
  <2>3. assets \subseteq Assets /\ faults \in 0..MaxFaults
    BY <2>0 DEF Types
  <2>4. ASSUME NEW t \in Tabs, Open(t)
        PROVE  /\ tabs[t].revision \in 0..MaxRevision /\ tabs[t].durable \in 0..tabs[t].revision
               /\ tabs[t].writing \in 0..tabs[t].revision /\ tabs[t].own \in 0..MaxGeneration
               /\ Locks /\ tabs[t].writing # 0 => \A u \in Others(t) :
                    tabs[u].doc = tabs[t].doc => tabs[u].writing = 0
    <3>1. tabs[t] \in Tab /\ Counted(tabs[t])
      BY <2>0, <2>4, AtWork DEF Types
    <3>2. /\ tabs[t].revision \in 0..MaxRevision /\ tabs[t].durable \in 0..MaxRevision
          /\ tabs[t].writing \in 0..MaxRevision /\ tabs[t].own \in 0..MaxGeneration
      BY <3>1 DEF Tab
    <3>3. tabs[t].durable <= tabs[t].revision /\ tabs[t].writing <= tabs[t].revision
      BY <3>1 DEF Counted
    <3>4. tabs[t].writing # 0 => \A u \in Others(t) : tabs[u].doc = tabs[t].doc => tabs[u].writing = 0
      BY <2>0, <2>4 DEF OneWriter, Others
    <3> QED BY <3>2, <3>3, <3>4, DraftAssumption
  <2> QED BY <2>1, <2>2, <2>3, <2>4 DEF TypeOK
<1> QED BY <1>1, StoreIsKept, PTL

\* A draft that can be found is whole, for any number of documents, tabs and failures: a commit
\* moves the pointer last, and a sweep keeps what every pointer names (draftRepository.ts).
THEOREM DraftsStayIntact == ASSUME Guarded PROVE Spec => []DraftsIntact
<1>1. StoreInv => DraftsIntact
  BY DEF StoreInv
<1> QED BY <1>1, StoreIsKept, PTL

\* Nothing is promoted between a commit's comparison and its swap, while the lock is held.
THEOREM CommitsSwap == ASSUME Guarded PROVE Spec => SwapsWhatItCompared
<1>1. ASSUME StoreInv, NEW t \in Tabs, Promote(t)
      PROVE  Active(pointers[tabs[t].doc]) = Active(tabs[t].seen)
  BY <1>1 DEF StoreInv, Promote, Writing, Holding
<1>2. StoreInv /\ [Next]_vars
      => [\A t \in Tabs : Promote(t) => Active(pointers[tabs[t].doc]) = Active(tabs[t].seen)]_vars
  BY <1>1
<1> QED BY <1>2, StoreIsKept, PTL DEF Spec, SwapsWhatItCompared

\* Work a writing tab is told is durable is what a reopened document finds (ListForPrune, Prune).
THEOREM DurableWorkIsFound == ASSUME Guarded PROVE Spec => DurableIsFound
<1>1. ASSUME StoreInv, StoreInv', [Next]_vars, NEW t \in Tabs, Open(t), tabs[t].writing # 0, Open(t)',
             tabs'[t].durable # tabs[t].durable
      PROVE  LoadBest(tabs[t].doc)' = [by |-> t, revision |-> tabs'[t].durable]
  <2>0. Types /\ Writing(t) /\ DraftsIntact /\ Types' /\ DraftsIntact'
    BY <1>1 DEF StoreInv
  <2>1. PICK u \in Tabs : Step(u)
    BY <1>1, NextIsStep DEF vars
  <2>2. u = t
    BY <1>1, <2>0, <2>1, StepTypes DEF StoreInv, Moving, Others
  <2>3. tabs[t] \in Tab /\ tabs[t].doc \in Docs /\ Counted(tabs[t])
    BY <1>1, <2>0, AtWork DEF Types, Tab
  <2>a. tabs \in [Tabs -> Tab \cup {Unopened, Gone}]
    BY <2>0 DEF Types
  <2>4. ~Idle(t)
    BY <1>1, <2>3 DEF Counted, Idle
  <2>5. /\ tabs[t].at \in Pruning /\ Succeeds(t, Generation(t), Credit(t)) /\ UNCHANGED pointers
        /\ ListForPrune(t) \/ Prune(t)
    <3>1. ASSUME NEW at, Goes(t, at) PROVE FALSE
      BY <1>1, <2>3, <2>a, <3>1 DEF Goes, Tab
    <3>2. ASSUME Rests(t) PROVE FALSE
      <4>1. Over(tabs[t]).durable = tabs[t].durable
        BY <2>3 DEF Over, Tab
      <4> QED BY <1>1, <2>a, <3>2, <4>1 DEF Rests
    <3>3. ASSUME NEW at, NEW doomed, tabs' = [tabs EXCEPT ![t].at = at, ![t].doomed = doomed]
          PROVE  FALSE
      BY <1>1, <2>3, <2>a, <3>3 DEF Tab
    <3>4. ASSUME NEW at, NEW seen, tabs' = [tabs EXCEPT ![t].at = at, ![t].seen = seen] PROVE FALSE
      BY <1>1, <2>3, <2>a, <3>4 DEF Tab
    <3>5. CASE Commit(t)
      BY <2>4, <3>1, <3>2, <3>3, <3>4, <3>5
         DEF Commit, StartCommit, AlreadyDurable, Unsaved, ReadPointer, LookForAssets, WriteAssets,
             StageSnapshot, Verify, Promote, ListForPrune, Prune, Pruning
    <3>6. CASE Visit(t)
      <4>1. ASSUME tabs' = [tabs EXCEPT ![t].at = "mark", ![t].retried = TRUE] PROVE FALSE
        BY <1>1, <2>3, <2>a, <4>1 DEF Tab
      <4>2. ASSUME NEW visits, tabs' = [tabs EXCEPT ![t].visits = visits] PROVE FALSE
        BY <1>1, <2>3, <2>a, <4>2 DEF Tab
      <4>3. ASSUME NEW seen, NEW visits, NEW doomed,
                   tabs' = [tabs EXCEPT ![t].at = "shorten", ![t].seen = seen, ![t].visits = visits,
                              ![t].doomed = doomed]
            PROVE  FALSE
        BY <1>1, <2>3, <2>a, <4>3 DEF Tab
      <4>4. ASSUME NEW d \in tabs[t].visits,
                   tabs' = IF pointers[d] = None \/ pointers[d].previous = NoGeneration
                           THEN [tabs EXCEPT ![t].visits = @ \ {d}]
                           ELSE [tabs EXCEPT ![t].at = "shorten", ![t].seen = pointers[d],
                                   ![t].visits = @ \ {d}, ![t].doomed = {<<d, pointers[d].previous>>}]
            PROVE  FALSE
        BY <4>2, <4>3, <4>4
      <4> QED BY <3>6, <4>1, <4>4 DEF Visit
    <3>7. CASE Sweep(t)
      BY <1>1, <2>3, <2>a, <3>7 DEF Sweep, Tab
    <3>8. CASE Clean(t)
      BY <2>4, <3>1, <3>3, <3>6, <3>7, <3>8
         DEF Clean, DeleteOffered, Unlist, DropSnapshots, Mark, ListForSweep, Shorten, Discard
    <3>9. CASE Edit(t) \/ Dies(t)
      BY <1>1, <2>3, <2>a, <3>9 DEF Edit, Dies, Tab, Open, Gone
    <3>10. ASSUME NEW m \in news[t], Hears(t, m) PROVE FALSE
      BY <1>1, <2>3, <2>a, <3>10 DEF Hears, Tab
    <3>11. ASSUME NEW full \in BOOLEAN, TransactionFails(t, full) PROVE FALSE
      <4>1. ASSUME NEW at, NEW visits, tabs' = [tabs EXCEPT ![t].at = at, ![t].visits = visits]
            PROVE  FALSE
        BY <1>1, <2>3, <2>a, <4>1 DEF Tab
      <4> QED BY <3>2, <3>11, <4>1 DEF TransactionFails
    <3>12. ~ RestoreOffered(t) /\ ~ \E d \in Docs : OpenDocument(t, d)
      BY <1>1, <2>4 DEF RestoreOffered, OpenDocument, Open, Unopened
    <3> QED BY <2>1, <2>2, <3>5, <3>8, <3>9, <3>10, <3>11, <3>12 DEF Step
  <2>6. tabs'[t].durable = tabs[t].writing
    <3>1. [Over(tabs[t]) EXCEPT !.own = Generation(t), !.durable = Credit(t)].durable = Credit(t)
      BY <2>3 DEF Over, Tab
    <3> QED BY <2>5, <2>a, <3>1 DEF Succeeds, Credit
  <2>7. /\ pointers[tabs[t].doc] = [active |-> Generation(t), previous |-> Active(tabs[t].seen)]
        /\ snapshots[Key(t)] = Work(t)
    BY <2>0, <2>5 DEF Writing, Pruning
  <2>8. Generation(t) \in Generations /\ pointers[tabs[t].doc] # None
    <3>1. Active(tabs[t].seen) < MaxGeneration
      BY <2>3, <2>5 DEF Counted, Promoting, Pruning
    <3>2. Generation(t) \in Generations /\ Active(tabs[t].seen) \in Nat
      BY <2>3, <3>1, SeenActive, DraftAssumption DEF Generation, Generations
    <3> QED BY <2>7, <3>2, DraftAssumption DEF Pointer, Generations
  <2>9. snapshots'[Key(t)] = Work(t)
    <3>1. CASE ListForPrune(t)
      BY <2>7, <3>1 DEF ListForPrune
    <3>2. CASE Prune(t)
      <4>1. Key(t) \notin tabs[t].doomed
        BY <2>0, <3>2 DEF Prune, Writing, Kept, Key
      <4> QED BY <2>0, <2>3, <2>7, <2>8, <3>2, <4>1 DEF Prune, Without, Types, Key
    <3> QED BY <2>5, <3>1, <3>2
  <2>10. PICK d \in Docs : d = tabs[t].doc
    BY <2>3
  <2>11. tabs'[t].doc = d
    <3>1. ~Dies(t)
      BY <1>1, <2>a DEF Dies, Open, Gone
    <3> QED BY <1>1, <2>0, <2>1, <2>2, <2>10, <3>1, DocStays
  <2>12. /\ pointers'[d] # None /\ pointers'[d].active = Generation(t)
         /\ snapshots'[<<d, Generation(t)>>] = Work(t)
    BY <2>5, <2>7, <2>8, <2>9, <2>10 DEF Key
  <2>13. Generation(t) \in Named(d)' \cap Held(d)'
    <3>1. Generation(t) \in Named(d)'
      BY <2>8, <2>12 DEF Named, NoGeneration, Generations
    <3> QED BY <2>0, <3>1 DEF DraftsIntact
  <2>14. LoadBest(d)' = Work(t)
    BY <2>12, <2>13 DEF LoadBest
  <2> QED BY <2>6, <2>11, <2>14 DEF LoadBest, Work, Named, Held
<1>2. StoreInv /\ StoreInv' /\ [Next]_vars
      => [\A t \in Tabs : Open(t) /\ tabs[t].writing # 0 /\ Open(t)' /\ tabs'[t].durable # tabs[t].durable =>
            LoadBest(tabs[t].doc)' = [by |-> t, revision |-> tabs'[t].durable]]_vars
  BY <1>1
<1> QED BY <1>2, StoreIsKept, PTL DEF Spec, DurableIsFound

--------------------------------------------------------------------------------
(* The store implements DraftShelf.                                           *)

\* A tab's stored work is no later than what it shows, or is writing; a tab that was never opened
\* has none.
Authored ==
    \A k \in Docs \X Generations : snapshots[k] # None =>
        LET author == tabs[snapshots[k].by]
        IN  /\ author # Unopened
            /\ author.doc # None =>
                 /\ snapshots[k].revision <= author.revision
                 /\ author.writing # 0 => snapshots[k].revision <= author.writing

\* What a step may do to the counts of the tab that takes it.
Counting(t) ==
    /\ tabs'[t] # Unopened
    /\ Open(t)' /\ tabs[t] # Unopened =>
         /\ Open(t) /\ tabs'[t].revision >= tabs[t].revision
         /\ \/ tabs'[t].writing \in {0, tabs[t].writing}
            \/ (tabs[t].writing = 0 /\ tabs'[t].writing = tabs[t].revision)

LEMMA StepCounts ==
    ASSUME Types, Silent, NEW t \in Tabs, Step(t)
    PROVE  Counting(t)
<1>0. tabs \in [Tabs -> Tab \cup {Unopened, Gone}] /\ tabs' \in [Tabs -> Tab \cup {Unopened, Gone}]
  BY StepTypes DEF Types
<1>a. tabs[t] \in Tab => tabs[t].revision \in Nat /\ tabs[t].writing \in Nat
  BY DraftAssumption DEF Tab
<1>b. Open(t) <=> tabs[t] \in Tab
  BY AtWork
<1>1. ASSUME tabs[t] \in Tab, tabs'[t].doc = tabs[t].doc, tabs'[t].revision = tabs[t].revision,
             tabs'[t].writing \in {0, tabs[t].writing}
      PROVE  Counting(t)
  BY <1>1, <1>a, <1>b DEF Counting, Open, Unopened
<1>2. ASSUME NEW at, Goes(t, at), tabs[t] \in Tab PROVE Counting(t)
  BY <1>1, <1>2, GoesFields
<1>3. ASSUME Rests(t), tabs[t] \in Tab PROVE Counting(t)
  <2>1. /\ Over(tabs[t]).doc = tabs[t].doc /\ Over(tabs[t]).revision = tabs[t].revision
        /\ Over(tabs[t]).writing = 0
    BY <1>3 DEF Over, Tab
  <2> QED BY <1>0, <1>1, <1>3, <2>1 DEF Rests
<1>4. ASSUME NEW generation, NEW revision, Succeeds(t, generation, revision), tabs[t] \in Tab
      PROVE  Counting(t)
  <2> DEFINE tab == [Over(tabs[t]) EXCEPT !.own = generation, !.durable = revision]
  <2>1. tab.doc = tabs[t].doc /\ tab.revision = tabs[t].revision /\ tab.writing = 0
    BY <1>4 DEF Over, Tab
  <2>2. tabs'[t] = tab
    BY <1>0, <1>4 DEF Succeeds
  <2> HIDE DEF tab
  <2> QED BY <1>1, <1>4, <2>1, <2>2
<1>5. ASSUME NEW at, NEW doomed, tabs' = [tabs EXCEPT ![t].at = at, ![t].doomed = doomed],
             tabs[t] \in Tab
      PROVE  Counting(t)
  <2>1. /\ tabs'[t].doc = tabs[t].doc /\ tabs'[t].revision = tabs[t].revision
        /\ tabs'[t].writing = tabs[t].writing
    BY <1>0, <1>5 DEF Tab
  <2> QED BY <1>1, <1>5, <2>1
<1>6. ASSUME NEW at, NEW seen, tabs' = [tabs EXCEPT ![t].at = at, ![t].seen = seen], tabs[t] \in Tab
      PROVE  Counting(t)
  <2>1. /\ tabs'[t].doc = tabs[t].doc /\ tabs'[t].revision = tabs[t].revision
        /\ tabs'[t].writing = tabs[t].writing
    BY <1>0, <1>6 DEF Tab
  <2> QED BY <1>1, <1>6, <2>1
<1>7. CASE Commit(t)
  <2>0. tabs[t] \in Tab /\ Open(t)
    BY <1>7, AtWork
       DEF Commit, StartCommit, AlreadyDurable, Unsaved, ReadPointer, LookForAssets, WriteAssets,
           StageSnapshot, Verify, Promote, ListForPrune, Prune, Places, Commits
  <2>1. CASE StartCommit(t)
    <3>1. /\ tabs'[t].doc = tabs[t].doc /\ tabs'[t].revision = tabs[t].revision
          /\ tabs'[t].writing = tabs[t].revision
      BY <1>0, <2>0, <2>1 DEF StartCommit, Tab
    <3>2. tabs[t].writing = 0
      BY <2>0, <2>1 DEF Types, Counted, StartCommit, Unsaved, Idle
    <3> QED BY <1>a, <2>0, <3>1, <3>2 DEF Counting, Open, Unopened
  <2> QED BY <1>2, <1>3, <1>4, <1>5, <1>6, <1>7, <2>0, <2>1
          DEF Commit, AlreadyDurable, ReadPointer, LookForAssets, WriteAssets, StageSnapshot, Verify,
              Promote, ListForPrune, Prune
<1>8. CASE Clean(t)
  <2>0. tabs[t] \in Tab /\ Open(t)
    BY <1>8, AtWork
       DEF Clean, DeleteOffered, Unlist, DropSnapshots, Mark, ListForSweep, Sweep, Visit, Shorten,
           Discard, Places, Sweeps
  <2>1. CASE DeleteOffered(t)
    <3>1. /\ tabs'[t].doc = tabs[t].doc /\ tabs'[t].revision = tabs[t].revision
          /\ tabs'[t].writing = tabs[t].writing
      BY <1>0, <2>0, <2>1 DEF DeleteOffered, Tab
    <3> QED BY <1>1, <2>0, <3>1
  <2>2. CASE Sweep(t)
    <3>1. /\ tabs'[t].doc = tabs[t].doc /\ tabs'[t].revision = tabs[t].revision
          /\ tabs'[t].writing = tabs[t].writing
      BY <1>0, <2>0, <2>2 DEF Sweep, Tab
    <3> QED BY <1>1, <2>0, <3>1
  <2>3. CASE Visit(t)
    <3>1. CASE tabs[t].visits = {}
      <4>1. /\ tabs'[t].doc = tabs[t].doc /\ tabs'[t].revision = tabs[t].revision
            /\ tabs'[t].writing = tabs[t].writing
        BY <1>0, <2>0, <2>3, <3>1 DEF Visit, Tab
      <4> QED BY <1>1, <2>0, <4>1
    <3>2. ASSUME NEW visits, tabs' = [tabs EXCEPT ![t].visits = visits] PROVE Counting(t)
      <4>1. /\ tabs'[t].doc = tabs[t].doc /\ tabs'[t].revision = tabs[t].revision
            /\ tabs'[t].writing = tabs[t].writing
        BY <1>0, <2>0, <3>2 DEF Tab
      <4> QED BY <1>1, <2>0, <4>1
    <3>3. ASSUME NEW seen, NEW visits, NEW doomed,
                 tabs' = [tabs EXCEPT ![t].at = "shorten", ![t].seen = seen, ![t].visits = visits,
                            ![t].doomed = doomed]
          PROVE  Counting(t)
      <4>1. /\ tabs'[t].doc = tabs[t].doc /\ tabs'[t].revision = tabs[t].revision
            /\ tabs'[t].writing = tabs[t].writing
        BY <1>0, <2>0, <3>3 DEF Tab
      <4> QED BY <1>1, <2>0, <4>1
    <3>4. ASSUME NEW d \in tabs[t].visits,
                 tabs' = IF pointers[d] = None \/ pointers[d].previous = NoGeneration
                         THEN [tabs EXCEPT ![t].visits = @ \ {d}]
                         ELSE [tabs EXCEPT ![t].at = "shorten", ![t].seen = pointers[d],
                                 ![t].visits = @ \ {d}, ![t].doomed = {<<d, pointers[d].previous>>}]
          PROVE  Counting(t)
      BY <3>2, <3>3, <3>4
    <3> QED BY <2>3, <3>1, <3>4 DEF Visit
  <2> QED BY <1>2, <1>5, <1>8, <2>0, <2>1, <2>2, <2>3
          DEF Clean, Unlist, DropSnapshots, Mark, ListForSweep, Shorten, Discard
<1>9. ASSUME NEW d \in Docs, OpenDocument(t, d) PROVE Counting(t)
  <2>1. tabs'[t].doc = d
    BY <1>0, <1>9 DEF OpenDocument
  <2> QED BY <1>9, <2>1, DraftAssumption DEF Counting, OpenDocument, Unopened
<1>10. CASE RestoreOffered(t)
  <2>0. tabs[t] \in Tab
    BY <1>10, <1>b DEF RestoreOffered
  <2>1. tabs[t].offered.revision \in Nat /\ tabs[t].revision = 0
    BY <1>10, <2>0, DraftAssumption DEF RestoreOffered, Tab, Drafts
  <2>2. /\ tabs'[t].doc = tabs[t].doc /\ tabs'[t].revision = tabs[t].offered.revision
        /\ tabs'[t].writing = tabs[t].writing
    BY <1>0, <1>10, <2>0 DEF RestoreOffered, Tab
  <2>3. Open(t)
    BY <1>10 DEF RestoreOffered
  <2> QED BY <2>1, <2>2, <2>3 DEF Counting, Open, Unopened
<1>11. CASE Edit(t)
  <2>0. tabs[t] \in Tab /\ Open(t)
    BY <1>11, <1>b DEF Edit
  <2>1. /\ tabs'[t].doc = tabs[t].doc /\ tabs'[t].revision = tabs[t].revision + 1
        /\ tabs'[t].writing = tabs[t].writing
    BY <1>0, <1>11, <2>0 DEF Edit, Tab
  <2> QED BY <1>a, <2>0, <2>1 DEF Counting, Open, Unopened
<1>12. CASE Dies(t)
  <2>1. tabs'[t] = Gone
    BY <1>0, <1>12 DEF Dies
  <2>2. Gone.at = "gone" /\ Unopened.at = "new" /\ Gone.doc = None
    BY DEF Gone, Unopened
  <2> QED BY <2>1, <2>2 DEF Counting, Open
<1>13. ASSUME NEW m \in news[t], Hears(t, m) PROVE Counting(t)
  <2>0. tabs[t] \in Tab
    BY <1>13, <1>b DEF Silent
  <2>1. /\ tabs'[t].doc = tabs[t].doc /\ tabs'[t].revision = tabs[t].revision
        /\ tabs'[t].writing = tabs[t].writing
    BY <1>0, <1>13, <2>0 DEF Hears, Tab
  <2> QED BY <1>1, <2>0, <2>1
<1>14. ASSUME NEW full \in BOOLEAN, TransactionFails(t, full) PROVE Counting(t)
  <2>0. tabs[t] \in Tab
    BY <1>14, <1>b DEF TransactionFails
  <2>1. ASSUME tabs' = [tabs EXCEPT ![t].at = "mark", ![t].visits = Docs \ {tabs[t].doc}]
        PROVE  Counting(t)
    <3>1. /\ tabs'[t].doc = tabs[t].doc /\ tabs'[t].revision = tabs[t].revision
          /\ tabs'[t].writing = tabs[t].writing
      BY <1>0, <2>0, <2>1 DEF Tab
    <3> QED BY <1>1, <2>0, <3>1
  <2> QED BY <1>3, <1>14, <2>0, <2>1 DEF TransactionFails
<1> QED BY <1>7, <1>8, <1>9, <1>10, <1>11, <1>12, <1>13, <1>14 DEF Step

\* Only staging puts work in the store.
LEMMA StepStores ==
    ASSUME Types, NEW t \in Tabs, Step(t), NEW k \in Docs \X Generations
    PROVE  \/ snapshots'[k] \in {snapshots[k], None}
           \/ (StageSnapshot(t) /\ snapshots'[k] = Work(t))
<1>1. CASE UNCHANGED snapshots
  BY <1>1
<1>2. ASSUME NEW keys, snapshots' = Without(keys) PROVE snapshots'[k] \in {snapshots[k], None}
  BY <1>2 DEF Without, Types
<1>3. CASE StageSnapshot(t)
  BY <1>2, <1>3 DEF StageSnapshot, Types
<1>4. CASE Commit(t)
  BY <1>1, <1>2, <1>3, <1>4
     DEF Commit, StartCommit, AlreadyDurable, ReadPointer, LookForAssets, WriteAssets, Verify, Promote,
         ListForPrune, Prune
<1>5. CASE Clean(t)
  BY <1>1, <1>2, <1>5
     DEF Clean, DeleteOffered, Unlist, DropSnapshots, Mark, ListForSweep, Sweep, Visit, Shorten, Discard
<1>6. CASE ~Commit(t) /\ ~Clean(t)
  BY <1>1, <1>6 DEF Step, OpenDocument, RestoreOffered, Edit, Dies, Hears, TransactionFails
<1> QED BY <1>4, <1>5, <1>6

LEMMA AuthoredStep ==
    ASSUME Types, Silent, Authored, NEW t \in Tabs, Step(t)
    PROVE  Authored'
<1>0. Types' /\ Counting(t) /\ \A u \in Others(t) : tabs'[u] = tabs[u]
  BY StepTypes, StepCounts DEF Moving
<1> SUFFICES ASSUME NEW k \in Docs \X Generations, snapshots'[k] # None
             PROVE  LET author == tabs'[snapshots'[k].by]
                    IN  /\ author # Unopened
                        /\ author.doc # None =>
                             /\ snapshots'[k].revision <= author.revision
                             /\ author.writing # 0 => snapshots'[k].revision <= author.writing
  BY DEF Authored
<1>1. CASE snapshots'[k] = snapshots[k]
  <2>1. /\ snapshots[k] \in Drafts /\ snapshots[k].by \in Tabs
        /\ snapshots[k].revision \in Nat /\ snapshots[k].revision > 0
    BY <1>1, DraftAssumption DEF Types, Drafts
  <2>2. LET author == tabs[snapshots[k].by]
        IN  /\ author # Unopened
            /\ author.doc # None =>
                 /\ snapshots[k].revision <= author.revision
                 /\ author.writing # 0 => snapshots[k].revision <= author.writing
    BY <1>1 DEF Authored
  <2>3. CASE snapshots[k].by # t
    BY <1>0, <1>1, <2>1, <2>2, <2>3 DEF Others
  <2>4. CASE snapshots[k].by = t
    <3>1. tabs[t] # Unopened /\ tabs'[t] # Unopened
      BY <1>0, <2>2, <2>4 DEF Counting
    <3>2. ASSUME tabs'[t].doc # None
          PROVE  /\ snapshots[k].revision <= tabs'[t].revision
                 /\ tabs'[t].writing # 0 => snapshots[k].revision <= tabs'[t].writing
      <4>1. /\ Open(t) /\ tabs'[t].revision >= tabs[t].revision
            /\ \/ tabs'[t].writing \in {0, tabs[t].writing}
               \/ (tabs[t].writing = 0 /\ tabs'[t].writing = tabs[t].revision)
        BY <1>0, <3>1, <3>2 DEF Counting, Open
      <4>2. tabs[t] \in Tab /\ tabs'[t] \in Tab
        BY <1>0, <3>1, <3>2, <4>1, AtWork DEF Types, Gone
      <4>3. /\ tabs[t].revision \in Nat /\ tabs'[t].revision \in Nat
            /\ tabs[t].writing \in Nat /\ tabs'[t].writing \in Nat
        BY <4>2, DraftAssumption DEF Tab
      <4>4. /\ snapshots[k].revision <= tabs[t].revision
            /\ tabs[t].writing # 0 => snapshots[k].revision <= tabs[t].writing
        BY <2>2, <2>4, <4>1 DEF Open
      <4> QED BY <2>1, <4>1, <4>3, <4>4
    <3> QED BY <1>1, <2>4, <3>1, <3>2
  <2> QED BY <2>3, <2>4
<1>2. CASE StageSnapshot(t) /\ snapshots'[k] = Work(t)
  <2>1. tabs[t] \in Tab
    BY <1>2, AtWork DEF StageSnapshot, Places, Commits
  <2>2. /\ tabs'[t].doc = tabs[t].doc /\ tabs'[t].writing = tabs[t].writing
        /\ tabs'[t].revision = tabs[t].revision
    BY <1>2, <2>1, GoesFields DEF StageSnapshot
  <2>3. tabs[t].writing <= tabs[t].revision /\ tabs[t].writing \in Nat
    BY <2>1, AtWork, DraftAssumption DEF Types, Counted, Tab
  <2> QED BY <1>0, <1>2, <2>2, <2>3 DEF Work, Counting
<1> QED BY <1>1, <1>2, StepStores

LEMMA BestIsActive ==
    ASSUME Types, DraftsIntact, NEW d \in Docs
    PROVE  LoadBest(d) = IF pointers[d] = None THEN None ELSE snapshots[<<d, pointers[d].active>>]
BY Naming DEF LoadBest, DraftsIntact

LEMMA BestIsActiveNext ==
    ASSUME Types', DraftsIntact', NEW d \in Docs
    PROVE  LoadBest(d)' = IF pointers'[d] = None THEN None ELSE snapshots'[<<d, pointers'[d].active>>]
<1>1. CASE pointers'[d] # None
  <2>1. pointers'[d] \in Pointers
    BY <1>1 DEF Types
  <2>2. pointers'[d].active \in Named(d)'
    BY <1>1, <2>1 DEF Named, Pointers, Ordered, Generations, NoGeneration
  <2> QED BY <1>1, <2>2 DEF LoadBest, DraftsIntact
<1>2. CASE pointers'[d] = None
  BY <1>2 DEF LoadBest
<1> QED BY <1>1, <1>2

LEMMA BestStays ==
    ASSUME StoreInv, StoreInv', NEW t \in Tabs, Step(t), ~Promote(t), ~Unlist(t)
    PROVE  Shown' = Shown
<1> SUFFICES ASSUME NEW d \in Docs PROVE LoadBest(d)' = LoadBest(d)
  BY DEF Shown
<1>1. Types /\ DraftsIntact /\ Types' /\ DraftsIntact'
  BY DEF StoreInv
<1>2. Spares(d)
  BY SparesStep
<1>3. CASE pointers[d] # None
  <2>1. pointers'[d] # None /\ pointers'[d].active = pointers[d].active
    BY <1>2, <1>3 DEF Spares
  <2>2. pointers'[d] \in Pointers
    BY <1>1, <2>1 DEF Types
  <2>3. pointers'[d].active \in Named(d)'
    BY <2>1, <2>2 DEF Named, Pointers, Ordered, Generations, NoGeneration
  <2> QED BY <1>1, <1>2, <1>3, <2>1, <2>3, BestIsActive, BestIsActiveNext DEF Spares
<1>4. CASE pointers[d] = None
  BY <1>1, <1>2, <1>4, BestIsActive, BestIsActiveNext DEF Spares
<1> QED BY <1>3, <1>4

\* A tab comes to clear a draft, and ceases to, in these steps alone.
Stops(t) == Dies(t) \/ \E full \in BOOLEAN : TransactionFails(t, full)

LEMMA AskingStays ==
    ASSUME StoreInv, NEW t \in Tabs, Step(t), ~DeleteOffered(t), ~Unlist(t),
           ~(tabs[t].at = "unlist" /\ Stops(t))
    PROVE  \A d \in Docs : Asking(d)' = Asking(d)
<1>0. /\ Types /\ Silent /\ tabs \in [Tabs -> Tab \cup {Unopened, Gone}]
      /\ \A u \in Others(t) : tabs'[u] = tabs[u]
  BY StepTypes DEF StoreInv, Types, Moving
<1>a. ASSUME tabs'[t].at # "unlist", tabs[t].at # "unlist"
      PROVE  \A d \in Docs : Asking(d)' = Asking(d)
  BY <1>0, <1>a DEF Asking, Others
<1>b. ASSUME tabs'[t].at = tabs[t].at, tabs'[t].doc = tabs[t].doc
      PROVE  \A d \in Docs : Asking(d)' = Asking(d)
  BY <1>0, <1>b DEF Asking, Others
<1>1. ASSUME NEW at, Goes(t, at), tabs[t] \in Tab, at # "unlist", tabs[t].at # "unlist"
      PROVE  \A d \in Docs : Asking(d)' = Asking(d)
  BY <1>0, <1>1, <1>a, GoesFields
<1>2. ASSUME Rests(t), tabs[t] \in Tab, tabs[t].at # "unlist"
      PROVE  \A d \in Docs : Asking(d)' = Asking(d)
  <2>1. Over(tabs[t]).at = "idle"
    BY <1>2 DEF Over, Tab
  <2> QED BY <1>0, <1>2, <1>a, <2>1 DEF Rests
<1>3. ASSUME NEW generation, NEW revision, Succeeds(t, generation, revision), tabs[t] \in Tab,
             tabs[t].at # "unlist"
      PROVE  \A d \in Docs : Asking(d)' = Asking(d)
  <2>1. [Over(tabs[t]) EXCEPT !.own = generation, !.durable = revision].at = "idle"
    BY <1>3 DEF Over, Tab
  <2> QED BY <1>0, <1>3, <1>a, <2>1 DEF Succeeds
<1>4. ASSUME NEW at, NEW x, at # "unlist", tabs[t] \in Tab, tabs[t].at # "unlist",
             \/ tabs' = [tabs EXCEPT ![t].at = at, ![t].doomed = x]
             \/ tabs' = [tabs EXCEPT ![t].at = at, ![t].seen = x]
             \/ tabs' = [tabs EXCEPT ![t].at = at, ![t].retried = x]
             \/ tabs' = [tabs EXCEPT ![t].at = at, ![t].visits = x]
      PROVE  \A d \in Docs : Asking(d)' = Asking(d)
  <2>1. tabs'[t].at = at
    BY <1>0, <1>4 DEF Tab
  <2> QED BY <1>4, <1>a, <2>1
<1>5. CASE Commit(t)
  <2>0. tabs[t] \in Tab /\ tabs[t].at # "unlist"
    BY <1>0, <1>5, AtWork
       DEF Commit, StartCommit, AlreadyDurable, Unsaved, Idle, ReadPointer, LookForAssets, WriteAssets,
           StageSnapshot, Verify, Promote, ListForPrune, Prune, Places, Commits
  <2>1. CASE StartCommit(t)
    <3>1. tabs'[t].at = "read"
      BY <1>0, <2>0, <2>1 DEF StartCommit, Tab
    <3> QED BY <1>a, <2>0, <3>1
  <2> QED BY <1>1, <1>2, <1>3, <1>4, <1>5, <2>0, <2>1
          DEF Commit, AlreadyDurable, ReadPointer, LookForAssets, WriteAssets, StageSnapshot, Verify,
              Promote, ListForPrune, Prune
<1>6. CASE Clean(t)
  <2>0. tabs[t] \in Tab /\ tabs[t].at # "unlist"
    BY <1>0, <1>6, AtWork
       DEF Clean, DropSnapshots, Mark, ListForSweep, Sweep, Visit, Shorten, Discard, Places, Sweeps
  <2>1. CASE Sweep(t)
    <3>1. tabs'[t].at \in {"idle", "read", "visit"}
      BY <1>0, <2>0, <2>1 DEF Sweep, Tab
    <3> QED BY <1>a, <2>0, <3>1
  <2>2. CASE Visit(t)
    <3>1. ASSUME NEW visits, tabs' = [tabs EXCEPT ![t].visits = visits]
          PROVE  \A d \in Docs : Asking(d)' = Asking(d)
      <4>1. tabs'[t].at = tabs[t].at /\ tabs'[t].doc = tabs[t].doc
        BY <1>0, <2>0, <3>1 DEF Tab
      <4> QED BY <1>b, <4>1
    <3>2. ASSUME NEW seen, NEW visits, NEW doomed,
                 tabs' = [tabs EXCEPT ![t].at = "shorten", ![t].seen = seen, ![t].visits = visits,
                            ![t].doomed = doomed]
          PROVE  \A d \in Docs : Asking(d)' = Asking(d)
      <4>1. tabs'[t].at = "shorten"
        BY <1>0, <2>0, <3>2 DEF Tab
      <4> QED BY <1>a, <2>0, <4>1
    <3>3. ASSUME NEW d \in tabs[t].visits,
                 tabs' = IF pointers[d] = None \/ pointers[d].previous = NoGeneration
                         THEN [tabs EXCEPT ![t].visits = @ \ {d}]
                         ELSE [tabs EXCEPT ![t].at = "shorten", ![t].seen = pointers[d],
                                 ![t].visits = @ \ {d}, ![t].doomed = {<<d, pointers[d].previous>>}]
          PROVE  \A e \in Docs : Asking(e)' = Asking(e)
      BY <3>1, <3>2, <3>3
    <3> QED BY <1>4, <2>0, <2>2, <3>3 DEF Visit
  <2> QED BY <1>1, <1>4, <1>6, <2>0, <2>1, <2>2
          DEF Clean, DropSnapshots, Mark, ListForSweep, Shorten, Discard
<1>7. ASSUME NEW d \in Docs, OpenDocument(t, d) PROVE \A e \in Docs : Asking(e)' = Asking(e)
  <2>1. tabs'[t].at = "idle" /\ tabs[t].at = "new"
    BY <1>0, <1>7 DEF OpenDocument, Unopened
  <2> QED BY <1>a, <2>1
<1>8. CASE RestoreOffered(t) \/ Edit(t)
  <2>0. tabs[t] \in Tab
    BY <1>0, <1>8, AtWork DEF RestoreOffered, Edit
  <2>1. tabs'[t].at = tabs[t].at /\ tabs'[t].doc = tabs[t].doc
    BY <1>0, <1>8, <2>0 DEF RestoreOffered, Edit, Tab
  <2> QED BY <1>b, <2>1
<1>9. CASE Stops(t)
  <2>0. tabs[t] \in Tab /\ tabs[t].at # "unlist"
    BY <1>0, <1>9, AtWork DEF Stops, Dies, TransactionFails
  <2>1. CASE Dies(t)
    <3>1. tabs'[t].at = "gone"
      BY <1>0, <2>1 DEF Dies, Gone
    <3> QED BY <1>a, <2>0, <3>1
  <2> QED BY <1>2, <1>4, <1>9, <2>0, <2>1 DEF Stops, TransactionFails
<1>10. ASSUME NEW m \in news[t], Hears(t, m) PROVE \A d \in Docs : Asking(d)' = Asking(d)
  <2>0. tabs[t] \in Tab
    BY <1>0, <1>10, AtWork DEF Silent
  <2>1. tabs'[t].at = tabs[t].at /\ tabs'[t].doc = tabs[t].doc
    BY <1>0, <1>10, <2>0 DEF Hears, Tab
  <2> QED BY <1>b, <2>1
<1> QED BY <1>5, <1>6, <1>7, <1>8, <1>9, <1>10 DEF Step, Stops

\* No other tab is clearing anything while one is.
LEMMA AskedAlone ==
    ASSUME StoreInv, NEW t \in Tabs, tabs[t].at = "unlist"
    PROVE  /\ tabs[t].doc \in Docs /\ tabs[t] \in Tab /\ Asking(tabs[t].doc)
           /\ \A u \in Others(t) : tabs[u].at # "unlist"
<1>0. Types /\ Alone
  BY DEF StoreInv
<1>1. tabs[t] \in Tab /\ Sweeping(t)
  BY <1>0, AtWork DEF Places, Sweeps, Sweeping
<1>2. \A u \in Others(t) : tabs[u].at = "unlist" => Open(u) /\ ~Idle(u)
  BY <1>0, AtWork DEF Places, Sweeps, Idle, Others
<1> QED BY <1>0, <1>1, <1>2 DEF Asking, Tab, Alone, Others

LEMMA ShelfStep ==
    ASSUME Guarded, StoreInv, StoreInv', Authored, NEW t \in Tabs, Step(t)
    PROVE  [Shelf!Next]_(Shelf!vars)
<1>0. /\ Types /\ DraftsIntact /\ Writing(t) /\ Types' /\ DraftsIntact'
      /\ tabs \in [Tabs -> Tab \cup {Unopened, Gone}]
      /\ \A u \in Others(t) : tabs'[u] = tabs[u]
  BY StepTypes DEF StoreInv, Types, Moving
<1>1. CASE Promote(t)
  <2>1. tabs[t] \in Tab /\ Open(t) /\ tabs[t].at # "unlist" /\ ~Stops(t) /\ ~Unlist(t) /\ ~DeleteOffered(t)
    <3>1. tabs[t] \in Tab /\ Open(t) /\ tabs[t].at = "promote"
      BY <1>0, <1>1, AtWork DEF Promote, Places, Commits
    <3>2. tabs'[t].at = "list prune"
      BY <1>0, <1>1, <3>1, GoesFields DEF Promote
    <3>3. ~Dies(t)
      <4>1. ASSUME Dies(t) PROVE tabs'[t] = Gone
        BY <1>0, <4>1 DEF Dies
      <4>2. Gone.at = "gone"
        BY DEF Gone
      <4> QED BY <3>2, <4>1, <4>2
    <3>4. ASSUME NEW full \in BOOLEAN, TransactionFails(t, full) PROVE FALSE
      <4>1. Rests(t) => tabs'[t].at = "idle"
        <5>1. Over(tabs[t]).at = "idle"
          BY <3>1 DEF Over, Tab
        <5> QED BY <1>0, <5>1 DEF Rests
      <4>2. tabs' = [tabs EXCEPT ![t].at = "mark", ![t].visits = Docs \ {tabs[t].doc}]
            => tabs'[t].at = "mark"
        BY <1>0, <3>1 DEF Tab
      <4> QED BY <3>2, <3>4, <4>1, <4>2 DEF TransactionFails
    <3> QED BY <3>1, <3>3, <3>4 DEF Stops, Unlist, DeleteOffered, Idle
  <2>2. PICK d \in Docs : d = tabs[t].doc
    BY <2>1 DEF Tab
  <2>3. PICK r \in 1..MaxRevision : r = tabs[t].writing
    <3>1. tabs[t].writing \in 0..MaxRevision /\ tabs[t].at \in Commits
      BY <1>1, <2>1 DEF Tab, Promote, Commits
    <3>2. tabs[t].writing > 0
      BY <1>0, <2>1, <3>1 DEF Types, Counted
    <3>3. tabs[t].writing \in 1..MaxRevision
      BY <3>1, <3>2, DraftAssumption
    <3> QED BY <3>3
  <2>4. /\ pointers' = [pointers EXCEPT ![d] = [active |-> Generation(t), previous |-> Active(tabs[t].seen)]]
        /\ UNCHANGED snapshots
    BY <1>1, <2>2 DEF Promote
  <2>5. snapshots[<<d, Generation(t)>>] = [by |-> t, revision |-> r]
    BY <1>0, <1>1, <2>2, <2>3 DEF Writing, Promote, Key, Work
  <2>6. pointers'[d] # None /\ pointers'[d].active = Generation(t)
    <3>1. pointers'[d] = [active |-> Generation(t), previous |-> Active(tabs[t].seen)]
      BY <1>0, <2>4 DEF Types
    <3>2. Generation(t) \in Nat /\ Active(tabs[t].seen) \in Nat
      BY <2>1, SeenActive, DraftAssumption DEF Generation
    <3> QED BY <3>1, <3>2, DraftAssumption DEF Pointer
  <2>7. LoadBest(d)' = [by |-> t, revision |-> r]
    BY <1>0, <2>4, <2>5, <2>6, BestIsActiveNext
  <2>8. \A e \in Docs \ {d} : LoadBest(e)' = LoadBest(e)
    <3> TAKE e \in Docs \ {d}
    <3>1. pointers'[e] = pointers[e]
      BY <1>0, <2>4 DEF Types
    <3> QED BY <1>0, <2>4, <3>1, BestIsActive, BestIsActiveNext
  <2>9. Shown' = [Shown EXCEPT ![d] = [by |-> t, revision |-> r]]
    BY <2>7, <2>8 DEF Shown
  <2>10. Asked' = Asked
    BY <2>1, AskingStays DEF Asked
  <2>11. Shown[d] # None /\ Shown[d].by = t => Shown[d].revision <= r
    <3> SUFFICES ASSUME Shown[d] # None, Shown[d].by = t PROVE Shown[d].revision <= r
      OBVIOUS
    <3>1. pointers[d] # None /\ Shown[d] = snapshots[<<d, pointers[d].active>>]
      BY <1>0, BestIsActive DEF Shown
    <3>2. <<d, pointers[d].active>> \in Docs \X Generations
      BY <1>0, <3>1, Naming
    <3> QED BY <2>1, <2>3, <3>1, <3>2 DEF Authored, Open
  <2>12. CASE Shown[d] # None /\ Shown[d].by = t /\ Shown[d].revision = r
    <3>1. Shown[d] \in Drafts
      BY <1>0, <2>12, BestIsDraft DEF Shown
    <3>2. Shown[d] = [by |-> t, revision |-> r]
      BY <2>12, <3>1 DEF Drafts
    <3>3. Shown' = Shown
      BY <2>9, <3>2 DEF Shown
    <3> QED BY <2>10, <3>3 DEF Shelf!vars
  <2>13. CASE Shown[d] # None /\ Shown[d].by = t => r > Shown[d].revision
    <3>1. Shelf!Keep(d, t, r)
      BY <2>9, <2>10, <2>13 DEF Shelf!Keep
    <3> QED BY <3>1 DEF Shelf!Next
  <2>14. Shown[d] # None /\ Shown[d].by = t => Shown[d].revision \in Int
    <3>1. Shown[d] \in Drafts \cup {None}
      BY <1>0, BestIsDraft DEF Shown
    <3> QED BY <3>1, DraftAssumption DEF Drafts
  <2> QED BY <2>11, <2>12, <2>13, <2>14
<1>2. CASE Unlist(t)
  <2>1. tabs[t].at = "unlist"
    BY <1>2 DEF Unlist
  <2>2. /\ tabs[t].doc \in Docs /\ tabs[t] \in Tab /\ Asking(tabs[t].doc)
        /\ \A u \in Others(t) : tabs[u].at # "unlist"
    BY <2>1, AskedAlone
  <2>3. PICK d \in Docs : d = tabs[t].doc
    BY <2>2
  <2>4. pointers' = [pointers EXCEPT ![d] = None] /\ UNCHANGED snapshots
    BY <1>2, <2>3 DEF Unlist
  <2>5. LoadBest(d)' = None
    BY <1>0, <2>4 DEF LoadBest, Types
  <2>6. \A e \in Docs \ {d} : LoadBest(e)' = LoadBest(e)
    <3> TAKE e \in Docs \ {d}
    <3>1. pointers'[e] = pointers[e]
      BY <1>0, <2>4 DEF Types
    <3> QED BY <1>0, <2>4, <3>1, BestIsActive, BestIsActiveNext
  <2>7. Shown' = [Shown EXCEPT ![d] = None]
    BY <2>5, <2>6 DEF Shown
  <2>8. tabs'[t].at = "drop"
    BY <1>0, <1>2, <2>2, GoesFields DEF Unlist
  <2>9. \A u \in Tabs : tabs'[u].at # "unlist"
    BY <1>0, <2>2, <2>8 DEF Others
  <2>10. \A e \in Docs : Asking(e)' = FALSE /\ (e # d => Asking(e) = FALSE)
    BY <2>2, <2>3, <2>9 DEF Asking, Others
  <2>11. Asked' = [Asked EXCEPT ![d] = FALSE]
    BY <2>10 DEF Asked
  <2>12. Asked[d]
    BY <2>2, <2>3 DEF Asked
  <2>13. Shelf!Clear(d)
    BY <2>7, <2>11, <2>12 DEF Shelf!Clear
  <2> QED BY <2>13 DEF Shelf!Next
<1>3. CASE ~Promote(t) /\ ~Unlist(t)
  <2>1. Shown' = Shown
    BY <1>3, BestStays
  <2>2. CASE DeleteOffered(t)
    <3>1. /\ Open(t) /\ tabs[t] \in Tab /\ tabs[t].at = "idle"
          /\ \A u \in Others(t) : ~Sweeping(u)
      BY <1>0, <2>2, AtWork DEF DeleteOffered, MayStart, Guarded, Idle
    <3>2. PICK d \in Docs : d = tabs[t].doc
      BY <3>1 DEF Tab
    <3>3. \A u \in Tabs : tabs[u].at # "unlist"
      BY <3>1 DEF Others, Sweeping, Sweeps
    <3>4. tabs'[t].at = "unlist" /\ tabs'[t].doc = d
      BY <1>0, <2>2, <3>1, <3>2 DEF DeleteOffered, Tab
    <3>5. \A e \in Docs : Asking(e) = FALSE
      BY <3>3 DEF Asking
    <3>6. Asking(d)' = TRUE /\ \A e \in Docs \ {d} : Asking(e)' = FALSE
      BY <1>0, <3>3, <3>4 DEF Asking, Others
    <3>7. Asked' = [Asked EXCEPT ![d] = ~Asked[d]]
      BY <3>5, <3>6 DEF Asked
    <3>8. Shelf!Ask(d)
      BY <2>1, <3>7 DEF Shelf!Ask
    <3> QED BY <3>8 DEF Shelf!Next
  <2>3. CASE tabs[t].at = "unlist" /\ Stops(t)
    <3>1. /\ tabs[t].doc \in Docs /\ tabs[t] \in Tab /\ Asking(tabs[t].doc)
          /\ \A u \in Others(t) : tabs[u].at # "unlist"
      BY <2>3, AskedAlone
    <3>2. PICK d \in Docs : d = tabs[t].doc
      BY <3>1
    <3>3. tabs'[t].at # "unlist"
      <4>1. CASE Dies(t)
        BY <1>0, <4>1 DEF Dies, Gone
      <4>2. ASSUME NEW full \in BOOLEAN, TransactionFails(t, full) PROVE tabs'[t].at # "unlist"
        <5>1. Over(tabs[t]).at = "idle"
          BY <3>1 DEF Over, Tab
        <5>2. Rests(t) => tabs'[t].at = "idle"
          BY <1>0, <5>1 DEF Rests
        <5> QED BY <2>3, <4>2, <5>2 DEF TransactionFails
      <4> QED BY <2>3, <4>1, <4>2 DEF Stops
    <3>4. \A u \in Tabs : tabs'[u].at # "unlist"
      BY <1>0, <3>1, <3>3 DEF Others
    <3>5. \A e \in Docs : Asking(e)' = FALSE /\ Asking(e) = (e = d)
      BY <3>1, <3>2, <3>4 DEF Asking, Others
    <3>6. Asked' = [Asked EXCEPT ![d] = ~Asked[d]]
      BY <3>5 DEF Asked
    <3>7. Shelf!Ask(d)
      BY <2>1, <3>6 DEF Shelf!Ask
    <3> QED BY <3>7 DEF Shelf!Next
  <2>4. CASE ~DeleteOffered(t) /\ ~(tabs[t].at = "unlist" /\ Stops(t))
    <3>1. Asked' = Asked
      BY <1>3, <2>4, AskingStays DEF Asked
    <3> QED BY <2>1, <3>1 DEF Shelf!vars
  <2> QED BY <2>2, <2>3, <2>4
<1> QED BY <1>1, <1>2, <1>3

\* The store, with its tabs, generations, sweeps and failing transactions, implements the shelf:
\* what a reopened document would find is one tab's work, changes only to that tab's later work or
\* to another tab's, and disappears only when the user asked (draftRepository.ts, tabCoordination.ts).
THEOREM StoreKeepsShelf == ASSUME Guarded PROVE Spec => ShelfKept
<1>1. Init => Shelf!Init
  <2> SUFFICES ASSUME Init PROVE Shelf!Init
    OBVIOUS
  <2>1. \A d \in Docs : LoadBest(d) = None /\ Asking(d) = FALSE
    BY DEF Init, LoadBest, Asking, Unopened
  <2> QED BY <2>1 DEF Shelf!Init, Shown, Asked
<1>2. Init => Authored
  BY DEF Init, Authored
<1>3. StoreInv /\ Authored /\ [Next]_vars => Authored'
  <2> SUFFICES ASSUME StoreInv, Authored, [Next]_vars PROVE Authored'
    OBVIOUS
  <2>1. CASE UNCHANGED vars
    BY <2>1 DEF vars, Authored
  <2>2. ASSUME NEW t \in Tabs, Step(t) PROVE Authored'
    BY <2>2, AuthoredStep DEF StoreInv
  <2> QED BY <2>1, <2>2, NextIsStep
<1>4. StoreInv /\ StoreInv' /\ Authored /\ [Next]_vars => [Shelf!Next]_(Shelf!vars)
  <2> SUFFICES ASSUME StoreInv, StoreInv', Authored, [Next]_vars PROVE [Shelf!Next]_(Shelf!vars)
    OBVIOUS
  <2>1. CASE UNCHANGED vars
    BY <2>1 DEF vars, Shelf!vars, Shown, Asked, LoadBest, Asking, Named, Held
  <2>2. ASSUME NEW t \in Tabs, Step(t) PROVE [Shelf!Next]_(Shelf!vars)
    BY <2>2, ShelfStep
  <2> QED BY <2>1, <2>2, NextIsStep
<1> QED BY <1>1, <1>2, <1>3, <1>4, StoreIsKept, PTL DEF Spec, ShelfKept, Shelf!Spec
================================================================================
