--------------------------- MODULE WorkspaceSaveProofs --------------------------
(***************************************************************************)
(* Proofs about WorkspaceSave, for any number of requests, intentions,     *)
(* lanes, editors and faults: the shapes of the state and one worker per   *)
(* intention (Typing), one document per intention, what an answer named is *)
(* kept with its bytes, and a document turns from a version only to a      *)
(* later one, by a save that saw it.                                       *)
(***************************************************************************)
EXTENDS WorkspaceSave, TLAPS

--------------------------------------------------------------------------------
(* Shapes, and what the steps write.                                          *)

RequestAt ==
    Holding \cup {"claim", "reclaim", "dedupe", "enqueue", "done", "refused", "converge",
                  "unlist", "trash", "drop", "look", "remove"}

RequestRecord ==
    [at: RequestAt, seen: Nat, put: BOOLEAN, answer: Requests \cup {None}]

LaneAt == {"adopt", "mark", "file", "head", "read", "cut", "point", "finish"}

LaneRecord == {Idle} \cup [at: LaneAt, doc: Requests, fresh: BOOLEAN, number: Nat]

EditorRecord ==
    [at: {"open", "ended"}]
      \cup [at: {"send", "cut", "advance"}, doc: Requests, seen: Nat, base: Nat, number: Nat]

IngestionStatus == {"none", "pending", "processing", "complete", "failed"}

Shapes ==
    /\ intents \in [Keys -> IntentRow \cup {None}]
    /\ object \in BOOLEAN
    /\ files \in SUBSET Requests
    /\ docs \in [Requests -> {"none", "live", "trashed"}]
    /\ ingestions \in [Requests -> IngestionStatus]
    /\ versions \in [Requests -> Nat]
    /\ imports \in [Requests -> SUBSET Nat]
    /\ current \in [Requests -> Nat]
    /\ revision \in [Requests -> Nat]
    /\ requests \in [Requests -> RequestRecord]
    /\ jobs \in SUBSET Requests
    /\ lanes \in [Lanes -> LaneRecord]
    /\ editors \in [Editors -> EditorRecord]
    /\ sweep \in {None} \cup SUBSET Requests
    /\ faults \in 0..MaxFaults
    /\ pulled \in SUBSET Requests
    /\ misread \in SUBSET Requests

\* What a request's key allows it, and what a completed intention and an answer name.
Paths ==
    /\ \A r \in Requests :
         /\ Key[r] = None => requests[r].at \notin {"claim", "reclaim", "complete", "release"}
         /\ Key[r] # None => requests[r].at \notin {"dedupe", "converge"}
         /\ Key[r] # None /\ requests[r].at # "done" => requests[r].answer = None
         /\ requests[r].at = "done" => requests[r].answer # None
         /\ Key[r] # None /\ requests[r].at \notin {"claim", "refused"} => intents[Key[r]] # None
    /\ \A k \in Keys : intents[k] # None /\ intents[k].status = "completed" => intents[k].doc # None

\* A request's step moves that request only.
Moves(r, at, seen, put, answer) ==
    /\ requests' \in [Requests -> RequestRecord]
    /\ requests'[r].at = at /\ requests'[r].seen = seen
    /\ requests'[r].put = put /\ requests'[r].answer = answer
    /\ \A q \in Requests : q # r => requests'[q] = requests[q]

Passes(r, at) == Moves(r, at, requests[r].seen, requests[r].put, requests[r].answer)
Leaves(r, at, d) == Moves(r, at, 0, FALSE, d)

LEMMA Going ==
    ASSUME requests \in [Requests -> RequestRecord], NEW r \in Requests, NEW at \in RequestAt,
           Goes(r, at)
    PROVE  Passes(r, at)
BY DEF Goes, Passes, Moves, RequestRecord

LEMMA Ending ==
    ASSUME requests \in [Requests -> RequestRecord], NEW r \in Requests, NEW at \in RequestAt,
           NEW d \in Requests \cup {None}, Ends(r, at, d)
    PROVE  Leaves(r, at, d)
BY DEF Ends, Leaves, Moves, RequestRecord

LEMMA GoingSeen ==
    ASSUME requests \in [Requests -> RequestRecord], NEW r \in Requests, NEW at \in RequestAt,
           NEW n \in Nat, requests' = [requests EXCEPT ![r].at = at, ![r].seen = n]
    PROVE  Moves(r, at, n, requests[r].put, requests[r].answer)
BY DEF Moves, RequestRecord

LEMMA GoingPut ==
    ASSUME requests \in [Requests -> RequestRecord], NEW r \in Requests, NEW at \in RequestAt,
           NEW b \in BOOLEAN, requests' = [requests EXCEPT ![r].at = at, ![r].put = b]
    PROVE  Moves(r, at, requests[r].seen, b, requests[r].answer)
BY DEF Moves, RequestRecord

LEMMA GoingAnswer ==
    ASSUME requests \in [Requests -> RequestRecord], NEW r \in Requests, NEW at \in RequestAt,
           NEW d \in Requests \cup {None}, requests' = [requests EXCEPT ![r].at = at, ![r].answer = d]
    PROVE  Moves(r, at, requests[r].seen, requests[r].put, d)
BY DEF Moves, RequestRecord

LEMMA TurnedRow ==
    ASSUME NEW row \in IntentRow, NEW status \in {"pending", "completed", "failed"},
           NEW d \in Requests \cup {None}
    PROVE  /\ Turned(row, status, d) \in IntentRow
           /\ Turned(row, status, d).status = status /\ Turned(row, status, d).doc = d
           /\ Turned(row, status, d).meaning = row.meaning
           /\ Turned(row, status, d).stamp = row.stamp + 1
BY DEF Turned, IntentRow

\* The rows an intention is given.
LEMMA IntentWrites ==
    ASSUME Shapes, NEW r \in Requests, Key[r] # None
    PROVE  /\ Key[r] \in Keys
           /\ [status |-> "pending", doc |-> None, meaning |-> Meaning[r], stamp |-> 1] \in IntentRow
           /\ intents[Key[r]] # None => intents[Key[r]] \in IntentRow
<1>1. Key[r] \in Keys
  BY SaveAssumption
<1>2. Meaning[r] \in {Meaning[q] : q \in Requests}
  OBVIOUS
<1> QED BY <1>1, <1>2 DEF Shapes, IntentRow

\* What a look for the content finds: None, or a live document with an ingestion.
LEMMA FoundIs ==
    ASSUME NEW d \in Found
    PROVE  d = None \/ (d \in Requests /\ docs[d] = "live" /\ ingestions[d] # "none")
BY DEF Found, Existing

\* How the request at work moves in each step of a save.
LEMMA SaveMoves ==
    ASSUME Shapes, Paths, NEW r \in Requests
    PROVE  /\ Dedupe(r) => \/ Passes(r, "head")
                           \/ \E d \in Requests : Leaves(r, "done", d) /\ docs[d] = "live" /\ ingestions[d] # "none"
           /\ InsertPending(r) => Passes(r, "head")
           /\ FindIntent(r) =>
                \/ Leaves(r, "refused", None)
                \/ /\ intents[Key[r]].status = "completed" /\ Resolves(intents[Key[r]])
                   /\ sameMeaning(intents[Key[r]], r)
                   /\ intents[Key[r]].doc \in Requests /\ Leaves(r, "done", intents[Key[r]].doc)
                \/ /\ sameMeaning(intents[Key[r]], r)
                   /\ intents[Key[r]].status = "failed"
                        \/ (intents[Key[r]].status = "pending" /\ Stale(Key[r]))
                   /\ Moves(r, "reclaim", intents[Key[r]].stamp, requests[r].put, requests[r].answer)
           /\ GivesUp(r) => Leaves(r, "refused", None)
           /\ Reclaim(r) => \/ /\ Reclaims(intents[Key[r]], r) /\ intents' = Written(r, "pending", None)
                               /\ Moves(r, "head", 0, requests[r].put, requests[r].answer)
                            \/ Passes(r, "claim") /\ UNCHANGED intents
           /\ LookForObject(r) => \/ object /\ Moves(r, "file", requests[r].seen, FALSE, requests[r].answer)
                                  \/ ~object /\ Moves(r, "put", requests[r].seen, TRUE, requests[r].answer)
           /\ PutObject(r) => Passes(r, "file")
           /\ CreateFile(r) => Passes(r, "document")
           /\ CreateDocument(r) => Passes(r, "ingestion")
           /\ CreateIngestion(r) => \/ Key[r] = None /\ Passes(r, "enqueue")
                                    \/ Key[r] # None /\ Passes(r, "complete")
           /\ CompleteIntent(r) => Passes(r, "enqueue")
           /\ Enqueue(r) => Leaves(r, "done", r)
           /\ RequestFails(r) =>
                \/ requests[r].at \in {"head", "put"} /\ Leaves(r, "refused", None)
                \/ requests[r].at \in {"file", "document", "ingestion"} /\ Key[r] = None /\ Passes(r, "converge")
                \/ Key[r] # None /\ requests[r].at \in {"file", "document", "ingestion", "complete"}
                     /\ Passes(r, "release")
<1>0. /\ requests \in [Requests -> RequestRecord] /\ requests[r] \in RequestRecord /\ object \in BOOLEAN
      /\ intents[Key[r]] # None /\ Key[r] # None => intents[Key[r]] \in IntentRow
  BY IntentWrites DEF Shapes
<1>at. {"head", "done", "refused", "reclaim", "claim", "file", "put", "document", "ingestion", "enqueue",
        "complete", "converge", "release"} \subseteq RequestAt
  BY DEF RequestAt, Holding
<1>1. ASSUME Dedupe(r)
      PROVE  \/ Passes(r, "head")
             \/ \E d \in Requests : Leaves(r, "done", d) /\ docs[d] = "live" /\ ingestions[d] # "none"
  <2>1. PICK d \in Found : IF d = None THEN Goes(r, "head") ELSE Answers(r, d)
    BY <1>1 DEF Dedupe
  <2>2. CASE d = None
    BY <1>0, <1>at, <2>1, <2>2, Going
  <2>3. CASE d # None
    BY <1>0, <1>at, <2>1, <2>3, FoundIs, Ending DEF Answers
  <2> QED BY <2>2, <2>3
<1>2. InsertPending(r) => Passes(r, "head")
  BY <1>0, <1>at, Going DEF InsertPending
<1>3. ASSUME FindIntent(r)
      PROVE  \/ Leaves(r, "refused", None)
             \/ /\ intents[Key[r]].status = "completed" /\ Resolves(intents[Key[r]])
                /\ sameMeaning(intents[Key[r]], r)
                /\ intents[Key[r]].doc \in Requests /\ Leaves(r, "done", intents[Key[r]].doc)
             \/ /\ sameMeaning(intents[Key[r]], r)
                /\ intents[Key[r]].status = "failed"
                     \/ (intents[Key[r]].status = "pending" /\ Stale(Key[r]))
                /\ Moves(r, "reclaim", intents[Key[r]].stamp, requests[r].put, requests[r].answer)
  <2> DEFINE row == intents[Key[r]]
  <2>1. /\ Key[r] # None /\ row # None /\ row \in IntentRow /\ Key[r] \in Keys
        /\ row.stamp \in Nat /\ row.doc \in Requests \cup {None}
        /\ row.status = "completed" => row.doc # None
    BY <1>0, <1>3, IntentWrites DEF FindIntent, At, Claimed, Paths, IntentRow
  <2>2. CASE ~sameMeaning(row, r) /\ Refused(r)
    BY <1>0, <1>at, <2>2, Ending DEF Refused
  <2>3. CASE /\ sameMeaning(row, r) /\ row.status = "completed" /\ Resolves(row)
             /\ Answers(r, row.doc)
    BY <1>0, <1>at, <2>1, <2>3, Ending DEF Answers
  <2>4. CASE /\ sameMeaning(row, r)
             /\ row.status = "failed" \/ (row.status = "pending" /\ Stale(Key[r]))
             /\ requests' = [requests EXCEPT ![r].at = "reclaim", ![r].seen = row.stamp]
    BY <1>0, <1>at, <2>1, <2>4, GoingSeen
  <2> QED BY <1>3, <2>2, <2>3, <2>4 DEF FindIntent
<1>4. GivesUp(r) => Leaves(r, "refused", None)
  BY <1>0, <1>at, Ending DEF GivesUp, Refused
<1>5. ASSUME Reclaim(r)
      PROVE  \/ /\ Reclaims(intents[Key[r]], r) /\ intents' = Written(r, "pending", None)
                /\ Moves(r, "head", 0, requests[r].put, requests[r].answer)
             \/ Passes(r, "claim") /\ UNCHANGED intents
  <2>1. CASE Reclaims(intents[Key[r]], r)
    BY <1>0, <1>at, <1>5, <2>1, GoingSeen DEF Reclaim
  <2>2. CASE ~Reclaims(intents[Key[r]], r)
    BY <1>0, <1>at, <1>5, <2>2, Going DEF Reclaim
  <2> QED BY <2>1, <2>2
<1>6. ASSUME LookForObject(r)
      PROVE  \/ object /\ Moves(r, "file", requests[r].seen, FALSE, requests[r].answer)
             \/ ~object /\ Moves(r, "put", requests[r].seen, TRUE, requests[r].answer)
  <2>1. CASE object
    <3>1. requests' = [requests EXCEPT ![r].at = "file", ![r].put = FALSE]
      BY <1>6, <2>1 DEF LookForObject
    <3> QED BY <1>0, <1>at, <2>1, <3>1, GoingPut
  <2>2. CASE ~object
    <3>1. requests' = [requests EXCEPT ![r].at = "put", ![r].put = TRUE]
      BY <1>6, <2>2 DEF LookForObject
    <3> QED BY <1>0, <1>at, <2>2, <3>1, GoingPut
  <2> QED BY <2>1, <2>2
<1>7. PutObject(r) => Passes(r, "file")
  BY <1>0, <1>at, Going DEF PutObject
<1>8. CreateFile(r) => Passes(r, "document")
  BY <1>0, <1>at, Going DEF CreateFile
<1>9. CreateDocument(r) => Passes(r, "ingestion")
  BY <1>0, <1>at, Going DEF CreateDocument
<1>10. CreateIngestion(r) => \/ Key[r] = None /\ Passes(r, "enqueue")
                             \/ Key[r] # None /\ Passes(r, "complete")
  BY <1>0, <1>at, Going DEF CreateIngestion
<1>11. CompleteIntent(r) => Passes(r, "enqueue")
  BY <1>0, <1>at, Going DEF CompleteIntent
<1>12. Enqueue(r) => Leaves(r, "done", r)
  BY <1>0, <1>at, Ending DEF Enqueue, Answers
<1>13. ASSUME RequestFails(r)
       PROVE  \/ requests[r].at \in {"head", "put"} /\ Leaves(r, "refused", None)
              \/ requests[r].at \in {"file", "document", "ingestion"} /\ Key[r] = None /\ Passes(r, "converge")
              \/ Key[r] # None /\ requests[r].at \in {"file", "document", "ingestion", "complete"}
                   /\ Passes(r, "release")
  <2>1. CASE requests[r].at \in {"head", "put"}
    BY <1>0, <1>at, <1>13, <2>1, Ending DEF RequestFails, Refused
  <2>2. CASE requests[r].at \notin {"head", "put"}
    <3>1. requests[r].at \in {"file", "document", "ingestion", "complete"}
      BY <1>13, <2>2 DEF RequestFails
    <3>2. Goes(r, IF Key[r] = None THEN "converge" ELSE "release")
      BY <1>13, <2>2 DEF RequestFails
    <3>3. CASE Key[r] = None
      BY <1>0, <1>at, <3>1, <3>2, <3>3, Going DEF Paths
    <3>4. CASE Key[r] # None
      BY <1>0, <1>at, <3>1, <3>2, <3>4, Going
    <3> QED BY <3>3, <3>4
  <2> QED BY <2>1, <2>2
<1> QED BY <1>1, <1>2, <1>3, <1>4, <1>5, <1>6, <1>7, <1>8, <1>9, <1>10, <1>11, <1>12, <1>13

\* And in each step of its rollback.
LEMMA UnwindMoves ==
    ASSUME Shapes, Paths, NEW r \in Requests
    PROVE  /\ Converge(r) => \E d \in Requests \cup {None} :
                /\ d # None => docs[d] = "live" /\ ingestions[d] # "none"
                /\ Moves(r, "unlist", requests[r].seen, requests[r].put, d)
           /\ FailIntent(r) => Passes(r, "unlist")
           /\ DeleteIngestion(r) => Passes(r, "trash")
           /\ TrashDocument(r) => Passes(r, "drop")
           /\ DropFile(r) => Passes(r, "look")
           /\ Unwound(r) => \/ requests[r].answer = None /\ Leaves(r, "refused", None)
                            \/ requests[r].answer # None /\ Leaves(r, "done", requests[r].answer)
           /\ LookForReferences(r) => IF Unreferenced(r) THEN Passes(r, "remove") ELSE Unwound(r)
           /\ RemoveObject(r) => Unwound(r)
<1>0. /\ requests \in [Requests -> RequestRecord] /\ requests[r] \in RequestRecord
      /\ requests[r].answer \in Requests \cup {None}
  BY DEF Shapes, RequestRecord
<1>at. {"unlist", "trash", "drop", "look", "remove", "done", "refused"} \subseteq RequestAt
  BY DEF RequestAt
<1>1. ASSUME Converge(r)
      PROVE  \E d \in Requests \cup {None} :
                /\ d # None => docs[d] = "live" /\ ingestions[d] # "none"
                /\ Moves(r, "unlist", requests[r].seen, requests[r].put, d)
  <2>1. PICK d \in Found : requests' = [requests EXCEPT ![r].at = "unlist", ![r].answer = d]
    BY <1>1 DEF Converge
  <2> QED BY <1>0, <1>at, <2>1, FoundIs, GoingAnswer
<1>2. FailIntent(r) => Passes(r, "unlist")
  BY <1>0, <1>at, Going DEF FailIntent
<1>3. DeleteIngestion(r) => Passes(r, "trash")
  BY <1>0, <1>at, Going DEF DeleteIngestion
<1>4. TrashDocument(r) => Passes(r, "drop")
  BY <1>0, <1>at, Going DEF TrashDocument
<1>5. DropFile(r) => Passes(r, "look")
  BY <1>0, <1>at, Going DEF DropFile
<1>6. Unwound(r) => \/ requests[r].answer = None /\ Leaves(r, "refused", None)
                    \/ requests[r].answer # None /\ Leaves(r, "done", requests[r].answer)
  BY <1>0, <1>at, Ending DEF Unwound, Refused, Answers
<1>7. LookForReferences(r) => IF Unreferenced(r) THEN Passes(r, "remove") ELSE Unwound(r)
  BY <1>0, <1>at, Going DEF LookForReferences
<1>8. RemoveObject(r) => Unwound(r)
  BY DEF RemoveObject
<1> QED BY <1>1, <1>2, <1>3, <1>4, <1>5, <1>6, <1>7, <1>8

\* A crash leaves a request where it was before or after its save, and ends the others.
LEMMA CrashMoves ==
    ASSUME Shapes, Crash
    PROVE  /\ requests' \in [Requests -> RequestRecord]
           /\ \A r \in Requests :
                \/ requests[r].at \in {"claim", "dedupe", "done"} /\ requests'[r] = requests[r]
                \/ /\ requests[r].at \notin {"claim", "dedupe", "done"}
                   /\ requests'[r].at = "refused" /\ requests'[r].answer = None
<1>1. \A r \in Requests : requests[r] \in RequestRecord
  BY DEF Shapes
<1>2. [at |-> "refused", seen |-> 0, put |-> FALSE, answer |-> None] \in RequestRecord
  BY DEF RequestRecord, RequestAt
<1>3. requests' = [r \in Requests |-> IF requests[r].at \in {"claim", "dedupe", "done"} THEN requests[r]
                     ELSE [at |-> "refused", seen |-> 0, put |-> FALSE, answer |-> None]]
  BY DEF Crash
<1> QED BY <1>1, <1>2, <1>3

--------------------------------------------------------------------------------
(* Shapes and paths.                                                          *)

LEMMA WrittenShape ==
    ASSUME Shapes, NEW r \in Requests, Key[r] # None, intents[Key[r]] # None,
           NEW status \in {"pending", "completed", "failed"}, NEW d \in Requests \cup {None},
           intents' = Written(r, status, d)
    PROVE  /\ intents' \in [Keys -> IntentRow \cup {None}]
           /\ intents'[Key[r]] # None
           /\ intents'[Key[r]].status = status /\ intents'[Key[r]].doc = d
           /\ intents'[Key[r]].meaning = intents[Key[r]].meaning
           /\ intents'[Key[r]].stamp = intents[Key[r]].stamp + 1
           /\ \A k \in Keys : k # Key[r] => intents'[k] = intents[k]
<1>1. Key[r] \in Keys /\ intents[Key[r]] \in IntentRow
  BY IntentWrites
<1> DEFINE row == Turned(intents[Key[r]], status, d)
<1>2. /\ row \in IntentRow /\ row.status = status /\ row.doc = d
      /\ row.meaning = intents[Key[r]].meaning /\ row.stamp = intents[Key[r]].stamp + 1
  BY <1>1, TurnedRow DEF Turned
<1>3. row # None
  BY <1>2, SaveAssumption
<1>4. intents' = [intents EXCEPT ![Key[r]] = row]
  BY DEF Written
<1> HIDE DEF row
<1>5. intents'[Key[r]] = row
  BY <1>1, <1>4 DEF Shapes
<1>6. intents' \in [Keys -> IntentRow \cup {None}] /\ \A k \in Keys : k # Key[r] => intents'[k] = intents[k]
  BY <1>1, <1>2, <1>4 DEF Shapes
<1> QED BY <1>2, <1>3, <1>5, <1>6

LEMMA ClaimedShape ==
    ASSUME Shapes, NEW r \in Requests, Key[r] # None, InsertPending(r)
    PROVE  /\ intents' \in [Keys -> IntentRow \cup {None}]
           /\ intents'[Key[r]] # None
           /\ intents'[Key[r]].status = "pending" /\ intents'[Key[r]].doc = None
           /\ intents'[Key[r]].meaning = Meaning[r] /\ intents'[Key[r]].stamp = 1
           /\ \A k \in Keys : k # Key[r] => intents'[k] = intents[k]
<1> DEFINE row == [status |-> "pending", doc |-> None, meaning |-> Meaning[r], stamp |-> 1]
<1>1. Key[r] \in Keys /\ row \in IntentRow /\ row # None
  BY IntentWrites, SaveAssumption
<1>2. intents' = [intents EXCEPT ![Key[r]] = row]
  BY DEF InsertPending
<1>3. intents'[Key[r]] = row
  BY <1>1, <1>2 DEF Shapes
<1> QED BY <1>1, <1>2, <1>3 DEF Shapes

\* What a save's step writes to the intentions: nothing, a claim, or one row by its id.
Writes(r, status, d) ==
    /\ Key[r] # None /\ intents[Key[r]] # None
    /\ intents' = Written(r, status, d)

LEMMA IntentSteps ==
    ASSUME Shapes, Paths, NEW r \in Requests, Save(r) \/ Unwind(r)
    PROVE  \/ intents' = intents
           \/ InsertPending(r) /\ Key[r] # None
           \/ Writes(r, "pending", None) /\ Reclaim(r) /\ Reclaims(intents[Key[r]], r)
           \/ Writes(r, "completed", r) /\ At(r, "complete")
                /\ (CompleteIntent(r) \/ (RequestFails(r) /\ LostReplies))
           \/ Writes(r, "failed", intents[Key[r]].doc) /\ FailIntent(r)
<1>0. Key[r] # None /\ requests[r].at \notin {"claim", "refused"} => intents[Key[r]] # None
  BY DEF Paths
<1>1. CASE InsertPending(r)
  BY <1>1 DEF InsertPending, At, Paths
<1>2. CASE Reclaim(r)
  BY <1>0, <1>2 DEF Reclaim, At, Paths, Writes
<1>3. CASE CompleteIntent(r)
  BY <1>0, <1>3 DEF CompleteIntent, At, Paths, Writes
<1>4. CASE RequestFails(r)
  BY <1>0, <1>4 DEF RequestFails, At, Paths, Writes
<1>5. CASE FailIntent(r)
  BY <1>0, <1>5 DEF FailIntent, At, Paths, Writes
<1>6. CASE ~(InsertPending(r) \/ Reclaim(r) \/ CompleteIntent(r) \/ RequestFails(r) \/ FailIntent(r))
  <2>1. CASE Save(r)
    BY <1>6, <2>1 DEF Save, Dedupe, FindIntent, GivesUp, LookForObject, PutObject, CreateFile,
         CreateDocument, CreateIngestion, Enqueue, tables, numbering
  <2>2. CASE Unwind(r)
    BY <1>6, <2>2 DEF Unwind, Converge, DeleteIngestion, TrashDocument, DropFile, LookForReferences,
         RemoveObject, tables, numbering
  <2> QED BY <2>1, <2>2
<1> QED BY <1>1, <1>2, <1>3, <1>4, <1>5, <1>6

\* So a row never disappears, keeps its meaning but by a claim, and a completed one names a document.
LEMMA IntentsKept ==
    ASSUME Shapes, Paths, NEW r \in Requests, Save(r) \/ Unwind(r)
    PROVE  /\ intents' \in [Keys -> IntentRow \cup {None}]
           /\ \A k \in Keys : intents'[k] # None /\ intents'[k].status = "completed" => intents'[k].doc # None
           /\ \A k \in Keys : intents[k] # None =>
                intents'[k] # None /\ intents'[k].meaning = intents[k].meaning
<1>0. /\ intents \in [Keys -> IntentRow \cup {None}] /\ r # None
      /\ \A k \in Keys : intents[k] # None /\ intents[k].status = "completed" => intents[k].doc # None
  BY SaveAssumption DEF Shapes, Paths
<1>1. CASE intents' = intents
  BY <1>0, <1>1
<1>2. CASE InsertPending(r) /\ Key[r] # None
  <2>1. intents[Key[r]] = None
    BY <1>2 DEF InsertPending, Claimed
  <2> QED BY <1>0, <1>2, <2>1, ClaimedShape
<1>3. ASSUME NEW status \in {"pending", "completed", "failed"}, NEW d \in Requests \cup {None},
             Writes(r, status, d), status = "completed" => d # None
      PROVE  /\ intents' \in [Keys -> IntentRow \cup {None}]
             /\ \A k \in Keys : intents'[k] # None /\ intents'[k].status = "completed" => intents'[k].doc # None
             /\ \A k \in Keys : intents[k] # None =>
                  intents'[k] # None /\ intents'[k].meaning = intents[k].meaning
  <2>1. Key[r] # None /\ intents[Key[r]] # None /\ intents' = Written(r, status, d)
    BY <1>3 DEF Writes
  <2> QED BY <1>0, <1>3, <2>1, WrittenShape
<1>4. CASE Writes(r, "pending", None)
  BY <1>3, <1>4
<1>5. CASE Writes(r, "completed", r)
  BY <1>0, <1>3, <1>5
<1>6. CASE Writes(r, "failed", intents[Key[r]].doc)
  <2>1. intents[Key[r]] \in IntentRow
    BY <1>6, IntentWrites DEF Writes
  <2>2. intents[Key[r]].doc \in Requests \cup {None}
    BY <2>1 DEF IntentRow
  <2> QED BY <1>3, <1>6, <2>2
<1> QED BY <1>1, <1>2, <1>4, <1>5, <1>6, IntentSteps

\* What a save's step leaves to ingestion, and the rows it may write.
LEMMA SaveShapes ==
    ASSUME Shapes, Paths, NEW r \in Requests, Save(r) \/ Unwind(r)
    PROVE  Shapes'
<1>0. /\ files \in SUBSET Requests /\ jobs \in SUBSET Requests /\ pulled \in SUBSET Requests
      /\ faults \in 0..MaxFaults /\ MaxFaults \in Nat /\ object \in BOOLEAN
      /\ docs \in [Requests -> {"none", "live", "trashed"}]
      /\ ingestions \in [Requests -> IngestionStatus]
  BY SaveAssumption DEF Shapes
<1>1. requests' \in [Requests -> RequestRecord]
  <2>1. CASE Save(r)
    BY <2>1, SaveMoves DEF Save, Passes, Leaves, Moves
  <2>2. CASE Unwind(r)
    BY <2>2, UnwindMoves DEF Unwind, Passes, Leaves, Moves
  <2> QED BY <2>1, <2>2
<1>2. /\ versions' = versions /\ imports' = imports /\ current' = current
      /\ lanes' = lanes /\ editors' = editors /\ sweep' = sweep /\ misread' = misread
  <2>1. CASE Save(r)
    BY <2>1 DEF Save, Dedupe, InsertPending, FindIntent, GivesUp, Reclaim, LookForObject, PutObject,
         CreateFile, CreateDocument, CreateIngestion, CompleteIntent, Enqueue, RequestFails,
         background, tables, numbering
  <2>2. CASE Unwind(r)
    BY <2>2 DEF Unwind, Converge, FailIntent, DeleteIngestion, TrashDocument, DropFile,
         LookForReferences, RemoveObject, background, tables, numbering
  <2> QED BY <2>1, <2>2
<1>2b. faults' \in 0..MaxFaults
  <2>1. CASE Save(r)
    <3>1. faults' = faults \/ Fault
      BY <2>1 DEF Save, Dedupe, InsertPending, FindIntent, GivesUp, Reclaim, LookForObject, PutObject,
           CreateFile, CreateDocument, CreateIngestion, CompleteIntent, Enqueue, RequestFails
    <3> QED BY <1>0, <3>1 DEF Fault
  <2>2. CASE Unwind(r)
    <3>1. faults' = faults \/ Fault
      BY <2>2 DEF Unwind, Converge, FailIntent, DeleteIngestion, TrashDocument, DropFile,
           LookForReferences, RemoveObject
    <3> QED BY <1>0, <3>1 DEF Fault
  <2> QED BY <2>1, <2>2
<1>3. object' \in BOOLEAN /\ files' \in SUBSET Requests /\ jobs' \in SUBSET Requests /\ pulled' \in SUBSET Requests
  <2>1. CASE Save(r)
    <3>1. CASE CreateFile(r)
      BY <1>0, <3>1 DEF CreateFile
    <3>2. CASE Enqueue(r) \/ PutObject(r)
      BY <1>0, <3>2 DEF Enqueue, PutObject, tables, numbering
    <3>3. CASE ~(CreateFile(r) \/ Enqueue(r) \/ PutObject(r))
      BY <1>0, <2>1, <3>3 DEF Save, Dedupe, InsertPending, FindIntent, GivesUp, Reclaim, LookForObject,
           CreateDocument, CreateIngestion, CompleteIntent, RequestFails, tables, numbering
    <3> QED BY <3>1, <3>2, <3>3
  <2>2. CASE Unwind(r)
    <3>1. CASE DropFile(r)
      BY <1>0, <3>1 DEF DropFile
    <3>2. CASE RemoveObject(r)
      BY <1>0, <3>2 DEF RemoveObject
    <3>3. CASE ~(DropFile(r) \/ RemoveObject(r))
      BY <1>0, <2>2, <3>3 DEF Unwind, Converge, FailIntent, DeleteIngestion, TrashDocument,
           LookForReferences, tables, numbering
    <3> QED BY <3>1, <3>2, <3>3
  <2> QED BY <2>1, <2>2
<1>4. docs' \in [Requests -> {"none", "live", "trashed"}]
  <2>1. CASE Save(r)
    BY <1>0, <2>1 DEF Save, Dedupe, InsertPending, FindIntent, GivesUp, Reclaim, LookForObject, PutObject,
         CreateFile, CreateDocument, CreateIngestion, CompleteIntent, Enqueue, RequestFails, tables, numbering
  <2>2. CASE Unwind(r)
    BY <1>0, <2>2 DEF Unwind, Converge, FailIntent, DeleteIngestion, TrashDocument, DropFile,
         LookForReferences, RemoveObject, tables, numbering
  <2> QED BY <2>1, <2>2
<1>5. ingestions' \in [Requests -> IngestionStatus]
  <2>1. CASE Save(r)
    BY <1>0, <2>1 DEF Save, Dedupe, InsertPending, FindIntent, GivesUp, Reclaim, LookForObject, PutObject,
         CreateFile, CreateDocument, CreateIngestion, CompleteIntent, Enqueue, RequestFails, tables, numbering,
         IngestionStatus
  <2>2. CASE Unwind(r)
    BY <1>0, <2>2 DEF Unwind, Converge, FailIntent, DeleteIngestion, TrashDocument, DropFile,
         LookForReferences, RemoveObject, tables, numbering, IngestionStatus
  <2> QED BY <2>1, <2>2
<1>6. intents' \in [Keys -> IntentRow \cup {None}]
  BY IntentsKept DEF Shapes
<1>7. revision' \in [Requests -> Nat]
  <2>1. revision \in [Requests -> Nat]
    BY DEF Shapes
  <2>2. CASE TrashDocument(r)
    BY <2>1, <2>2 DEF TrashDocument
  <2>3. CASE ~TrashDocument(r)
    <3>1. revision' = revision
      <4>1. CASE Save(r)
        BY <4>1 DEF Save, Dedupe, InsertPending, FindIntent, GivesUp, Reclaim, LookForObject, PutObject,
             CreateFile, CreateDocument, CreateIngestion, CompleteIntent, Enqueue, RequestFails,
             background, tables, numbering
      <4>2. CASE Unwind(r)
        BY <2>3, <4>2 DEF Unwind, Converge, FailIntent, DeleteIngestion, DropFile,
             LookForReferences, RemoveObject, background, tables, numbering
      <4> QED BY <4>1, <4>2
    <3> QED BY <2>1, <3>1
  <2> QED BY <2>2, <2>3
<1> QED BY <1>1, <1>2, <1>2b, <1>3, <1>4, <1>5, <1>6, <1>7 DEF Shapes

LEMMA SavePaths ==
    ASSUME Shapes, Paths, NEW r \in Requests, Save(r) \/ Unwind(r)
    PROVE  Paths'
<1> DEFINE Way(at, answer, q, row) ==
      /\ Key[q] = None => at \notin {"claim", "reclaim", "complete", "release"}
      /\ Key[q] # None => at \notin {"dedupe", "converge"}
      /\ Key[q] # None /\ at # "done" => answer = None
      /\ at = "done" => answer # None
      /\ Key[q] # None /\ at \notin {"claim", "refused"} => row # None
<1>0. \A q \in Requests : Way(requests[q].at, requests[q].answer, q, intents[Key[q]])
  BY DEF Paths
<1>1. \A q \in Requests : Key[q] # None /\ intents[Key[q]] # None => intents'[Key[q]] # None
  BY IntentsKept, SaveAssumption
<1>2. r # None /\ None \notin Requests
  BY SaveAssumption
<1>3. \A q \in Requests : q # r => requests'[q] = requests[q]
  <2>1. CASE Save(r)
    BY <2>1, SaveMoves DEF Save, Passes, Leaves, Moves
  <2>2. CASE Unwind(r)
    BY <2>2, UnwindMoves DEF Unwind, Passes, Leaves, Moves
  <2> QED BY <2>1, <2>2
<1>4. Way(requests'[r].at, requests'[r].answer, r, intents'[Key[r]])
  <2> DEFINE W == Way(requests'[r].at, requests'[r].answer, r, intents'[Key[r]])
  <2>0. Key[r] # None /\ (requests[r].at \notin {"claim", "refused"} \/ Claimed(Key[r])) => intents'[Key[r]] # None
    BY <1>0, <1>1 DEF Claimed
  <2>1. CASE Dedupe(r)
    <3>1. Passes(r, "head") \/ \E d \in Requests : Leaves(r, "done", d)
      BY <2>1, SaveMoves
    <3>2. requests[r].at = "dedupe" /\ Key[r] = None
      BY <1>0, <2>1 DEF Dedupe, At
    <3> QED BY <1>2, <3>1, <3>2 DEF Passes, Leaves, Moves
  <2>2. CASE InsertPending(r)
    <3>1. Key[r] # None
      BY <1>0, <2>2 DEF InsertPending, At
    <3>2. intents'[Key[r]] # None
      BY <2>2, <3>1, ClaimedShape
    <3> QED BY <1>0, <2>2, <3>1, <3>2, SaveMoves DEF InsertPending, At, Passes, Moves
  <2>3. CASE FindIntent(r)
    <3>1. Claimed(Key[r]) /\ requests[r].at = "claim"
      BY <2>3 DEF FindIntent, At
    <3>2. \/ Leaves(r, "refused", None)
          \/ \E d \in Requests : Leaves(r, "done", d)
          \/ Moves(r, "reclaim", intents[Key[r]].stamp, requests[r].put, requests[r].answer)
      BY <2>3, SaveMoves
    <3> QED BY <1>0, <1>2, <2>0, <3>1, <3>2 DEF Leaves, Moves
  <2>4. CASE GivesUp(r)
    <3>1. Claimed(Key[r]) /\ requests[r].at = "claim"
      BY <2>4 DEF GivesUp, At
    <3> QED BY <1>0, <2>0, <2>4, <3>1, SaveMoves DEF Leaves, Moves
  <2>5. CASE Reclaim(r)
    <3>1. requests[r].at = "reclaim"
      BY <2>5 DEF Reclaim, At
    <3>2. Moves(r, "head", 0, requests[r].put, requests[r].answer) \/ Passes(r, "claim")
      BY <2>5, SaveMoves
    <3> QED BY <1>0, <2>0, <3>1, <3>2 DEF Passes, Moves
  <2>6. CASE LookForObject(r)
    <3>1. requests[r].at = "head"
      BY <2>6 DEF LookForObject, At
    <3>2. \/ Moves(r, "file", requests[r].seen, FALSE, requests[r].answer)
          \/ Moves(r, "put", requests[r].seen, TRUE, requests[r].answer)
      BY <2>6, SaveMoves
    <3> QED BY <1>0, <2>0, <3>1, <3>2 DEF Moves
  <2>7. CASE PutObject(r) \/ CreateFile(r) \/ CreateDocument(r)
    <3>1. requests[r].at \in {"put", "file", "document"}
      BY <2>7 DEF PutObject, CreateFile, CreateDocument, At
    <3>2. \E at \in {"file", "document", "ingestion"} : Passes(r, at)
      BY <2>7, SaveMoves
    <3> QED BY <1>0, <2>0, <3>1, <3>2 DEF Passes, Moves
  <2>8. CASE CreateIngestion(r) \/ CompleteIntent(r)
    BY <1>0, <2>0, <2>8, SaveMoves DEF CreateIngestion, CompleteIntent, At, Passes, Moves
  <2>9. CASE Enqueue(r)
    BY <1>0, <1>2, <2>0, <2>9, SaveMoves DEF Enqueue, At, Leaves, Moves
  <2>10. CASE RequestFails(r)
    BY <1>0, <2>0, <2>10, SaveMoves DEF RequestFails, Passes, Leaves, Moves
  <2>11. CASE Converge(r)
    BY <1>0, <2>0, <2>11, UnwindMoves DEF Converge, At, Moves
  <2>12. CASE FailIntent(r) \/ DeleteIngestion(r) \/ TrashDocument(r) \/ DropFile(r)
    BY <1>0, <2>0, <2>12, UnwindMoves DEF FailIntent, DeleteIngestion, TrashDocument, DropFile, At, Passes, Moves
  <2>13. ASSUME Unwound(r), requests[r].at \in {"look", "remove"}
         PROVE  W
    BY <1>0, <2>0, <2>13, UnwindMoves DEF Leaves, Moves
  <2>14. CASE LookForReferences(r)
    <3>1. CASE Unreferenced(r)
      BY <1>0, <2>0, <2>14, <3>1, UnwindMoves DEF LookForReferences, At, Passes, Moves
    <3>2. CASE ~Unreferenced(r)
      BY <2>13, <2>14, <3>2 DEF LookForReferences, At
    <3> QED BY <3>1, <3>2
  <2>15. CASE RemoveObject(r)
    BY <2>13, <2>15 DEF RemoveObject, At
  <2> QED BY <2>1, <2>2, <2>3, <2>4, <2>5, <2>6, <2>7, <2>8, <2>9, <2>10, <2>11, <2>12, <2>14, <2>15
          DEF Save, Unwind
<1>5. \A q \in Requests : Way(requests'[q].at, requests'[q].answer, q, intents'[Key[q]])
  BY <1>0, <1>1, <1>3, <1>4
<1> QED BY <1>5, IntentsKept DEF Paths

\* Ingestion leaves the saves alone, and takes up what is there to be promoted.
LaneStep == \E w \in Lanes : TakeJob(w) \/ Promote(w) \/ LaneFails(w)

LEMMA LaneShapes ==
    ASSUME Shapes, LaneStep \/ ListUnfinished \/ Examine
    PROVE  /\ Shapes'
           /\ UNCHANGED <<intents, object, files, docs, requests, editors, pulled>>
<1>0. /\ lanes \in [Lanes -> LaneRecord] /\ jobs \in SUBSET Requests /\ sweep \in {None} \cup SUBSET Requests
      /\ ingestions \in [Requests -> IngestionStatus] /\ faults \in 0..MaxFaults /\ MaxFaults \in Nat
      /\ versions \in [Requests -> Nat] /\ current \in [Requests -> Nat]
      /\ imports \in [Requests -> SUBSET Nat] /\ revision \in [Requests -> Nat] /\ misread \in SUBSET Requests
      /\ Sweeper \in Lanes /\ Idle \in LaneRecord
  BY SaveAssumption DEF Shapes, Lanes, LaneRecord
<1>1. UNCHANGED <<intents, object, files, docs, requests, editors, pulled>>
  BY DEF LaneStep, ListUnfinished, Examine, TakeJob, Promote, LaneFails, Adopt, MarkProcessing, LookUp,
       LookForFile, LookForBytes, ReadSignature, CutVersion, PointDocument, FinishIngestion, otherwise, tables
<1>2. ASSUME NEW w \in Lanes, NEW d \in Requests, Started(w, d)
      PROVE  lanes' \in [Lanes -> LaneRecord]
  <2>1. [at |-> "adopt", doc |-> d, fresh |-> ingestions[d] = "pending", number |-> 0] \in LaneRecord
    BY DEF LaneRecord, LaneAt
  <2> QED BY <1>0, <1>2, <2>1 DEF Started
<1>3. CASE ListUnfinished
  BY <1>1, <1>3 DEF ListUnfinished, Shapes, tables, numbering
<1>4. CASE Examine
  <2>1. PICK d \in sweep : sweep' = sweep \ {d} /\ Started(Sweeper, d)
    BY <1>4 DEF Examine
  <2>2. sweep \in SUBSET Requests
    BY <1>0, <1>4 DEF Examine
  <2>3. lanes' \in [Lanes -> LaneRecord] /\ sweep' \in SUBSET Requests
    BY <1>0, <1>2, <2>1, <2>2
  <2> QED BY <1>1, <1>4, <2>3 DEF Examine, Shapes, tables, numbering
<1>5. ASSUME NEW w \in Lanes, TakeJob(w)
      PROVE  Shapes'
  <2>1. PICK d \in jobs : jobs' = jobs \ {d} /\ Started(w, d)
    BY <1>5 DEF TakeJob
  <2>2. lanes' \in [Lanes -> LaneRecord] /\ jobs' \in SUBSET Requests
    BY <1>0, <1>2, <2>1
  <2> QED BY <1>1, <1>5, <2>2 DEF TakeJob, Shapes, tables, numbering
<1>6. ASSUME NEW w \in Lanes, LaneFails(w)
      PROVE  Shapes'
  <2>1. lanes[w].doc \in Requests
    <3>1. lanes[w] \in LaneRecord /\ lanes[w] # Idle
      BY <1>0, <1>6 DEF LaneFails, Idle
    <3> QED BY <3>1 DEF LaneRecord
  <2>2. lanes' \in [Lanes -> LaneRecord] /\ jobs' \in SUBSET Requests /\ faults' \in 0..MaxFaults
    BY <1>0, <1>6, <2>1 DEF LaneFails, Rests, Fault
  <2> QED BY <1>1, <1>6, <2>2 DEF LaneFails, Shapes, tables, numbering
<1>7. ASSUME NEW w \in Lanes, Promote(w)
      PROVE  Shapes'
  <2> DEFINE d == lanes[w].doc
  <2>1. lanes[w] \in [at: LaneAt, doc: Requests, fresh: BOOLEAN, number: Nat]
    <3>1. lanes[w].at # "idle"
      BY <1>7 DEF Promote, Adopt, MarkProcessing, LookUp, LookForFile, LookForBytes, ReadSignature, CutVersion,
           PointDocument, FinishIngestion
    <3> QED BY <1>0, <3>1 DEF Idle, LaneRecord
  <2>2. d \in Requests /\ lanes[w].number \in Nat
    BY <2>1
  <2>3. ASSUME NEW status \in {"processing", "failed", "complete"}, ingestions' = Marked(d, status)
        PROVE  ingestions' \in [Requests -> IngestionStatus]
    BY <1>0, <2>3 DEF Marked, IngestionStatus
  <2>4. ASSUME NEW at \in LaneAt, Steps(w, at)
        PROVE  lanes' \in [Lanes -> LaneRecord]
    <3>1. [lanes[w] EXCEPT !.at = at] \in LaneRecord
      BY <2>1, <2>4 DEF LaneRecord
    <3> QED BY <1>0, <2>4, <3>1 DEF Steps
  <2>5. ASSUME NEW n \in Nat, lanes' = [lanes EXCEPT ![w] = [lanes[w] EXCEPT !.at = "point", !.number = n]]
        PROVE  lanes' \in [Lanes -> LaneRecord]
    <3>1. [lanes[w] EXCEPT !.at = "point", !.number = n] \in LaneRecord
      BY <2>1, <2>5 DEF LaneRecord, LaneAt
    <3> QED BY <1>0, <2>5, <3>1
  <2>6. Rests(w) => lanes' \in [Lanes -> LaneRecord]
    BY <1>0 DEF Rests
  <2>7. CASE Adopt(w)
    <3>1. lanes' \in [Lanes -> LaneRecord]
      <4>1. CASE 1 \in imports[d]
        BY <2>5, <2>7, <4>1 DEF Adopt
      <4>2. CASE 1 \notin imports[d]
        <5>1. Steps(w, IF lanes[w].fresh THEN "mark" ELSE "file")
          BY <2>7, <4>2 DEF Adopt, Steps
        <5> QED BY <2>4, <5>1 DEF LaneAt
      <4> QED BY <4>1, <4>2
    <3> QED BY <1>1, <2>7, <3>1 DEF Adopt, Shapes, otherwise, numbering
  <2>8. CASE MarkProcessing(w)
    <3>1. lanes' \in [Lanes -> LaneRecord] /\ ingestions' \in [Requests -> IngestionStatus]
      BY <2>3, <2>4, <2>8 DEF MarkProcessing, LaneAt
    <3> QED BY <1>1, <2>8, <3>1 DEF MarkProcessing, Shapes, otherwise, numbering
  <2>9. ASSUME NEW at, NEW there, NEW next \in LaneAt, LookUp(w, at, there, next)
        PROVE  Shapes'
    <3>1. lanes' \in [Lanes -> LaneRecord] /\ ingestions' \in [Requests -> IngestionStatus]
      BY <1>0, <2>3, <2>4, <2>6, <2>9 DEF LookUp
    <3> QED BY <1>1, <2>9, <3>1 DEF LookUp, Shapes, otherwise, numbering
  <2>10. CASE LookForFile(w) \/ LookForBytes(w)
    BY <2>9, <2>10 DEF LookForFile, LookForBytes, LaneAt
  <2>11. CASE ReadSignature(w)
    <3>1. CASE LookUp(w, "read", object, "cut")
      BY <2>9, <3>1 DEF LaneAt
    <3>2. CASE /\ lanes[w].at = "read" /\ object /\ Fault
               /\ Rests(w) /\ ingestions' = Marked(d, "failed") /\ misread' = misread \cup {d}
               /\ UNCHANGED <<otherwise, numbering>>
      <4>1. lanes' \in [Lanes -> LaneRecord] /\ ingestions' \in [Requests -> IngestionStatus]
        BY <2>3, <2>6, <3>2
      <4>2. misread' \in SUBSET Requests /\ faults' \in 0..MaxFaults
        BY <1>0, <2>2, <3>2 DEF Fault
      <4> QED BY <1>1, <3>2, <4>1, <4>2 DEF Shapes, otherwise, numbering
    <3> QED BY <2>11, <3>1, <3>2 DEF ReadSignature
  <2>12. CASE CutVersion(w)
    <3>1. versions[d] + 1 \in Nat
      BY <1>0, <2>2
    <3>2. lanes' \in [Lanes -> LaneRecord]
      <4>1. lanes' = [lanes EXCEPT ![w] = [lanes[w] EXCEPT !.at = "point", !.number = versions[d] + 1]]
        BY <2>12 DEF CutVersion
      <4> QED BY <2>5, <3>1, <4>1
    <3>3. versions' \in [Requests -> Nat] /\ imports' \in [Requests -> SUBSET Nat]
      BY <1>0, <2>12, <3>1 DEF CutVersion
    <3> QED BY <1>1, <2>12, <3>2, <3>3 DEF CutVersion, Shapes, otherwise
  <2>13. CASE PointDocument(w)
    <3>1. lanes' \in [Lanes -> LaneRecord]
      BY <2>4, <2>13 DEF PointDocument, LaneAt
    <3>2. current' \in [Requests -> Nat] /\ revision' \in [Requests -> Nat]
      BY <1>0, <2>2, <2>13 DEF PointDocument, Turns
    <3> QED BY <1>1, <2>13, <3>1, <3>2 DEF PointDocument, Shapes, otherwise
  <2>14. CASE FinishIngestion(w)
    <3>1. ingestions' \in [Requests -> IngestionStatus] /\ lanes' \in [Lanes -> LaneRecord]
      BY <2>3, <2>6, <2>14 DEF FinishIngestion
    <3> QED BY <1>1, <2>14, <3>1 DEF FinishIngestion, Shapes, otherwise, numbering
  <2> QED BY <1>7, <2>7, <2>8, <2>10, <2>11, <2>12, <2>13, <2>14 DEF Promote
<1> QED BY <1>1, <1>3, <1>4, <1>5, <1>6, <1>7 DEF LaneStep

\* An editor's save leaves the saves into the workspace and the ingestions alone.
LEMMA EditorShapes ==
    ASSUME Shapes, NEW e \in Editors, SaveVersion(e)
    PROVE  /\ Shapes'
           /\ UNCHANGED <<intents, object, files, docs, ingestions, imports, requests, jobs, lanes, sweep, faults,
                          pulled, misread>>
<1>0. /\ editors \in [Editors -> EditorRecord] /\ versions \in [Requests -> Nat]
      /\ current \in [Requests -> Nat] /\ revision \in [Requests -> Nat] /\ [at |-> "ended"] \in EditorRecord
  BY DEF Shapes, EditorRecord
<1>1. UNCHANGED <<intents, object, files, docs, ingestions, imports, requests, jobs, lanes, sweep, faults,
                  pulled, misread>>
  BY DEF SaveVersion, ReadRevision, AcceptVersion, CommitVersion, AdvanceDocument, tables, numbering
<1>2. editors[e].at \in {"send", "cut", "advance"} =>
        editors[e] \in [at: {"send", "cut", "advance"}, doc: Requests, seen: Nat, base: Nat, number: Nat]
  BY <1>0 DEF EditorRecord
<1>3. CASE ReadRevision(e)
  <2>1. PICK d \in Requests :
          editors' = [editors EXCEPT ![e] =
            [at |-> "send", doc |-> d, seen |-> revision[d], base |-> current[d], number |-> 0]]
    BY <1>3 DEF ReadRevision
  <2>2. [at |-> "send", doc |-> d, seen |-> revision[d], base |-> current[d], number |-> 0] \in EditorRecord
    BY <1>0 DEF EditorRecord
  <2>3. editors' \in [Editors -> EditorRecord]
    BY <1>0, <2>1, <2>2
  <2> QED BY <1>1, <1>3, <2>3 DEF ReadRevision, Shapes, tables, numbering
<1>4. CASE AcceptVersion(e)
  <2>1. [editors[e] EXCEPT !.at = "cut"] \in EditorRecord
    BY <1>2, <1>4 DEF AcceptVersion, EditorRecord
  <2>2. editors' \in [Editors -> EditorRecord]
    BY <1>0, <1>4, <2>1 DEF AcceptVersion, Ended
  <2> QED BY <1>1, <1>4, <2>2 DEF AcceptVersion, Shapes, tables, numbering
<1>5. CASE CommitVersion(e)
  <2>1. editors[e].doc \in Requests /\ versions[editors[e].doc] + 1 \in Nat
    BY <1>0, <1>2, <1>5 DEF CommitVersion
  <2>2. [editors[e] EXCEPT !.at = "advance", !.number = versions[editors[e].doc] + 1] \in EditorRecord
    BY <1>2, <1>5, <2>1 DEF CommitVersion, EditorRecord
  <2>3. editors' = [editors EXCEPT ![e] = [editors[e] EXCEPT !.at = "advance",
                                                             !.number = versions[editors[e].doc] + 1]]
    BY <1>5 DEF CommitVersion
  <2>4. editors' \in [Editors -> EditorRecord] /\ versions' \in [Requests -> Nat]
    BY <1>0, <1>5, <2>1, <2>2, <2>3 DEF CommitVersion
  <2> QED BY <1>1, <1>5, <2>4 DEF CommitVersion, Shapes
<1>6. CASE AdvanceDocument(e)
  <2>1. editors[e].doc \in Requests /\ editors[e].number \in Nat
    BY <1>2, <1>6 DEF AdvanceDocument
  <2>2. current' \in [Requests -> Nat] /\ revision' \in [Requests -> Nat] /\ editors' \in [Editors -> EditorRecord]
    BY <1>0, <1>6, <2>1 DEF AdvanceDocument, Turns, Ended
  <2> QED BY <1>1, <1>6, <2>2 DEF AdvanceDocument, Shapes
<1> QED BY <1>1, <1>3, <1>4, <1>5, <1>6 DEF SaveVersion

LEMMA CrashShapes ==
    ASSUME Shapes, Paths, Crash
    PROVE  Shapes' /\ Paths'
<1>0. /\ jobs \in SUBSET Requests /\ faults \in 0..MaxFaults /\ MaxFaults \in Nat /\ Idle \in LaneRecord
      /\ editors \in [Editors -> EditorRecord] /\ [at |-> "ended"] \in EditorRecord
  BY SaveAssumption DEF Shapes, LaneRecord, EditorRecord
<1>1. jobs' \in SUBSET Requests /\ faults' \in 0..MaxFaults
  BY <1>0 DEF Crash, Fault
<1>2. lanes' \in [Lanes -> LaneRecord] /\ editors' \in [Editors -> EditorRecord] /\ sweep' = None
  BY <1>0 DEF Crash
<1>3. UNCHANGED <<intents, object, files, docs, ingestions, versions, imports, current, revision, pulled, misread>>
  BY DEF Crash, tables, numbering
<1>4. Shapes'
  BY <1>1, <1>2, <1>3, CrashMoves DEF Shapes
<1>5. Paths'
  <2>1. ASSUME NEW r \in Requests
        PROVE  /\ Key[r] = None => requests'[r].at \notin {"claim", "reclaim", "complete", "release"}
               /\ Key[r] # None => requests'[r].at \notin {"dedupe", "converge"}
               /\ Key[r] # None /\ requests'[r].at # "done" => requests'[r].answer = None
               /\ requests'[r].at = "done" => requests'[r].answer # None
               /\ Key[r] # None /\ requests'[r].at \notin {"claim", "refused"} => intents'[Key[r]] # None
    <3>1. CASE requests[r].at \in {"claim", "dedupe", "done"} /\ requests'[r] = requests[r]
      BY <1>3, <3>1 DEF Paths
    <3>2. CASE requests'[r].at = "refused" /\ requests'[r].answer = None
      BY <1>3, <3>2 DEF Paths
    <3> QED BY <3>1, <3>2, CrashMoves
  <2> QED BY <1>3, <2>1 DEF Paths
<1> QED BY <1>4, <1>5

LEMMA NextIs ==
    ASSUME Next
    PROVE  \/ \E r \in Requests : Save(r) \/ Unwind(r)
           \/ LaneStep \/ ListUnfinished \/ Examine
           \/ \E e \in Editors : SaveVersion(e)
           \/ Crash
BY DEF Next, LaneStep

Base == Shapes /\ Paths

LEMMA BaseInit ==
    ASSUME Init
    PROVE  Base
<1>1. \A r \in Requests :
        /\ requests[r] \in RequestRecord /\ requests[r].answer = None /\ requests[r].at # "done"
        /\ Key[r] = None => requests[r].at \in {"dedupe", "refused"}
        /\ Key[r] # None => requests[r].at \in {"claim", "refused"}
  BY DEF Init, RequestRecord, RequestAt
<1>2. Shapes
  <2>1. requests \in [Requests -> RequestRecord]
    BY <1>1 DEF Init
  <2>2. Idle \in LaneRecord /\ 0 \in 0..MaxFaults
    BY SaveAssumption DEF LaneRecord
  <2>3. editors \in [Editors -> EditorRecord]
    BY DEF Init, EditorRecord
  <2>4. intents \in [Keys -> IntentRow \cup {None}]
    BY DEF Init
  <2> QED BY <2>1, <2>2, <2>3, <2>4 DEF Init, Shapes, IngestionStatus
<1>3. Paths
  BY <1>1, SaveAssumption DEF Init, Paths
<1> QED BY <1>2, <1>3 DEF Base

LEMMA BaseStep ==
    ASSUME Base, [Next]_vars
    PROVE  Base'
<1>1. CASE UNCHANGED vars
  BY <1>1 DEF Base, Shapes, Paths, vars, tables, numbering
<1>2. CASE Next
  <2>1. CASE \E r \in Requests : Save(r) \/ Unwind(r)
    BY <2>1, SaveShapes, SavePaths DEF Base
  <2>2. CASE LaneStep \/ ListUnfinished \/ Examine
    BY <2>2, LaneShapes DEF Base, Paths
  <2>3. CASE Crash
    BY <2>3, CrashShapes DEF Base
  <2>4. CASE \E e \in Editors : SaveVersion(e)
    BY <2>4, EditorShapes DEF Base, Paths
  <2> QED BY <1>2, <2>1, <2>2, <2>3, <2>4, NextIs
<1> QED BY <1>1, <1>2

LEMMA AlwaysBase == Spec => []Base
BY BaseInit, BaseStep, PTL DEF Spec

--------------------------------------------------------------------------------
(* The rows a save has made so far.                                           *)

Early == {"claim", "reclaim", "dedupe", "head", "put", "file"}

Made(r) ==
    /\ requests[r].at \in {"document", "ingestion", "complete", "enqueue"} => r \in files
    /\ requests[r].at \in {"ingestion", "complete", "enqueue"} => docs[r] = "live"
    /\ requests[r].at \in {"complete", "enqueue"} => ingestions[r] # "none"
    /\ requests[r].at \in Early => ingestions[r] = "none"
    /\ requests[r].answer # None => docs[requests[r].answer] # "none"

Rows == \A r \in Requests : Made(r)

LEMMA RowSteps ==
    ASSUME NEW r \in Requests, Save(r) \/ Unwind(r)
    PROVE  /\ \/ files' = files
              \/ CreateFile(r) /\ files' = files \cup {r}
              \/ DropFile(r) /\ files' = files \ {r}
           /\ \/ docs' = docs
              \/ CreateDocument(r) /\ docs' = [docs EXCEPT ![r] = "live"]
              \/ TrashDocument(r) /\ docs' = [docs EXCEPT ![r] = IF @ = "live" THEN "trashed" ELSE @]
           /\ \/ ingestions' = ingestions
              \/ CreateIngestion(r) /\ ingestions' = [ingestions EXCEPT ![r] = "pending"]
              \/ DeleteIngestion(r) /\ ingestions' = [ingestions EXCEPT ![r] = "none"]
           /\ \/ object' = object
              \/ PutObject(r) /\ object' = TRUE
              \/ RemoveObject(r) /\ object' = FALSE
           /\ \/ pulled' = pulled
              \/ CreateFile(r) /\ pulled' = IF \E q \in Requests : At(q, "remove") THEN pulled \cup {r} ELSE pulled
              \/ RemoveObject(r) /\ pulled' = pulled \cup {q \in Requests : At(q, "file")}
           /\ UNCHANGED <<versions, imports, current, lanes, editors, misread>>
           /\ \/ revision' = revision
              \/ revision' = [revision EXCEPT ![r] = IF docs[r] = "live" THEN @ + 1 ELSE @]
<1>1. CASE Save(r)
  BY <1>1 DEF Save, Dedupe, InsertPending, FindIntent, GivesUp, Reclaim, LookForObject, PutObject,
       CreateFile, CreateDocument, CreateIngestion, CompleteIntent, Enqueue, RequestFails, tables, background, numbering
<1>2. CASE Unwind(r)
  BY <1>2 DEF Unwind, Converge, FailIntent, DeleteIngestion, TrashDocument, DropFile, LookForReferences,
       RemoveObject, tables, background, numbering
<1> QED BY <1>1, <1>2

\* The rows of other requests stay, and a document's row never goes.
LEMMA OtherRows ==
    ASSUME Shapes, NEW r \in Requests, Save(r) \/ Unwind(r), NEW d \in Requests
    PROVE  /\ d # r => docs'[d] = docs[d] /\ ingestions'[d] = ingestions[d] /\ (d \in files' <=> d \in files)
           /\ docs[d] # "none" => docs'[d] # "none"
<1>0. docs \in [Requests -> {"none", "live", "trashed"}] /\ ingestions \in [Requests -> IngestionStatus]
  BY DEF Shapes
<1>1. d # r => (d \in files' <=> d \in files)
  BY RowSteps
<1>2. d # r => ingestions'[d] = ingestions[d]
  BY <1>0, RowSteps
<1>3. (d # r => docs'[d] = docs[d]) /\ (docs[d] # "none" => docs'[d] # "none")
  <2>1. CASE docs' = docs
    BY <2>1
  <2>2. CASE docs' = [docs EXCEPT ![r] = "live"]
    BY <1>0, <2>2
  <2>3. CASE docs' = [docs EXCEPT ![r] = IF @ = "live" THEN "trashed" ELSE @]
    BY <1>0, <2>3
  <2> QED BY <2>1, <2>2, <2>3, RowSteps
<1> QED BY <1>1, <1>2, <1>3

\* A save's step moves its request by one edge.
LEMMA OthersStay ==
    ASSUME Base, NEW r \in Requests, Save(r) \/ Unwind(r)
    PROVE  \A q \in Requests : q # r => requests'[q] = requests[q]
<1>1. CASE Save(r)
  BY <1>1, SaveMoves DEF Base, Save, Passes, Leaves, Moves
<1>2. CASE Unwind(r)
  BY <1>2, UnwindMoves DEF Base, Unwind, Passes, Leaves, Moves
<1> QED BY <1>1, <1>2

LEMMA MadeBySave ==
    ASSUME Base, Rows, NEW r \in Requests, Save(r) \/ Unwind(r)
    PROVE  Made(r)'
<1> DEFINE at == requests[r].at
           answer == requests[r].answer
<1>0. /\ Shapes /\ Paths /\ Made(r) /\ at \in RequestAt /\ answer \in Requests \cup {None}
      /\ docs \in [Requests -> {"none", "live", "trashed"}] /\ ingestions \in [Requests -> IngestionStatus]
      /\ r # None
  BY SaveAssumption DEF Base, Rows, Shapes, RequestRecord
<1>1. \A d \in Requests : docs[d] # "none" => docs'[d] # "none"
  BY <1>0, OtherRows
<1>2. \A d \in Requests : d # r => docs'[d] = docs[d]
  BY <1>0, OtherRows
<1>3. CASE Dedupe(r)
  <2>1. Passes(r, "head") \/ \E d \in Requests : Leaves(r, "done", d) /\ docs[d] = "live"
    BY <1>0, <1>3, SaveMoves
  <2>2. at = "dedupe" /\ UNCHANGED <<files, docs, ingestions>>
    BY <1>3 DEF Dedupe, At, tables, numbering
  <2> QED BY <1>0, <2>1, <2>2 DEF Made, Early, Passes, Leaves, Moves
<1>4. CASE InsertPending(r)
  <2>1. Passes(r, "head")
    BY <1>0, <1>4, SaveMoves
  <2>2. at = "claim" /\ UNCHANGED <<files, docs, ingestions>>
    BY <1>4 DEF InsertPending, At
  <2> QED BY <1>0, <2>1, <2>2 DEF Made, Early, Passes, Moves
<1>5. CASE FindIntent(r)
  <2>1. \/ Leaves(r, "refused", None)
        \/ \E d \in Requests : Leaves(r, "done", d) /\ docs[d] # "none"
        \/ Moves(r, "reclaim", intents[Key[r]].stamp, requests[r].put, requests[r].answer)
    BY <1>0, <1>5, SaveMoves DEF Resolves
  <2>2. at = "claim" /\ UNCHANGED <<files, docs, ingestions>>
    BY <1>5 DEF FindIntent, At, tables, numbering
  <2> QED BY <1>0, <2>1, <2>2 DEF Made, Early, Leaves, Moves
<1>6. CASE GivesUp(r)
  <2>1. Leaves(r, "refused", None) /\ UNCHANGED <<files, docs, ingestions>>
    BY <1>0, <1>6, SaveMoves DEF GivesUp, tables, numbering
  <2> QED BY <1>0, <2>1 DEF Made, Early, Leaves, Moves
<1>7. CASE Reclaim(r)
  <2>1. Moves(r, "head", 0, requests[r].put, requests[r].answer) \/ Passes(r, "claim")
    BY <1>0, <1>7, SaveMoves
  <2>2. at = "reclaim" /\ UNCHANGED <<files, docs, ingestions>>
    BY <1>7 DEF Reclaim, At
  <2> QED BY <1>0, <2>1, <2>2 DEF Made, Early, Passes, Moves
<1>8. CASE LookForObject(r)
  <2>1. \/ Moves(r, "file", requests[r].seen, FALSE, requests[r].answer)
        \/ Moves(r, "put", requests[r].seen, TRUE, requests[r].answer)
    BY <1>0, <1>8, SaveMoves
  <2>2. at = "head" /\ UNCHANGED <<files, docs, ingestions>>
    BY <1>8 DEF LookForObject, At, tables, numbering
  <2> QED BY <1>0, <2>1, <2>2 DEF Made, Early, Moves
<1>9. CASE PutObject(r)
  <2>1. Passes(r, "file") /\ at = "put" /\ UNCHANGED <<files, docs, ingestions>>
    BY <1>0, <1>9, SaveMoves DEF PutObject, At
  <2> QED BY <1>0, <2>1 DEF Made, Early, Passes, Moves
<1>10. CASE CreateFile(r)
  <2>1. Passes(r, "document") /\ at = "file" /\ r \in files' /\ UNCHANGED <<docs, ingestions>>
    BY <1>0, <1>10, SaveMoves DEF CreateFile, At
  <2> QED BY <1>0, <2>1 DEF Made, Early, Passes, Moves
<1>11. CASE CreateDocument(r)
  <2>1. Passes(r, "ingestion") /\ at = "document" /\ docs'[r] = "live" /\ UNCHANGED <<files, ingestions>>
    BY <1>0, <1>11, SaveMoves DEF CreateDocument, At
  <2> QED BY <1>0, <1>1, <2>1 DEF Made, Early, Passes, Moves
<1>12. CASE CreateIngestion(r)
  <2>1. /\ Passes(r, "enqueue") \/ Passes(r, "complete")
        /\ at = "ingestion" /\ ingestions'[r] = "pending" /\ UNCHANGED <<files, docs>>
    BY <1>0, <1>12, SaveMoves DEF CreateIngestion, At
  <2> QED BY <1>0, <2>1 DEF Made, Early, Passes, Moves
<1>13. CASE CompleteIntent(r)
  <2>1. Passes(r, "enqueue") /\ at = "complete" /\ UNCHANGED <<files, docs, ingestions>>
    BY <1>0, <1>13, SaveMoves DEF CompleteIntent, At
  <2> QED BY <1>0, <2>1 DEF Made, Early, Passes, Moves
<1>14. CASE Enqueue(r)
  <2>1. Leaves(r, "done", r) /\ at = "enqueue" /\ UNCHANGED <<files, docs, ingestions>>
    BY <1>0, <1>14, SaveMoves DEF Enqueue, At, tables, numbering
  <2> QED BY <1>0, <2>1 DEF Made, Early, Leaves, Moves
<1>15. CASE RequestFails(r)
  <2>1. Leaves(r, "refused", None) \/ Passes(r, "converge") \/ Passes(r, "release")
    BY <1>0, <1>15, SaveMoves
  <2>2. UNCHANGED <<files, docs, ingestions>>
    BY <1>15 DEF RequestFails
  <2> QED BY <1>0, <2>1, <2>2 DEF Made, Early, Passes, Leaves, Moves
<1>16. CASE Converge(r)
  <2>1. \E d \in Requests \cup {None} :
          (d # None => docs[d] = "live") /\ Moves(r, "unlist", requests[r].seen, requests[r].put, d)
    BY <1>0, <1>16, UnwindMoves
  <2>2. UNCHANGED <<files, docs, ingestions>>
    BY <1>16 DEF Converge, tables, numbering
  <2> QED BY <1>0, <2>1, <2>2 DEF Made, Early, Moves
<1>17. CASE FailIntent(r) \/ DeleteIngestion(r) \/ TrashDocument(r) \/ DropFile(r)
  <2>1. \E to \in {"unlist", "trash", "drop", "look"} : Passes(r, to)
    BY <1>0, <1>17, UnwindMoves
  <2> QED BY <1>0, <1>1, <2>1 DEF Made, Early, Passes, Moves
<1>18. ASSUME Unwound(r), UNCHANGED <<files, docs, ingestions>>
       PROVE  Made(r)'
  <2>1. \/ answer = None /\ Leaves(r, "refused", None)
        \/ answer # None /\ Leaves(r, "done", answer)
    BY <1>0, <1>18, UnwindMoves
  <2> QED BY <1>0, <1>18, <2>1 DEF Made, Early, Leaves, Moves
<1>19. CASE LookForReferences(r)
  <2>1. UNCHANGED <<files, docs, ingestions>>
    BY <1>19 DEF LookForReferences, tables, numbering
  <2>2. CASE Passes(r, "remove")
    BY <1>0, <2>1, <2>2 DEF Made, Early, Passes, Moves
  <2> QED BY <1>0, <1>18, <1>19, <2>1, <2>2, UnwindMoves
<1>20. CASE RemoveObject(r)
  BY <1>18, <1>20 DEF RemoveObject
<1> QED BY <1>3, <1>4, <1>5, <1>6, <1>7, <1>8, <1>9, <1>10, <1>11, <1>12, <1>13, <1>14, <1>15, <1>16, <1>17,
       <1>19, <1>20 DEF Save, Unwind

\* Ingestion neither makes nor drops a row, and fails one only over bytes or a file that are gone, or
\* for a read that failed.
LEMMA LaneRows ==
    ASSUME Shapes, LaneStep \/ ListUnfinished \/ Examine, NEW d \in Requests
    PROVE  /\ ingestions'[d] = "none" <=> ingestions[d] = "none"
           /\ ingestions'[d] = "failed" =>
                ingestions[d] = "failed" \/ ~(d \in files /\ object) \/ d \in misread'
           /\ d \in misread => d \in misread'
<1>0. ingestions \in [Requests -> IngestionStatus]
  BY DEF Shapes
<1>1. ASSUME NEW e, NEW status \in {"processing", "complete", "failed"}, ingestions' = Marked(e, status),
             status = "failed" => ~(e \in files /\ object) \/ e \in misread'
      PROVE  /\ ingestions'[d] = "none" <=> ingestions[d] = "none"
             /\ ingestions'[d] = "failed" =>
                  ingestions[d] = "failed" \/ ~(d \in files /\ object) \/ d \in misread'
  <2>1. CASE d = e
    BY <1>0, <1>1, <2>1 DEF Marked
  <2>2. CASE d # e
    BY <1>0, <1>1, <2>2 DEF Marked
  <2> QED BY <2>1, <2>2
<1>2. CASE ListUnfinished \/ Examine
  BY <1>2 DEF ListUnfinished, Examine, tables
<1>3. ASSUME NEW w \in Lanes, TakeJob(w) \/ Promote(w) \/ LaneFails(w)
      PROVE  /\ d \in misread => d \in misread'
             /\ \/ ingestions' = ingestions
                \/ \E e \in {lanes[w].doc} : \E status \in {"processing", "complete", "failed"} :
                     /\ ingestions' = Marked(e, status)
                     /\ status = "failed" => ~(e \in files /\ object) \/ e \in misread'
  <2> DEFINE e == lanes[w].doc
  <2>1. CASE TakeJob(w) \/ LaneFails(w)
    BY <2>1 DEF TakeJob, LaneFails, tables
  <2>2. CASE Adopt(w) \/ CutVersion(w) \/ PointDocument(w)
    BY <2>2 DEF Adopt, CutVersion, PointDocument
  <2>3. CASE MarkProcessing(w) \/ FinishIngestion(w)
    BY <2>3 DEF MarkProcessing, FinishIngestion
  <2>4. ASSUME NEW at, NEW there, NEW next, LookUp(w, at, there, next), ~there => ~(e \in files /\ object)
        PROVE  /\ misread' = misread
               /\ ingestions' = ingestions \/ (ingestions' = Marked(e, "failed") /\ ~(e \in files /\ object))
    BY <2>4 DEF LookUp
  <2>5. CASE LookForFile(w) \/ LookForBytes(w) \/ LookUp(w, "read", object, "cut")
    BY <2>4, <2>5 DEF LookForFile, LookForBytes
  <2>6. CASE ingestions' = Marked(e, "failed") /\ misread' = misread \cup {e}
    BY <2>6
  <2> QED BY <1>3, <2>1, <2>2, <2>3, <2>5, <2>6 DEF Promote, ReadSignature
<1> QED BY <1>1, <1>2, <1>3 DEF LaneStep

LEMMA RowsStep ==
    ASSUME Base, Rows, [Next]_vars
    PROVE  Rows'
<1>0. /\ Shapes /\ Paths /\ \A q \in Requests : Made(q) /\ requests[q].answer \in Requests \cup {None}
  BY DEF Base, Rows, Shapes, RequestRecord
<1>1. CASE UNCHANGED vars
  BY <1>1 DEF Rows, Made, vars, tables, numbering
<1>2. ASSUME NEW r \in Requests, Save(r) \/ Unwind(r), NEW q \in Requests
      PROVE  Made(q)'
  <2>1. CASE q = r
    BY <1>2, <2>1, MadeBySave
  <2>2. CASE q # r
    <3>1. requests'[q] = requests[q]
      BY <1>2, <2>2, OthersStay
    <3>2. docs'[q] = docs[q] /\ ingestions'[q] = ingestions[q] /\ (q \in files' <=> q \in files)
      BY <1>0, <1>2, <2>2, OtherRows
    <3>3. \A d \in Requests : docs[d] # "none" => docs'[d] # "none"
      BY <1>0, <1>2, OtherRows
    <3>4. Made(q) /\ requests[q].answer \in Requests \cup {None}
      BY <1>0
    <3> QED BY <3>1, <3>2, <3>3, <3>4 DEF Made
  <2> QED BY <2>1, <2>2
<1>3. ASSUME LaneStep \/ ListUnfinished \/ Examine, NEW q \in Requests
      PROVE  Made(q)'
  BY <1>0, <1>3, LaneShapes, LaneRows DEF Made
<1>5. ASSUME NEW e \in Editors, SaveVersion(e), NEW q \in Requests
      PROVE  Made(q)'
  BY <1>0, <1>5, EditorShapes DEF Made
<1>4. ASSUME Crash, NEW q \in Requests
      PROVE  Made(q)'
  <2>1. UNCHANGED <<files, docs, ingestions>>
    BY <1>4 DEF Crash, tables, numbering
  <2>2. \/ requests'[q] = requests[q]
        \/ requests'[q].at = "refused" /\ requests'[q].answer = None
    BY <1>0, <1>4, CrashMoves
  <2> QED BY <1>0, <2>1, <2>2 DEF Made, Early
<1> QED BY <1>1, <1>2, <1>3, <1>4, <1>5, NextIs DEF Rows

LEMMA AlwaysRows == Spec => [](Base /\ Rows)
<1>1. Init => Rows
  <2>1. ASSUME Init, NEW r \in Requests
        PROVE  Made(r)
    <3>1. requests[r].at \in {"dedupe", "claim", "refused"} /\ requests[r].answer = None /\ ingestions[r] = "none"
      BY <2>1 DEF Init
    <3> QED BY <3>1 DEF Made
  <2> QED BY <2>1 DEF Rows
<1>2. Base /\ Rows /\ [Next]_vars => Rows'
  BY RowsStep
<1> QED BY AlwaysBase, <1>1, <1>2, PTL DEF Spec

--------------------------------------------------------------------------------
(* The bytes.                                                                 *)

\* A file row whose request was not pulled keeps the object, and its ingestion but for a read that
\* failed, and no rollback is at the object; nor may one be while a request that was not pulled
\* counts on it.
Bytes ==
    \A r \in Requests :
      /\ r \in files \ pulled =>
           /\ object /\ (ingestions[r] = "failed" => r \in misread)
           /\ \A q \in Requests : requests[q].at # "remove"
      /\ requests[r].at = "file" /\ r \notin pulled => object

LEMMA BytesBySave ==
    ASSUME Base, Rows, Bytes, NEW r \in Requests, Save(r) \/ Unwind(r)
    PROVE  Bytes'
<1>0. /\ Shapes /\ Paths /\ pulled \in SUBSET Requests /\ object \in BOOLEAN /\ misread' = misread
      /\ files \in SUBSET Requests /\ ingestions \in [Requests -> IngestionStatus]
      /\ \A q \in Requests : requests'[q].at # requests[q].at => q = r
  BY OthersStay, RowSteps DEF Base, Shapes
<1>1. ASSUME NEW q \in Requests, ingestions'[q] = "failed"
      PROVE  ingestions[q] = "failed"
  <2>1. CASE ingestions' = ingestions
    BY <1>1, <2>1
  <2>2. CASE ingestions' = [ingestions EXCEPT ![r] = "pending"]
    BY <1>0, <1>1, <2>2
  <2>3. CASE ingestions' = [ingestions EXCEPT ![r] = "none"]
    BY <1>0, <1>1, <2>3
  <2> QED BY <2>1, <2>2, <2>3, RowSteps
<1>2. CASE CreateFile(r)
  <2>1. /\ requests[r].at = "file" /\ requests'[r].at = "document" /\ files' = files \cup {r}
        /\ object' = object /\ ingestions' = ingestions
        /\ pulled' = IF \E q \in Requests : requests[q].at = "remove" THEN pulled \cup {r} ELSE pulled
    BY <1>0, <1>2, SaveMoves DEF CreateFile, At, Passes, Moves
  <2>2. ingestions[r] = "none"
    BY <2>1 DEF Rows, Made, Early
  <2>3. \A q \in Requests : requests'[q].at = "remove" => requests[q].at = "remove"
    BY <1>0, <2>1
  <2>4. \A q \in Requests : requests'[q].at = "file" => requests[q].at = "file"
    BY <1>0, <2>1
  <2> QED BY <1>0, <2>1, <2>2, <2>3, <2>4 DEF Bytes
<1>3. CASE RemoveObject(r)
  <2>1. /\ requests[r].at = "remove" /\ object' = FALSE /\ files' = files /\ ingestions' = ingestions
        /\ pulled' = pulled \cup {q \in Requests : requests[q].at = "file"}
    BY <1>3 DEF RemoveObject, At
  <2>2. requests'[r].at \in {"done", "refused"}
    BY <1>0, <1>3, UnwindMoves DEF Leaves, Moves
  <2>3. files \subseteq pulled
    BY <1>0, <2>1 DEF Bytes
  <2>4. \A q \in Requests : requests'[q].at = "file" => requests[q].at = "file"
    BY <1>0, <2>2
  <2> QED BY <1>0, <2>1, <2>3, <2>4 DEF Bytes
<1>4. CASE LookForReferences(r)
  <2>1. object' = object /\ files' = files /\ ingestions' = ingestions /\ pulled' = pulled
    BY <1>4 DEF LookForReferences, tables, numbering
  <2>2. CASE Unreferenced(r)
    <3>1. files = {} /\ requests'[r].at = "remove"
      BY <1>0, <1>4, <2>2, UnwindMoves DEF Unreferenced, Passes, Moves
    <3>2. \A q \in Requests : requests'[q].at = "file" => requests[q].at = "file"
      BY <1>0, <3>1
    <3> QED BY <1>0, <2>1, <3>1, <3>2 DEF Bytes
  <2>3. CASE ~Unreferenced(r)
    <3>1. requests'[r].at \in {"done", "refused"}
      BY <1>0, <1>4, <2>3, UnwindMoves DEF Leaves, Moves
    <3>2. \A q \in Requests : /\ requests'[q].at = "file" => requests[q].at = "file"
                              /\ requests'[q].at = "remove" => requests[q].at = "remove"
      BY <1>0, <3>1
    <3> QED BY <1>0, <2>1, <3>2 DEF Bytes
  <2> QED BY <2>2, <2>3
<1>5. CASE LookForObject(r) \/ PutObject(r)
  <2>1. /\ files' = files /\ ingestions' = ingestions /\ pulled' = pulled
        /\ requests'[r].at \in {"file", "put"} /\ (requests'[r].at = "file" => object')
        /\ object => object'
    <3>1. CASE LookForObject(r)
      BY <1>0, <3>1, SaveMoves DEF LookForObject, tables, numbering, Moves
    <3>2. CASE PutObject(r)
      BY <1>0, <3>2, SaveMoves DEF PutObject, Passes, Moves
    <3> QED BY <1>5, <3>1, <3>2
  <2>2. \A q \in Requests : requests'[q].at = "remove" => requests[q].at = "remove"
    BY <1>0, <2>1
  <2> QED BY <1>0, <2>1, <2>2 DEF Bytes
<1>6. CASE ~(CreateFile(r) \/ RemoveObject(r) \/ LookForReferences(r) \/ LookForObject(r) \/ PutObject(r))
  <2>1. object' = object /\ pulled' = pulled /\ files' \subseteq files
    BY <1>6, RowSteps
  <2>2. requests'[r].at \notin {"file", "remove"}
    <3>1. CASE Save(r)
      BY <1>0, <1>6, <3>1, SaveMoves DEF Save, Passes, Leaves, Moves
    <3>2. CASE Unwind(r)
      BY <1>0, <1>6, <3>2, UnwindMoves DEF Unwind, Passes, Leaves, Moves
    <3> QED BY <3>1, <3>2
  <2>3. \A q \in Requests : /\ requests'[q].at = "file" => requests[q].at = "file"
                            /\ requests'[q].at = "remove" => requests[q].at = "remove"
    BY <1>0, <2>2
  <2> QED BY <1>0, <1>1, <2>1, <2>3 DEF Bytes
<1> QED BY <1>2, <1>3, <1>4, <1>5, <1>6

LEMMA BytesStep ==
    ASSUME Base, Rows, Bytes, [Next]_vars
    PROVE  Bytes'
<1>0. Shapes /\ Paths
  BY DEF Base
<1>1. CASE UNCHANGED vars
  BY <1>1 DEF Bytes, vars, tables, numbering
<1>2. CASE LaneStep \/ ListUnfinished \/ Examine
  <2>1. UNCHANGED <<object, files, requests, pulled>>
    BY <1>0, <1>2, LaneShapes
  <2>2. \A d \in Requests :
          /\ (ingestions'[d] = "failed" =>
                ingestions[d] = "failed" \/ ~(d \in files /\ object) \/ d \in misread')
          /\ (d \in misread => d \in misread')
    BY <1>0, <1>2, LaneRows
  <2> QED BY <2>1, <2>2 DEF Bytes
<1>3. CASE Crash
  <2>1. UNCHANGED <<object, files, ingestions, pulled, misread>>
    BY <1>3 DEF Crash, tables, numbering
  <2>2. \A q \in Requests : requests'[q].at \in {"file", "remove"} => requests'[q].at = requests[q].at
    BY <1>0, <1>3, CrashMoves
  <2> QED BY <2>1, <2>2 DEF Bytes
<1>4. ASSUME NEW e \in Editors, SaveVersion(e)
      PROVE  Bytes'
  BY <1>0, <1>4, EditorShapes DEF Bytes
<1> QED BY <1>1, <1>2, <1>3, <1>4, BytesBySave, NextIs

LEMMA AlwaysBytes == Spec => []Bytes
<1>1. Init => Bytes
  <2>1. ASSUME Init, NEW r \in Requests
        PROVE  requests[r].at # "file"
    BY <2>1 DEF Init
  <2> QED BY <2>1 DEF Init, Bytes
<1>2. Base /\ Rows /\ Bytes /\ [Next]_vars => Bytes'
  BY BytesStep
<1> QED BY AlwaysRows, <1>1, <1>2, PTL DEF Spec

--------------------------------------------------------------------------------
(* One request at work per intention, while no live save outlasts the claim.  *)

Claims ==
    /\ \A q, r \in Requests :
         Key[q] = Key[r] /\ Key[q] # None /\ {requests[q].at, requests[r].at} \subseteq Holding => q = r
    /\ \A r \in Requests : Key[r] # None /\ requests[r].at \in Holding => intents[Key[r]].status # "failed"
    /\ \A r \in Requests : requests[r].at = "reclaim" =>
         /\ requests[r].seen <= intents[Key[r]].stamp
         /\ requests[r].seen = intents[Key[r]].stamp /\ intents[Key[r]].status # "completed"
              => ~Holder(Key[r])

\* How the request of an intention comes to be at work under it, and what it may write then.
LEMMA ClaimSteps ==
    ASSUME Base, ~SlowSaves, NEW r \in Requests, Key[r] # None, Save(r) \/ Unwind(r)
    PROVE  \/ /\ intents' = intents /\ requests'[r].at # "reclaim"
              /\ requests'[r].at \in Holding => requests[r].at \in Holding
           \/ /\ InsertPending(r) /\ intents[Key[r]] = None
              /\ requests'[r].at = "head"
           \/ /\ FindIntent(r) /\ intents' = intents /\ requests'[r].at = "reclaim"
              /\ requests'[r].seen = intents[Key[r]].stamp
              /\ intents[Key[r]].status = "pending" => ~Holder(Key[r])
              /\ intents[Key[r]].status # "completed" /\ sameMeaning(intents[Key[r]], r)
           \/ /\ Reclaim(r) /\ Writes(r, "pending", None) /\ requests[r].at = "reclaim"
              /\ requests[r].seen = intents[Key[r]].stamp /\ intents[Key[r]].status # "completed"
              /\ requests'[r].at = "head"
           \/ /\ Writes(r, "completed", r) /\ requests[r].at = "complete"
              /\ requests'[r].at = "enqueue" \/ (LostReplies /\ requests'[r].at = "release")
           \/ /\ Writes(r, "failed", intents[Key[r]].doc) /\ requests[r].at = "release"
              /\ requests'[r].at = "unlist"
<1>0. Shapes /\ Paths
  BY DEF Base
<1>h. Holding \cap {"claim", "reclaim", "dedupe", "enqueue", "done", "refused", "unlist", "trash", "drop", "look", "remove"} = {}
  BY DEF Holding
<1>1. CASE InsertPending(r)
  BY <1>0, <1>1, SaveMoves DEF InsertPending, Claimed, Passes, Moves
<1>2. CASE FindIntent(r)
  <2>1. intents' = intents
    BY <1>2 DEF FindIntent, tables, numbering
  <2>2. CASE Leaves(r, "refused", None) \/ \E d \in Requests : Leaves(r, "done", d)
    BY <1>h, <2>1, <2>2 DEF Leaves, Moves
  <2>3. CASE /\ sameMeaning(intents[Key[r]], r)
             /\ intents[Key[r]].status = "failed"
                  \/ (intents[Key[r]].status = "pending" /\ Stale(Key[r]))
             /\ Moves(r, "reclaim", intents[Key[r]].stamp, requests[r].put, requests[r].answer)
    <3>1. requests'[r].at = "reclaim" /\ requests'[r].seen = intents[Key[r]].stamp
      BY <2>3 DEF Moves
    <3>2. Stale(Key[r]) => ~Holder(Key[r])
      BY DEF Stale
    <3> QED BY <1>2, <2>1, <2>3, <3>1, <3>2
  <2> QED BY <1>0, <1>2, <2>2, <2>3, SaveMoves
<1>3. CASE Reclaim(r)
  <2>1. requests[r].at = "reclaim" /\ intents[Key[r]] # None
    BY <1>0, <1>3 DEF Reclaim, At, Paths
  <2>2. CASE Passes(r, "claim") /\ UNCHANGED intents
    BY <1>h, <2>2 DEF Passes, Moves
  <2>3. CASE /\ Reclaims(intents[Key[r]], r) /\ intents' = Written(r, "pending", None)
             /\ Moves(r, "head", 0, requests[r].put, requests[r].answer)
    BY <1>3, <2>1, <2>3 DEF Reclaims, Writes, Moves
  <2> QED BY <1>0, <1>3, <2>2, <2>3, SaveMoves
<1>4. CASE CompleteIntent(r)
  <2>1. requests[r].at = "complete" /\ intents' = Written(r, "completed", r) /\ requests'[r].at = "enqueue"
    BY <1>0, <1>4, SaveMoves DEF CompleteIntent, At, Passes, Moves
  <2> QED BY <1>0, <2>1 DEF Writes, Paths
<1>5. CASE RequestFails(r)
  <2>1. \/ requests[r].at \in {"head", "put"} /\ requests'[r].at = "refused"
        \/ requests[r].at \in {"file", "document", "ingestion", "complete"} /\ requests'[r].at = "release"
    BY <1>0, <1>5, SaveMoves DEF Passes, Leaves, Moves
  <2>2. intents' = intents \/ (LostReplies /\ requests[r].at = "complete" /\ intents' = Written(r, "completed", r))
    BY <1>5 DEF RequestFails, At
  <2> QED BY <1>0, <1>h, <2>1, <2>2 DEF Writes, Paths, Holding
<1>6. CASE FailIntent(r)
  <2>1. requests[r].at = "release" /\ requests'[r].at = "unlist"
    BY <1>0, <1>6, UnwindMoves DEF FailIntent, At, Passes, Moves
  <2>2. intents' = intents \/ intents' = Written(r, "failed", intents[Key[r]].doc)
    BY <1>6 DEF FailIntent
  <2> QED BY <1>0, <1>h, <2>1, <2>2 DEF Writes, Paths
<1>7. CASE ~(InsertPending(r) \/ FindIntent(r) \/ Reclaim(r) \/ CompleteIntent(r) \/ RequestFails(r) \/ FailIntent(r))
  <2>1. intents' = intents
    BY <1>0, <1>7, IntentSteps
  <2>2. CASE GivesUp(r) \/ Enqueue(r)
    <3>1. Leaves(r, "refused", None) \/ Leaves(r, "done", r)
      BY <1>0, <2>2, SaveMoves
    <3> QED BY <1>h, <2>1, <3>1 DEF Leaves, Moves
  <2>3. CASE LookForObject(r) \/ PutObject(r) \/ CreateFile(r) \/ CreateDocument(r) \/ CreateIngestion(r)
    <3>1. requests[r].at \in Holding
      BY <2>3 DEF LookForObject, PutObject, CreateFile, CreateDocument, CreateIngestion, At, Holding
    <3>2. requests'[r].at # "reclaim"
      BY <1>0, <2>3, SaveMoves DEF Passes, Moves
    <3> QED BY <2>1, <3>1, <3>2
  <2>4. CASE Dedupe(r) \/ Converge(r)
    BY <1>0, <2>4 DEF Dedupe, Converge, At, Paths
  <2>5. CASE DeleteIngestion(r) \/ TrashDocument(r) \/ DropFile(r) \/ LookForReferences(r) \/ RemoveObject(r)
    <3>1. \/ \E to \in {"trash", "drop", "look", "remove"} : Passes(r, to)
          \/ \E d \in Requests \cup {None} : Leaves(r, "refused", d) \/ Leaves(r, "done", d)
      BY <1>0, <2>5, UnwindMoves DEF Shapes, RequestRecord
    <3> QED BY <1>h, <2>1, <3>1 DEF Passes, Leaves, Moves
  <2> QED BY <1>7, <2>2, <2>3, <2>4, <2>5 DEF Save, Unwind
<1> QED BY <1>1, <1>2, <1>3, <1>4, <1>5, <1>6, <1>7

LEMMA ClaimsBySave ==
    ASSUME Base, Claims, ~SlowSaves, NEW r \in Requests, Save(r) \/ Unwind(r)
    PROVE  Claims'
<1>0. /\ Shapes /\ Paths /\ Base'
      /\ \A q \in Requests : q # r => requests'[q] = requests[q]
      /\ \A q \in Requests : Key[q] # None => Key[q] \in Keys
  BY BaseStep, OthersStay, SaveAssumption DEF Base, Next
<1>1. \A q \in Requests : /\ requests[q].at = "reclaim" => Key[q] # None /\ intents[Key[q]] # None
                          /\ requests'[q].at = "reclaim" => Key[q] # None
  BY <1>0 DEF Base, Paths
<1>n. /\ \A q \in Requests : requests[q].seen \in Nat
      /\ \A q \in Requests : Key[q] # None /\ intents[Key[q]] # None => intents[Key[q]].stamp \in Nat
  BY <1>0, IntentWrites DEF Shapes, RequestRecord, IntentRow
<1>h. /\ {"head", "complete", "release"} \subseteq Holding
      /\ Holding \cap {"reclaim", "enqueue", "unlist", "claim", "refused"} = {}
  BY DEF Holding
<1>2. CASE Key[r] = None
  <2>1. intents' = intents
    BY <1>0, <1>2, IntentSteps DEF Writes
  <2>2. \A q \in Requests : Key[q] # None => requests'[q] = requests[q]
    BY <1>0, <1>2
  <2> QED BY <1>1, <2>1, <2>2 DEF Claims, Holder
<1>3. CASE /\ Key[r] # None /\ intents' = intents /\ requests'[r].at # "reclaim"
           /\ requests'[r].at \in Holding => requests[r].at \in Holding
  <2>1. \A q \in Requests : /\ requests'[q].at \in Holding => requests[q].at \in Holding
                            /\ requests'[q].at = "reclaim" => requests'[q] = requests[q]
    BY <1>0, <1>3
  <2> QED BY <1>1, <1>3, <2>1 DEF Claims, Holder
<1>4. CASE /\ Key[r] # None /\ InsertPending(r) /\ intents[Key[r]] = None
           /\ requests'[r].at = "head"
  <2>1. \A q \in Requests : Key[q] = Key[r] => requests[q].at \in {"claim", "refused"}
    BY <1>0, <1>4 DEF Paths
  <2>2. intents'[Key[r]].status = "pending" /\ \A k \in Keys : k # Key[r] => intents'[k] = intents[k]
    BY <1>0, <1>4, ClaimedShape
  <2> QED BY <1>0, <1>1, <1>4, <1>h, <2>1, <2>2 DEF Claims, Holder
<1>5. CASE /\ Key[r] # None /\ intents' = intents /\ requests'[r].at = "reclaim"
           /\ requests'[r].seen = intents[Key[r]].stamp
           /\ intents[Key[r]].status = "pending" => ~Holder(Key[r])
           /\ intents[Key[r]].status # "completed" /\ FindIntent(r)
  <2>1. ~Holder(Key[r])
    <3>1. intents[Key[r]].status \in {"pending", "failed"}
      BY <1>0, <1>5, IntentWrites DEF FindIntent, Claimed, IntentRow
    <3> QED BY <1>5, <3>1 DEF Claims, Holder
  <2>2. \A q \in Requests : requests'[q].at \in Holding => requests[q].at \in Holding
    BY <1>0, <1>5, <1>h
  <2>3. intents[Key[r]] # None
    BY <1>5 DEF FindIntent, Claimed
  <2> QED BY <1>0, <1>1, <1>5, <1>n, <2>1, <2>2, <2>3 DEF Claims, Holder
<1>6. ASSUME NEW status \in {"pending", "completed", "failed"}, NEW d \in Requests \cup {None},
             Writes(r, status, d)
      PROVE  /\ Key[r] # None /\ intents[Key[r]] # None
             /\ intents'[Key[r]].status = status
             /\ intents'[Key[r]].stamp = intents[Key[r]].stamp + 1
             /\ \A k \in Keys : k # Key[r] => intents'[k] = intents[k]
             /\ \A q \in Requests : requests[q].at = "reclaim" /\ Key[q] = Key[r]
                  => requests[q].seen < intents'[Key[q]].stamp
  <2>1. /\ Key[r] # None /\ intents[Key[r]] # None
        /\ intents'[Key[r]].status = status
        /\ intents'[Key[r]].stamp = intents[Key[r]].stamp + 1
        /\ \A k \in Keys : k # Key[r] => intents'[k] = intents[k]
    BY <1>0, <1>6, WrittenShape DEF Writes
  <2> QED BY <1>n, <2>1 DEF Claims
<1>7. CASE /\ Reclaim(r) /\ Writes(r, "pending", None) /\ requests[r].at = "reclaim"
           /\ requests[r].seen = intents[Key[r]].stamp /\ intents[Key[r]].status # "completed"
           /\ requests'[r].at = "head"
  <2>1. ~Holder(Key[r])
    BY <1>7 DEF Claims
  <2>2. /\ Key[r] # None /\ intents'[Key[r]].status = "pending"
        /\ \A k \in Keys : k # Key[r] => intents'[k] = intents[k]
        /\ \A q \in Requests : requests[q].at = "reclaim" /\ Key[q] = Key[r] => requests[q].seen < intents'[Key[q]].stamp
    BY <1>6, <1>7
  <2>3. \A q \in Requests : requests'[q].at = "reclaim" => q # r
    BY <1>7
  <2>n. \A q \in Requests : Key[q] # None /\ intents'[Key[q]] # None => intents'[Key[q]].stamp \in Nat
    BY <1>0 DEF Base, Shapes, IntentRow
  <2>4. \A q \in Requests : requests'[q].at = "reclaim" => intents'[Key[q]] # None
    BY <1>0, <1>h DEF Base, Paths
  <2>5. \A q \in Requests : requests'[q].at \in Holding /\ Key[q] = Key[r] => q = r
    BY <1>0, <2>1 DEF Holder
  <2>6. \A q \in Requests : Key[q] # Key[r] => requests'[q] = requests[q]
    BY <1>0
  <2>7. \A q \in Requests : requests'[q].at = "reclaim" /\ Key[q] # Key[r] =>
          /\ requests[q].at = "reclaim" /\ requests'[q].seen = requests[q].seen
          /\ intents'[Key[q]] = intents[Key[q]]
          /\ Holder(Key[q])' => Holder(Key[q])
    BY <1>0, <1>1, <2>2, <2>6 DEF Holder
  <2>8. \A q \in Requests : requests'[q].at = "reclaim" /\ Key[q] = Key[r] =>
          requests'[q].seen < intents'[Key[q]].stamp
    BY <1>0, <2>2, <2>3
  <2>9. \A q \in Requests : requests'[q].at = "reclaim" =>
         /\ requests'[q].seen <= intents'[Key[q]].stamp
         /\ requests'[q].seen = intents'[Key[q]].stamp /\ intents'[Key[q]].status # "completed" => ~Holder(Key[q])'
    <3>1. ASSUME NEW q \in Requests, requests'[q].at = "reclaim", Key[q] = Key[r]
          PROVE  requests'[q].seen < intents'[Key[q]].stamp /\ requests'[q].seen \in Nat /\ intents'[Key[q]].stamp \in Nat
      BY <1>0, <1>1, <1>n, <2>3, <2>4, <2>8, <2>n, <3>1
    <3>2. ASSUME NEW q \in Requests, requests'[q].at = "reclaim", Key[q] # Key[r]
          PROVE  /\ requests'[q].seen <= intents'[Key[q]].stamp
                 /\ requests'[q].seen = intents'[Key[q]].stamp /\ intents'[Key[q]].status # "completed" => ~Holder(Key[q])'
      BY <2>7, <3>2 DEF Claims
    <3> QED BY <3>1, <3>2
  <2> QED BY <1>0, <2>2, <2>5, <2>6, <2>9 DEF Claims
<1>8. CASE /\ Writes(r, "completed", r) /\ requests[r].at = "complete"
           /\ requests'[r].at = "enqueue" \/ (LostReplies /\ requests'[r].at = "release")
  <2>2. /\ Key[r] # None /\ intents'[Key[r]].status = "completed"
        /\ \A k \in Keys : k # Key[r] => intents'[k] = intents[k]
        /\ \A q \in Requests : requests[q].at = "reclaim" /\ Key[q] = Key[r] => requests[q].seen < intents'[Key[q]].stamp
    BY <1>6, <1>8
  <2>3. \A q \in Requests : /\ requests'[q].at = "reclaim" => q # r
                            /\ requests'[q].at \in Holding => requests[q].at \in Holding
    BY <1>0, <1>8, <1>h
  <2>n. \A q \in Requests : Key[q] # None /\ intents'[Key[q]] # None => intents'[Key[q]].stamp \in Nat
    BY <1>0 DEF Base, Shapes, IntentRow
  <2>4. \A q \in Requests : requests'[q].at = "reclaim" => intents'[Key[q]] # None
    BY <1>0, <1>h DEF Base, Paths
  <2> QED BY <1>0, <1>1, <1>n, <2>2, <2>3, <2>4, <2>n DEF Claims, Holder
<1>9. CASE /\ Writes(r, "failed", intents[Key[r]].doc) /\ requests[r].at = "release"
           /\ requests'[r].at = "unlist"
  <2>1. intents[Key[r]].doc \in Requests \cup {None}
    BY <1>0, <1>9, IntentWrites DEF Writes, IntentRow
  <2>2. /\ Key[r] # None /\ intents'[Key[r]].status = "failed"
        /\ \A k \in Keys : k # Key[r] => intents'[k] = intents[k]
        /\ \A q \in Requests : requests[q].at = "reclaim" /\ Key[q] = Key[r] => requests[q].seen < intents'[Key[q]].stamp
    BY <1>6, <1>9, <2>1
  <2>3. \A q \in Requests : /\ requests'[q].at = "reclaim" => q # r
                            /\ requests'[q].at \in Holding => requests[q].at \in Holding
                            /\ requests'[q].at \in Holding => Key[q] # Key[r]
    BY <1>0, <1>9, <1>h, <2>2 DEF Claims
  <2>n. \A q \in Requests : Key[q] # None /\ intents'[Key[q]] # None => intents'[Key[q]].stamp \in Nat
    BY <1>0 DEF Base, Shapes, IntentRow
  <2>4. \A q \in Requests : requests'[q].at = "reclaim" => intents'[Key[q]] # None
    BY <1>0, <1>h DEF Base, Paths
  <2> QED BY <1>0, <1>1, <1>n, <2>2, <2>3, <2>4, <2>n DEF Claims, Holder
<1> QED BY <1>0, <1>2, <1>3, <1>4, <1>5, <1>7, <1>8, <1>9, ClaimSteps

LEMMA ClaimsStep ==
    ASSUME Base, Claims, ~SlowSaves, [Next]_vars
    PROVE  Claims'
<1>0. Shapes /\ Paths
  BY DEF Base
<1>1. CASE UNCHANGED vars
  BY <1>1 DEF Claims, Holder, vars, tables, numbering
<1>2. CASE LaneStep \/ ListUnfinished \/ Examine
  BY <1>0, <1>2, LaneShapes DEF Claims, Holder
<1>4. ASSUME NEW e \in Editors, SaveVersion(e)
      PROVE  Claims'
  BY <1>0, <1>4, EditorShapes DEF Claims, Holder
<1>3. CASE Crash
  <2>1. intents' = intents
    BY <1>3 DEF Crash, tables, numbering
  <2>2. \A q \in Requests : requests'[q].at \in Holding \cup {"reclaim"} => requests'[q] = requests[q]
    BY <1>0, <1>3, CrashMoves DEF Holding
  <2> QED BY <2>1, <2>2 DEF Claims, Holder
<1> QED BY <1>1, <1>2, <1>3, <1>4, ClaimsBySave, NextIs

LEMMA AlwaysClaims ==
    ASSUME ~SlowSaves
    PROVE  Spec => [](Base /\ Claims)
<1>1. Init => Claims
  <2>1. ASSUME Init, NEW r \in Requests
        PROVE  requests[r].at \in {"dedupe", "claim", "refused"}
    BY <2>1 DEF Init
  <2> QED BY <2>1 DEF Claims, Holding
<1>2. Base /\ Claims /\ [Next]_vars => Claims'
  BY ClaimsStep
<1> QED BY AlwaysBase, <1>1, <1>2, PTL DEF Spec

--------------------------------------------------------------------------------
(* Versions.                                                                  *)

\* A document points to a version there is, and so does the lane that is to set the pointer.
Numbers ==
    /\ \A d \in Requests : current[d] <= versions[d] /\ imports[d] \subseteq 1..versions[d]
    /\ \A w \in Lanes : lanes[w].at = "point" => lanes[w].number \in 1..versions[lanes[w].doc]

\* A save's revision is the document's only while the version it saw is the current one, which the
\* version it commits comes after.
Seen(e) ==
    LET save == editors[e]
    IN  /\ save.at \in {"send", "cut", "advance"} =>
             /\ save.seen <= revision[save.doc]
             /\ save.seen = revision[save.doc] => save.base = current[save.doc]
        /\ save.at = "advance" =>
             /\ save.number <= versions[save.doc]
             /\ save.seen = revision[save.doc] => save.number > current[save.doc]

Saves == \A e \in Editors : Seen(e)

\* Where the revision stands the pointer does, and neither goes back but the pointer.
Drifts ==
    /\ editors' = editors
    /\ \A d \in Requests :
         /\ revision[d] <= revision'[d] /\ versions[d] <= versions'[d]
         /\ revision'[d] = revision[d] => current'[d] = current[d]

LEMMA DriftKeepsSaves ==
    ASSUME Shapes, Shapes', Saves, Drifts
    PROVE  Saves'
<1>1. ASSUME NEW e \in Editors
      PROVE  Seen(e)'
  <2> DEFINE save == editors[e]
             d == save.doc
  <2>1. save \in EditorRecord /\ editors'[e] = save
    BY DEF Shapes, Drifts
  <2>2. CASE save.at \in {"send", "cut", "advance"}
    <3>1. d \in Requests /\ save.seen \in Nat /\ save.base \in Nat /\ save.number \in Nat
      BY <2>1, <2>2 DEF EditorRecord
    <3>2. /\ revision[d] \in Nat /\ revision'[d] \in Nat /\ versions[d] \in Nat /\ versions'[d] \in Nat
          /\ current[d] \in Nat /\ current'[d] \in Nat
      BY <3>1 DEF Shapes
    <3>3. /\ revision[d] <= revision'[d] /\ versions[d] <= versions'[d]
          /\ revision'[d] = revision[d] => current'[d] = current[d]
      BY <3>1 DEF Drifts
    <3>4. Seen(e)
      BY DEF Saves
    <3> QED BY <2>1, <2>2, <3>1, <3>2, <3>3, <3>4 DEF Seen
  <2>3. CASE save.at \notin {"send", "cut", "advance"}
    BY <2>1, <2>3 DEF Seen
  <2> QED BY <2>2, <2>3
<1> QED BY <1>1 DEF Saves

\* A document's row that turns moves to another revision.
LEMMA TurnDrifts ==
    ASSUME Shapes, NEW d \in Requests, NEW n, Turns(d, n), editors' = editors, versions' = versions
    PROVE  Drifts
<1>1. revision \in [Requests -> Nat] /\ current \in [Requests -> Nat] /\ versions \in [Requests -> Nat]
  BY DEF Shapes
<1>2. ASSUME NEW c \in Requests
      PROVE  /\ revision'[c] = IF c = d THEN revision[c] + 1 ELSE revision[c]
             /\ c # d => current'[c] = current[c]
             /\ revision[c] \in Nat /\ versions[c] \in Nat
  BY <1>1, <1>2 DEF Turns
<1> QED BY <1>2 DEF Drifts

LEMMA NumbersByLane ==
    ASSUME Shapes, Shapes', Numbers, NEW w \in Lanes, TakeJob(w) \/ Promote(w) \/ LaneFails(w)
    PROVE  /\ Numbers'
           /\ Drifts
<1>0. /\ versions \in [Requests -> Nat] /\ current \in [Requests -> Nat] /\ lanes \in [Lanes -> LaneRecord]
      /\ imports \in [Requests -> SUBSET Nat] /\ revision \in [Requests -> Nat]
      /\ \A v \in Lanes : lanes[v].at # "idle" => lanes[v].doc \in Requests /\ lanes[v].number \in Nat
  BY DEF Shapes, LaneRecord, Idle
<1>e. editors' = editors
  BY LaneShapes DEF LaneStep
<1>1. ASSUME versions' = versions, imports' = imports, current' = current,
             \A v \in Lanes : lanes'[v].at = "point" => lanes'[v] = lanes[v]
      PROVE  Numbers'
  BY <1>1 DEF Numbers
<1>d. ASSUME versions' = versions, current' = current, revision' = revision
      PROVE  Drifts
  BY <1>0, <1>d, <1>e DEF Drifts
<1>s. ASSUME NEW at, Steps(w, at), at # "point", lanes[w].at # "idle"
      PROVE  \A v \in Lanes : lanes'[v].at = "point" => lanes'[v] = lanes[v]
  <2>1. lanes[w] \in [at: LaneAt, doc: Requests, fresh: BOOLEAN, number: Nat]
    BY <1>0, <1>s DEF LaneRecord, Idle
  <2> QED BY <1>0, <1>s, <2>1 DEF Steps
<1>r. ASSUME Rests(w)
      PROVE  \A v \in Lanes : lanes'[v].at = "point" => lanes'[v] = lanes[v]
  BY <1>0, <1>r DEF Rests, Idle
<1>2. CASE TakeJob(w)
  <2>1. UNCHANGED numbering /\ \E d \in jobs : Started(w, d)
    BY <1>2 DEF TakeJob, tables
  <2>2. \A v \in Lanes : lanes'[v].at = "point" => lanes'[v] = lanes[v]
    BY <1>0, <2>1 DEF Started, Idle
  <2> QED BY <1>1, <1>d, <2>1, <2>2 DEF numbering
<1>3. CASE LaneFails(w) \/ FinishIngestion(w)
  <2>1. UNCHANGED numbering /\ Rests(w)
    BY <1>3 DEF LaneFails, FinishIngestion, tables
  <2> QED BY <1>1, <1>d, <1>r, <2>1 DEF numbering
<1>4. CASE MarkProcessing(w) \/ LookForFile(w) \/ LookForBytes(w) \/ ReadSignature(w)
  <2>1. /\ UNCHANGED numbering /\ lanes[w].at # "idle"
        /\ Rests(w) \/ \E at \in {"file", "head", "read", "cut"} : Steps(w, at)
    BY <1>4 DEF MarkProcessing, LookForFile, LookForBytes, ReadSignature, LookUp
  <2> QED BY <1>1, <1>d, <1>r, <1>s, <2>1 DEF numbering
<1>5. CASE Adopt(w)
  <2>0. UNCHANGED numbering /\ lanes[w].at = "adopt"
    BY <1>5 DEF Adopt
  <2>1. lanes[w] \in [at: LaneAt, doc: Requests, fresh: BOOLEAN, number: Nat]
    BY <1>0, <2>0 DEF LaneRecord, Idle
  <2>2. CASE 1 \in imports[lanes[w].doc]
    <3>1. lanes' = [lanes EXCEPT ![w] = [lanes[w] EXCEPT !.at = "point", !.number = 1]]
      BY <1>5, <2>2 DEF Adopt
    <3>2. lanes'[w].doc = lanes[w].doc /\ lanes'[w].number = 1 /\ lanes[w].doc \in Requests
      BY <1>0, <2>1, <3>1
    <3>3. \A v \in Lanes : v # w => lanes'[v] = lanes[v]
      BY <1>0, <3>1
    <3>4. 1 \in 1..versions[lanes[w].doc]
      BY <2>2, <3>2 DEF Numbers
    <3> QED BY <1>d, <2>0, <3>2, <3>3, <3>4 DEF Numbers, numbering
  <2>3. CASE 1 \notin imports[lanes[w].doc]
    <3>1. Steps(w, IF lanes[w].fresh THEN "mark" ELSE "file")
      BY <1>5, <2>3 DEF Adopt, Steps
    <3>2. \A v \in Lanes : lanes'[v].at = "point" => lanes'[v] = lanes[v]
      BY <1>s, <2>0, <3>1
    <3> QED BY <1>1, <1>d, <2>0, <3>2 DEF numbering
  <2> QED BY <2>2, <2>3
<1>6. CASE CutVersion(w)
  <2> DEFINE d == lanes[w].doc
             n == versions[d] + 1
  <2>1. lanes[w].at = "cut" /\ current' = current /\ revision' = revision
    BY <1>6 DEF CutVersion
  <2>r. lanes[w] \in [at: LaneAt, doc: Requests, fresh: BOOLEAN, number: Nat]
    BY <1>0, <2>1 DEF LaneRecord, Idle
  <2>2. d \in Requests /\ versions[d] \in Nat
    BY <1>0, <2>r
  <2>3. \A e \in Requests : versions'[e] = IF e = d THEN versions[d] + 1 ELSE versions[e]
    BY <1>0, <1>6, <2>2 DEF CutVersion
  <2>i. \A e \in Requests : imports'[e] = IF e = d THEN imports[e] \cup {n} ELSE imports[e]
    BY <1>0, <1>6, <2>2 DEF CutVersion
  <2>4. \A e \in Requests : versions[e] <= versions'[e] /\ versions[e] \in Nat /\ versions'[e] \in Nat /\ current[e] \in Nat
    BY <1>0, <2>2, <2>3
  <2>5. /\ lanes' = [lanes EXCEPT ![w] = [lanes[w] EXCEPT !.at = "point", !.number = n]]
    BY <1>6 DEF CutVersion
  <2>6. lanes'[w].number = n /\ lanes'[w].doc = d /\ \A v \in Lanes : v # w => lanes'[v] = lanes[v]
    BY <1>0, <2>r, <2>5
  <2>7. \A e \in Requests : current'[e] <= versions'[e]
    BY <2>1, <2>4 DEF Numbers
  <2>8. ASSUME NEW e \in Requests
        PROVE  imports'[e] \subseteq 1..versions'[e]
    <3>1. imports[e] \subseteq 1..versions[e]
      BY DEF Numbers
    <3>2. CASE e = d
      <4>1. imports'[e] = imports[e] \cup {n} /\ versions'[e] = n
        BY <2>3, <2>i, <3>2
      <4> QED BY <2>2, <3>1, <3>2, <4>1
    <3>3. CASE e # d
      <4>1. imports'[e] = imports[e] /\ versions'[e] = versions[e]
        BY <2>3, <2>i, <3>3
      <4> QED BY <3>1, <4>1
    <3> QED BY <3>2, <3>3
  <2>9. ASSUME NEW v \in Lanes, lanes'[v].at = "point"
        PROVE  lanes'[v].number \in 1..versions'[lanes'[v].doc]
    <3>1. CASE v = w
      BY <2>2, <2>3, <2>6, <3>1
    <3>2. CASE v # w
      BY <1>0, <2>4, <2>6, <2>9, <3>2 DEF Numbers
    <3> QED BY <3>1, <3>2
  <2>10. Drifts
    BY <1>0, <1>e, <2>1, <2>4 DEF Drifts
  <2> QED BY <2>7, <2>8, <2>9, <2>10 DEF Numbers
<1>7. CASE PointDocument(w)
  <2> DEFINE d == lanes[w].doc
  <2>1. lanes[w].at = "point" /\ UNCHANGED <<versions, imports>> /\ Steps(w, "finish")
    BY <1>7 DEF PointDocument
  <2>2. lanes[w].number \in 1..versions[d] /\ d \in Requests /\ versions[d] \in Nat
    BY <1>0, <2>1 DEF Numbers
  <2>3. \A v \in Lanes : lanes'[v].at = "point" => lanes'[v] = lanes[v]
    BY <1>s, <2>1
  <2>4. CASE Turns(d, lanes[w].number)
    <3>1. \A e \in Requests : current'[e] = IF e = d THEN lanes[w].number ELSE current[e]
      BY <1>0, <2>4 DEF Turns
    <3>2. \A e \in Requests : current'[e] <= versions[e]
      BY <2>2, <3>1 DEF Numbers
    <3>3. Drifts
      BY <1>e, <2>1, <2>2, <2>4, TurnDrifts
    <3> QED BY <2>1, <2>3, <3>2, <3>3 DEF Numbers
  <2>5. CASE UNCHANGED <<current, revision>>
    BY <1>1, <1>d, <2>1, <2>3, <2>5
  <2> QED BY <1>7, <2>4, <2>5 DEF PointDocument
<1> QED BY <1>2, <1>3, <1>4, <1>5, <1>6, <1>7 DEF Promote

LEMMA NumbersByEditor ==
    ASSUME Shapes, Shapes', Numbers, Saves, NEW e \in Editors, SaveVersion(e)
    PROVE  Numbers' /\ Saves'
<1> DEFINE save == editors[e]
           d == save.doc
<1>0. /\ versions \in [Requests -> Nat] /\ current \in [Requests -> Nat] /\ revision \in [Requests -> Nat]
      /\ editors \in [Editors -> EditorRecord]
      /\ \A v \in Lanes : lanes[v].at = "point" => lanes[v].doc \in Requests /\ lanes[v].number \in Nat
      /\ lanes' = lanes /\ imports' = imports
  BY EditorShapes DEF Shapes, LaneRecord, Idle
<1>1. save.at \in {"send", "cut", "advance"} =>
        save \in [at: {"send", "cut", "advance"}, doc: Requests, seen: Nat, base: Nat, number: Nat]
  BY <1>0 DEF EditorRecord
<1>2. \A c \in Editors : Seen(c)
  BY DEF Saves
<1>3. CASE ReadRevision(e)
  <2>1. PICK c \in Requests :
          editors' = [editors EXCEPT ![e] =
            [at |-> "send", doc |-> c, seen |-> revision[c], base |-> current[c], number |-> 0]]
    BY <1>3 DEF ReadRevision
  <2>2. UNCHANGED <<versions, current, revision>>
    BY <1>3 DEF ReadRevision, tables, numbering
  <2>3. Numbers'
    BY <1>0, <2>2 DEF Numbers
  <2>4. ASSUME NEW f \in Editors
        PROVE  Seen(f)'
    <3>1. CASE f = e
      BY <1>0, <2>1, <2>2, <3>1 DEF Seen
    <3>2. CASE f # e
      BY <1>0, <1>2, <2>1, <2>2, <3>2 DEF Seen
    <3> QED BY <3>1, <3>2
  <2> QED BY <2>3, <2>4 DEF Saves
<1>4. CASE AcceptVersion(e)
  <2>1. UNCHANGED <<versions, current, revision>> /\ save.at = "send"
    BY <1>4 DEF AcceptVersion, tables, numbering
  <2>2. Numbers'
    BY <1>0, <2>1 DEF Numbers
  <2>3. /\ \A f \in Editors : f # e => editors'[f] = editors[f]
        /\ editors'[e] = [at |-> "ended"] \/ editors'[e] = [save EXCEPT !.at = "cut"]
    BY <1>0, <1>4 DEF AcceptVersion, Ended
  <2>4. ASSUME NEW f \in Editors
        PROVE  Seen(f)'
    <3>1. CASE f # e
      BY <1>2, <2>1, <2>3, <3>1 DEF Seen
    <3>2. CASE f = e /\ editors'[e] = [at |-> "ended"]
      BY <3>2 DEF Seen
    <3>3. CASE f = e /\ editors'[e] = [save EXCEPT !.at = "cut"]
      BY <1>1, <1>2, <2>1, <3>3 DEF Seen
    <3> QED BY <2>3, <3>1, <3>2, <3>3
  <2> QED BY <2>2, <2>4 DEF Saves
<1>5. CASE CommitVersion(e)
  <2>1. /\ save.at = "cut" /\ UNCHANGED <<current, revision>>
        /\ versions' = [versions EXCEPT ![d] = @ + 1]
        /\ editors' = [editors EXCEPT ![e] = [save EXCEPT !.at = "advance", !.number = versions[d] + 1]]
    BY <1>5 DEF CommitVersion
  <2>2. /\ save \in [at: {"send", "cut", "advance"}, doc: Requests, seen: Nat, base: Nat, number: Nat]
        /\ d \in Requests /\ versions[d] \in Nat /\ current[d] \in Nat /\ current[d] <= versions[d]
    BY <1>0, <1>1, <2>1 DEF Numbers
  <2>3. \A c \in Requests : versions'[c] = IF c = d THEN versions[d] + 1 ELSE versions[c]
    BY <1>0, <2>1, <2>2
  <2>4. \A c \in Requests : versions[c] <= versions'[c] /\ versions[c] \in Nat /\ versions'[c] \in Nat
                            /\ current[c] \in Nat
    BY <1>0, <2>2, <2>3
  <2>5. Numbers'
    <3>1. ASSUME NEW c \in Requests
          PROVE  current'[c] <= versions'[c] /\ imports'[c] \subseteq 1..versions'[c]
      <4>1. current[c] <= versions[c] /\ imports[c] \subseteq 1..versions[c]
        BY DEF Numbers
      <4> QED BY <1>0, <2>1, <2>4, <4>1
    <3>2. ASSUME NEW w \in Lanes, lanes[w].at = "point"
          PROVE  lanes[w].number \in 1..versions'[lanes[w].doc]
      BY <1>0, <2>4, <3>2 DEF Numbers
    <3> QED BY <1>0, <3>1, <3>2 DEF Numbers
  <2>6. ASSUME NEW f \in Editors
        PROVE  Seen(f)'
    <3>1. CASE f = e
      <4>1. /\ editors'[e].at = "advance" /\ editors'[e].doc = d /\ editors'[e].seen = save.seen
            /\ editors'[e].base = save.base /\ editors'[e].number = versions[d] + 1
        BY <1>0, <2>1, <2>2
      <4>2. Seen(e)
        BY <1>2
      <4> QED BY <2>1, <2>2, <2>3, <3>1, <4>1, <4>2 DEF Seen
    <3>2. CASE f # e
      <4>1. editors'[f] = editors[f]
        BY <1>0, <2>1, <3>2
      <4>2. editors[f].at = "advance" => editors[f].doc \in Requests /\ editors[f].number \in Nat
        BY <1>0 DEF EditorRecord
      <4>3. UNCHANGED <<current, revision>>
        BY <2>1
      <4> QED BY <1>2, <2>4, <4>1, <4>2, <4>3 DEF Seen
    <3> QED BY <3>1, <3>2
  <2> QED BY <2>5, <2>6 DEF Saves
<1>6. CASE AdvanceDocument(e)
  <2>1. /\ save.at = "advance" /\ editors' = Ended(e) /\ versions' = versions
        /\ (save.seen = revision[d] /\ Turns(d, save.number)) \/ UNCHANGED <<current, revision>>
    BY <1>6 DEF AdvanceDocument, Advances
  <2>2. d \in Requests /\ save.number \in Nat /\ save.number <= versions[d]
    BY <1>1, <1>2, <2>1 DEF Seen
  <2>3. editors'[e] = [at |-> "ended"] /\ \A f \in Editors : f # e => editors'[f] = editors[f]
    BY <1>0, <2>1 DEF Ended
  <2>4. CASE UNCHANGED <<current, revision>>
    <3>1. \A f \in Editors : Seen(f)'
      BY <1>2, <2>1, <2>3, <2>4 DEF Seen
    <3> QED BY <1>0, <2>1, <2>4, <3>1 DEF Numbers, Saves
  <2>5. CASE Turns(d, save.number)
    <3>1. \A c \in Requests : /\ current'[c] = IF c = d THEN save.number ELSE current[c]
                              /\ revision'[c] = IF c = d THEN revision[c] + 1 ELSE revision[c]
                              /\ revision[c] \in Nat
      BY <1>0, <2>2, <2>5 DEF Turns
    <3>2. Numbers'
      BY <1>0, <2>1, <2>2, <3>1 DEF Numbers
    <3>3. ASSUME NEW f \in Editors
          PROVE  Seen(f)'
      <4>1. CASE f = e
        BY <2>3, <4>1 DEF Seen
      <4>2. CASE f # e
        <5>1. editors'[f] = editors[f]
          BY <2>3, <4>2
        <5>2. editors[f].at \in {"send", "cut", "advance"} => editors[f].doc \in Requests /\ editors[f].seen \in Nat
          BY <1>0 DEF EditorRecord
        <5> QED BY <1>2, <2>1, <3>1, <5>1, <5>2 DEF Seen
      <4> QED BY <4>1, <4>2
    <3> QED BY <3>2, <3>3 DEF Saves
  <2> QED BY <2>1, <2>4, <2>5
<1> QED BY <1>3, <1>4, <1>5, <1>6 DEF SaveVersion

LEMMA NumbersStep ==
    ASSUME Base, Base', Numbers, Saves, [Next]_vars
    PROVE  Numbers' /\ Saves'
<1>0. Shapes /\ Shapes' /\ Paths /\ revision \in [Requests -> Nat] /\ versions \in [Requests -> Nat]
  BY DEF Base, Shapes
<1>d. ASSUME editors' = editors, UNCHANGED numbering
      PROVE  Saves'
  <2>1. Drifts
    BY <1>0, <1>d DEF Drifts, numbering
  <2> QED BY <1>0, <2>1, DriftKeepsSaves
<1>1. CASE UNCHANGED vars
  BY <1>1 DEF Numbers, Saves, Seen, vars, tables, numbering
<1>2. ASSUME NEW r \in Requests, Save(r) \/ Unwind(r)
      PROVE  Numbers' /\ Saves'
  <2>1. /\ UNCHANGED <<versions, imports, current, lanes, editors>>
        /\ revision' = revision \/ revision' = [revision EXCEPT ![r] = IF docs[r] = "live" THEN @ + 1 ELSE @]
    BY <1>2, RowSteps
  <2>2. Drifts
    BY <1>0, <2>1 DEF Drifts
  <2> QED BY <1>0, <2>1, <2>2, DriftKeepsSaves DEF Numbers
<1>3. CASE LaneStep
  BY <1>0, <1>3, NumbersByLane, DriftKeepsSaves DEF LaneStep
<1>4. CASE ListUnfinished
  BY <1>d, <1>4 DEF ListUnfinished, Numbers, tables, numbering
<1>5. CASE Examine
  <2>1. UNCHANGED <<numbering, editors>> /\ \E d \in sweep : Started(Sweeper, d)
    BY <1>5 DEF Examine, tables
  <2>2. \A v \in Lanes : lanes'[v].at = "point" => lanes'[v] = lanes[v]
    BY <1>0, <2>1, SaveAssumption DEF Shapes, Started, Idle, Lanes
  <2>3. Numbers'
    BY <2>1, <2>2 DEF Numbers, numbering
  <2> QED BY <1>d, <2>1, <2>3
<1>6. CASE Crash
  <2>1. UNCHANGED numbering /\ \A v \in Lanes : lanes'[v] = Idle
    BY <1>6 DEF Crash, tables
  <2>2. \A e \in Editors : editors'[e] = editors[e] \/ editors'[e] = [at |-> "ended"]
    BY <1>6 DEF Crash
  <2>3. Numbers'
    BY <2>1 DEF Numbers, Idle, numbering
  <2>4. ASSUME NEW e \in Editors
        PROVE  Seen(e)'
    BY <2>1, <2>2 DEF Saves, Seen, numbering
  <2> QED BY <2>3, <2>4 DEF Saves
<1>7. ASSUME NEW e \in Editors, SaveVersion(e)
      PROVE  Numbers' /\ Saves'
  BY <1>0, <1>7, NumbersByEditor
<1> QED BY <1>1, <1>2, <1>3, <1>4, <1>5, <1>6, <1>7, NextIs

LEMMA AlwaysNumbers == Spec => [](Base /\ Numbers /\ Saves)
<1>1. Init => Numbers /\ Saves
  BY DEF Init, Numbers, Saves, Seen, Idle
<1>2. Base /\ Base' /\ Numbers /\ Saves /\ [Next]_vars => Numbers' /\ Saves'
  BY NumbersStep
<1> QED BY AlwaysBase, <1>1, <1>2, PTL DEF Spec

\* Every variable keeps its type, whatever fails, lasts or dies: in particular no answer names a row
\* that was never made, no document points beyond its versions, and while no live save outlasts the
\* claim one request at most works for an intention.
THEOREM Typing == Spec => []TypeOK
<1>1. ASSUME Base, Rows, Numbers, SlowSaves \/ Claims
      PROVE  TypeOK
  <2>1. \A k \in Keys : intents[k] # None =>
           /\ intents[k].status \in {"pending", "completed", "failed"} /\ intents[k].doc \in Requests \cup {None}
           /\ intents[k].status = "completed" => intents[k].doc # None
    <3>1. ASSUME NEW k \in Keys, intents[k] # None
          PROVE  intents[k] \in IntentRow
      BY <1>1, <3>1 DEF Base, Shapes
    <3> QED BY <1>1, <3>1 DEF Base, Paths, IntentRow
  <2>2. object \in BOOLEAN /\ files \cup jobs \cup pulled \subseteq Requests /\ faults \in 0..MaxFaults
    BY <1>1 DEF Base, Shapes
  <2>3. ASSUME NEW r \in Requests
        PROVE  /\ docs[r] \in {"none", "live", "trashed"} /\ current[r] \in 0..versions[r]
               /\ ingestions[r] \in {"none", "pending", "processing", "complete", "failed"}
               /\ Answered(r) => docs[requests[r].answer] # "none"
    BY <1>1, <2>3 DEF Base, Shapes, Paths, Rows, Made, Numbers, IngestionStatus, Answered, At
  <2>4. ~SlowSaves => \A q, r \in Requests :
         Key[q] = Key[r] /\ Key[q] # None /\ {requests[q].at, requests[r].at} \subseteq Holding => q = r
    BY <1>1 DEF Claims
  <2> QED BY <2>1, <2>2, <2>3, <2>4 DEF TypeOK
<1>2. CASE SlowSaves
  BY <1>1, <1>2, AlwaysRows, AlwaysNumbers, PTL
<1>3. CASE ~SlowSaves
  BY <1>1, <1>3, AlwaysRows, AlwaysNumbers, AlwaysClaims, PTL
<1> QED BY <1>2, <1>3

--------------------------------------------------------------------------------
(* One document per intention, while no live save outlasts its claim and a    *)
(* write that is reported as failed has not landed.                           *)

\* A completed intention names a document of its own, made and never to be unwound.
Fulfilled(k, d) ==
    /\ d \in Requests /\ Key[d] = k /\ requests[d].at \in {"enqueue", "done", "refused"}
    /\ docs[d] = "live" /\ ingestions[d] # "none" /\ d \in files

Intentions ==
    /\ \A r \in Requests : Key[r] # None =>
         /\ requests[r].at \in Holding => intents[Key[r]].status = "pending"
         /\ requests[r].at = "enqueue" => intents[Key[r]].status = "completed" /\ intents[Key[r]].doc = r
         /\ requests[r].at = "done" =>
              intents[Key[r]].status = "completed" /\ intents[Key[r]].doc = requests[r].answer
         /\ requests[r].at \in Holding \cup {"reclaim", "enqueue", "done"} =>
              intents[Key[r]].meaning = Meaning[r]
    /\ \A k \in Keys : intents[k] # None /\ intents[k].status = "completed" => Fulfilled(k, intents[k].doc)

\* A fulfilled document's rows are out of every rollback's reach.
LEMMA FulfilledStays ==
    ASSUME Base, NEW r \in Requests, Save(r) \/ Unwind(r), NEW k \in Keys, NEW d, Fulfilled(k, d)
    PROVE  Fulfilled(k, d)'
<1>0. Shapes /\ Paths /\ d \in Requests /\ Key[d] # None
  BY SaveAssumption DEF Base, Fulfilled
<1>1. CASE d # r
  BY <1>0, <1>1, OtherRows, OthersStay DEF Fulfilled
<1>2. CASE d = r
  <2>1. requests[r].at = "enqueue"
    BY <1>0, <1>2 DEF Fulfilled, Save, Unwind, Dedupe, InsertPending, FindIntent, GivesUp, Reclaim, LookForObject,
         PutObject, CreateFile, CreateDocument, CreateIngestion, CompleteIntent, Enqueue, RequestFails, Converge,
         FailIntent, DeleteIngestion, TrashDocument, DropFile, LookForReferences, RemoveObject, At
  <2>2. Enqueue(r)
    BY <2>1 DEF Save, Unwind, Dedupe, InsertPending, FindIntent, GivesUp, Reclaim, LookForObject,
         PutObject, CreateFile, CreateDocument, CreateIngestion, CompleteIntent, RequestFails, Converge,
         FailIntent, DeleteIngestion, TrashDocument, DropFile, LookForReferences, RemoveObject, At
  <2>3. requests'[r].at = "done" /\ UNCHANGED <<docs, ingestions, files>>
    BY <1>0, <2>2, SaveMoves DEF Enqueue, tables, numbering, Leaves, Moves
  <2> QED BY <1>2, <2>3 DEF Fulfilled
<1> QED BY <1>1, <1>2

LEMMA IntentionsBySave ==
    ASSUME Base, Rows, Claims, Intentions, ~SlowSaves, ~LostReplies, NEW r \in Requests, Save(r) \/ Unwind(r)
    PROVE  Intentions'
<1> DEFINE Word(q) ==
      Key[q] # None =>
         /\ requests[q].at \in Holding => intents[Key[q]].status = "pending"
         /\ requests[q].at = "enqueue" => intents[Key[q]].status = "completed" /\ intents[Key[q]].doc = q
         /\ requests[q].at = "done" =>
              intents[Key[q]].status = "completed" /\ intents[Key[q]].doc = requests[q].answer
         /\ requests[q].at \in Holding \cup {"reclaim", "enqueue", "done"} =>
              intents[Key[q]].meaning = Meaning[q]
           Apt(k) == intents[k] # None /\ intents[k].status = "completed" => Fulfilled(k, intents[k].doc)
<1>0. /\ Shapes /\ Paths /\ \A q \in Requests : Word(q)
      /\ \A q \in Requests : q # r => requests'[q] = requests[q]
      /\ \A q \in Requests : Key[q] # None => Key[q] \in Keys
      /\ \A k \in Keys : Apt(k)
  BY OthersStay, SaveAssumption DEF Base, Intentions
<1>h. /\ {"head", "complete", "release"} \subseteq Holding
      /\ Holding \cap {"reclaim", "enqueue", "done", "unlist", "claim", "refused"} = {}
  BY DEF Holding
<1>q. ASSUME \A q \in Requests : Word(q)',
             \A k \in Keys : Apt(k)'
      PROVE  Intentions'
  BY <1>q DEF Intentions
<1>k. ASSUME NEW k \in Keys, intents'[k] = intents[k]
      PROVE  Apt(k)'
  BY <1>0, <1>k, FulfilledStays
<1>1. ASSUME intents' = intents
      PROVE  \A k \in Keys : Apt(k)'
  BY <1>1, <1>k
<1>2. CASE Key[r] = None
  <2>1. intents' = intents
    BY <1>0, <1>2, IntentSteps DEF Writes
  <2>2. \A q \in Requests : Word(q)'
    BY <1>0, <1>2, <2>1
  <2> QED BY <1>1, <1>q, <2>1, <2>2
<1>3. ASSUME Key[r] # None, intents' = intents, Word(r)'
      PROVE  Intentions'
  <2>1. \A q \in Requests : Word(q)'
    BY <1>0, <1>3
  <2> QED BY <1>1, <1>3, <1>q, <2>1
<1>4. CASE Key[r] # None /\ (Dedupe(r) \/ Converge(r))
  BY <1>0, <1>4 DEF Dedupe, Converge, At, Paths
<1>5. CASE Key[r] # None /\ InsertPending(r)
  <2>1. intents[Key[r]] = None
    BY <1>5 DEF InsertPending, Claimed
  <2>2. \A q \in Requests : q # r /\ Key[q] = Key[r] => requests'[q].at \in {"claim", "refused"}
    BY <1>0, <1>5, <2>1 DEF Paths
  <2>3. /\ intents'[Key[r]].status = "pending" /\ intents'[Key[r]].meaning = Meaning[r]
        /\ \A k \in Keys : k # Key[r] => intents'[k] = intents[k]
    BY <1>0, <1>5, ClaimedShape
  <2>4. requests'[r].at = "head"
    BY <1>0, <1>5, SaveMoves DEF Passes, Moves
  <2>5. \A q \in Requests : Word(q)'
    BY <1>0, <1>h, <2>2, <2>3, <2>4
  <2>6. \A k \in Keys : Apt(k)'
    BY <1>k, <2>3
  <2> QED BY <1>q, <2>5, <2>6
<1>6. CASE Key[r] # None /\ FindIntent(r)
  <2>1. intents' = intents
    BY <1>6 DEF FindIntent, tables, numbering
  <2>2. CASE Leaves(r, "refused", None)
    BY <1>3, <1>6, <1>h, <2>1, <2>2 DEF Leaves, Moves, Holding
  <2>3. CASE /\ intents[Key[r]].status = "completed" /\ sameMeaning(intents[Key[r]], r)
             /\ Leaves(r, "done", intents[Key[r]].doc)
    BY <1>3, <1>6, <1>h, <2>1, <2>3 DEF Leaves, Moves, sameMeaning
  <2>4. CASE /\ sameMeaning(intents[Key[r]], r)
             /\ Moves(r, "reclaim", intents[Key[r]].stamp, requests[r].put, requests[r].answer)
    BY <1>3, <1>6, <1>h, <2>1, <2>4 DEF Moves, sameMeaning
  <2> QED BY <1>0, <1>6, <2>2, <2>3, <2>4, SaveMoves
\* A row that is not completed and is written so or otherwise belongs to nobody who was answered.
<1>7. ASSUME NEW status \in {"pending", "completed", "failed"}, NEW d \in Requests \cup {None},
             Writes(r, status, d), intents[Key[r]].status # "completed",
             \A q \in Requests : q # r /\ Key[q] = Key[r] => requests[q].at \notin Holding,
             Word(r)', status = "completed" => Fulfilled(Key[r], d)'
      PROVE  Intentions'
  <2>1. /\ Key[r] # None /\ intents'[Key[r]].status = status /\ intents'[Key[r]].doc = d
        /\ intents'[Key[r]].meaning = intents[Key[r]].meaning
        /\ \A k \in Keys : k # Key[r] => intents'[k] = intents[k]
    BY <1>0, <1>7, WrittenShape DEF Writes
  <2>2. \A q \in Requests : Word(q)'
    BY <1>0, <1>7, <2>1
  <2>3. \A k \in Keys : Apt(k)'
    BY <1>k, <1>7, <2>1
  <2> QED BY <1>q, <2>2, <2>3
<1>8. CASE Key[r] # None /\ Writes(r, "pending", None) /\ Reclaim(r) /\ Reclaims(intents[Key[r]], r)
  <2>1. intents[Key[r]].status # "completed" /\ requests[r].at = "reclaim" /\ requests[r].seen = intents[Key[r]].stamp
    BY <1>8 DEF Reclaims, Reclaim, At
  <2>2. ~Holder(Key[r])
    BY <2>1 DEF Claims
  <2>3. /\ intents'[Key[r]].status = "pending" /\ intents'[Key[r]].meaning = Meaning[r]
    BY <1>0, <1>8, <2>1, WrittenShape DEF Writes
  <2>4. requests'[r].at = "head" \/ requests'[r].at = "claim"
    BY <1>0, <1>8, SaveMoves DEF Passes, Moves
  <2> QED BY <1>7, <1>8, <1>h, <2>1, <2>2, <2>3, <2>4 DEF Holder
<1>9. CASE Key[r] # None /\ Writes(r, "completed", r) /\ At(r, "complete") /\ CompleteIntent(r)
  <2>1. requests[r].at = "complete" /\ requests[r].at \in Holding
    BY <1>9, <1>h DEF At
  <2>2. intents[Key[r]].status = "pending" /\ intents[Key[r]].meaning = Meaning[r]
    BY <1>0, <1>9, <2>1
  <2>3. \A q \in Requests : q # r /\ Key[q] = Key[r] => requests[q].at \notin Holding
    BY <1>9, <2>1 DEF Claims
  <2>4. requests'[r].at = "enqueue" /\ UNCHANGED <<docs, ingestions, files>>
    BY <1>0, <1>9, SaveMoves DEF CompleteIntent, Passes, Moves
  <2>5. Fulfilled(Key[r], r)'
    BY <2>1, <2>4 DEF Fulfilled, Rows, Made
  <2>6. intents'[Key[r]].status = "completed" /\ intents'[Key[r]].doc = r /\ intents'[Key[r]].meaning = Meaning[r]
    BY <1>0, <1>9, <2>2, WrittenShape DEF Writes
  <2> QED BY <1>7, <1>9, <1>h, <2>2, <2>3, <2>4, <2>5, <2>6
<1>10. CASE Key[r] # None /\ Writes(r, "failed", intents[Key[r]].doc) /\ FailIntent(r)
  <2>1. requests[r].at = "release" /\ requests[r].at \in Holding
    BY <1>10, <1>h DEF FailIntent, At
  <2>2. intents[Key[r]].status = "pending"
    BY <1>0, <1>10, <2>1
  <2>3. \A q \in Requests : q # r /\ Key[q] = Key[r] => requests[q].at \notin Holding
    BY <1>10, <2>1 DEF Claims
  <2>4. requests'[r].at = "unlist"
    BY <1>0, <1>10, UnwindMoves DEF Passes, Moves
  <2>5. intents[Key[r]].doc \in Requests \cup {None}
    BY <1>0, <1>10, IntentWrites DEF Writes, IntentRow
  <2> QED BY <1>7, <1>10, <1>h, <2>2, <2>3, <2>4, <2>5
<1>11. CASE Key[r] # None /\ intents' = intents /\ ~Dedupe(r) /\ ~Converge(r) /\ ~FindIntent(r)
  <2>1. CASE Enqueue(r)
    <3>1. requests[r].at = "enqueue" /\ requests'[r].at = "done" /\ requests'[r].answer = r
      BY <1>0, <2>1, SaveMoves DEF Enqueue, At, Leaves, Moves
    <3> QED BY <1>0, <1>3, <1>11, <1>h, <3>1
  <2>2. CASE GivesUp(r)
    <3>1. requests'[r].at = "refused"
      BY <1>0, <2>2, SaveMoves DEF Leaves, Moves
    <3> QED BY <1>3, <1>11, <3>1 DEF Holding
  <2>3. CASE Reclaim(r)
    <3>1. CASE Reclaims(intents[Key[r]], r)
      BY <1>0, <1>8, <1>11, <2>3, <3>1 DEF Reclaim, At, Paths, Writes
    <3>2. CASE ~Reclaims(intents[Key[r]], r)
      BY <1>0, <1>3, <1>11, <1>h, <2>3, <3>2, SaveMoves DEF Passes, Moves
    <3> QED BY <3>1, <3>2
  <2>4. CASE LookForObject(r) \/ PutObject(r) \/ CreateFile(r) \/ CreateDocument(r) \/ CreateIngestion(r)
    <3>1. requests[r].at \in Holding
      BY <2>4 DEF LookForObject, PutObject, CreateFile, CreateDocument, CreateIngestion, At, Holding
    <3>2. requests'[r].at \in Holding
      BY <1>0, <1>11, <2>4, SaveMoves DEF Passes, Moves, Holding
    <3> QED BY <1>0, <1>3, <1>11, <1>h, <3>1, <3>2
  <2>5. CASE RequestFails(r)
    <3>1. \/ requests'[r].at = "refused"
          \/ requests[r].at \in {"file", "document", "ingestion", "complete"} /\ requests'[r].at = "release"
      BY <1>0, <1>11, <2>5, SaveMoves DEF Passes, Leaves, Moves
    <3>2. requests[r].at \in {"file", "document", "ingestion", "complete"} => requests[r].at \in Holding
      BY DEF Holding
    <3>3. "refused" \notin Holding
      BY DEF Holding
    <3> QED BY <1>0, <1>3, <1>11, <1>h, <3>1, <3>2, <3>3
  <2>6. CASE Unwind(r)
    <3>1. \/ \E to \in {"unlist", "trash", "drop", "look", "remove"} : Passes(r, to)
          \/ Leaves(r, "refused", None)
          \/ requests[r].answer # None /\ requests[r].at \in {"look", "remove"}
      BY <1>0, <1>11, <2>6, UnwindMoves DEF Unwind, LookForReferences, RemoveObject, At
    <3>2. ~(requests[r].answer # None /\ requests[r].at \in {"look", "remove"})
      BY <1>0, <1>11 DEF Paths
    <3>3. requests'[r].at \in {"unlist", "trash", "drop", "look", "remove", "refused"}
      BY <3>1, <3>2 DEF Passes, Leaves, Moves
    <3>4. requests'[r].at \notin Holding \cup {"reclaim", "enqueue", "done"}
      BY <3>3 DEF Holding
    <3> QED BY <1>3, <1>11, <3>3, <3>4
  <2>7. CASE InsertPending(r)
    BY <1>5, <1>11, <2>7
  <2>8. CASE CompleteIntent(r)
    BY <1>0, <1>9, <1>11, <2>8 DEF CompleteIntent, At, Paths, Writes
  <2> QED BY <1>11, <2>1, <2>2, <2>3, <2>4, <2>5, <2>6, <2>7, <2>8 DEF Save
<1> QED BY <1>0, <1>2, <1>4, <1>5, <1>6, <1>8, <1>9, <1>10, <1>11, IntentSteps

LEMMA IntentionsStep ==
    ASSUME Base, Rows, Claims, Intentions, ~SlowSaves, ~LostReplies, [Next]_vars
    PROVE  Intentions'
<1>0. Shapes /\ Paths
  BY DEF Base
<1>1. CASE UNCHANGED vars
  BY <1>1 DEF Intentions, Fulfilled, vars, tables, numbering
<1>2. CASE LaneStep \/ ListUnfinished \/ Examine
  <2>1. UNCHANGED <<intents, files, docs, requests>>
    BY <1>0, <1>2, LaneShapes
  <2>2. \A d \in Requests : ingestions[d] # "none" => ingestions'[d] # "none"
    BY <1>0, <1>2, LaneRows
  <2> QED BY <2>1, <2>2 DEF Intentions, Fulfilled
<1>3. CASE Crash
  <2>1. UNCHANGED <<intents, files, docs, ingestions>>
    BY <1>3 DEF Crash, tables, numbering
  <2>2. \A q \in Requests : requests'[q] = requests[q] \/ requests'[q].at = "refused"
    BY <1>0, <1>3, CrashMoves
  <2>3. \A k \in Keys : \A d : Fulfilled(k, d) => Fulfilled(k, d)'
    BY <2>1, <2>2 DEF Fulfilled
  <2>4. \A k \in Keys : intents'[k] # None /\ intents'[k].status = "completed" => Fulfilled(k, intents[k].doc)'
    BY <2>1, <2>3 DEF Intentions
  <2>5. "refused" \notin Holding \cup {"reclaim", "enqueue", "done"}
    BY DEF Holding
  <2> QED BY <2>1, <2>2, <2>4, <2>5 DEF Intentions
<1>4. ASSUME NEW e \in Editors, SaveVersion(e)
      PROVE  Intentions'
  BY <1>0, <1>4, EditorShapes DEF Intentions, Fulfilled
<1> QED BY <1>1, <1>2, <1>3, <1>4, IntentionsBySave, NextIs

LEMMA AlwaysIntentions ==
    ASSUME ~SlowSaves, ~LostReplies
    PROVE  Spec => []Intentions
<1>1. Init => Intentions
  <2>1. ASSUME Init, NEW r \in Requests
        PROVE  requests[r].at \in {"dedupe", "claim", "refused"}
    BY <2>1 DEF Init
  <2>2. ASSUME Init, NEW k \in Keys
        PROVE  intents[k] = None
    BY <2>2 DEF Init
  <2> QED BY <2>1, <2>2 DEF Intentions, Holding
<1>2. Base /\ Rows /\ Claims /\ Intentions /\ [Next]_vars => Intentions'
  BY IntentionsStep
<1> QED BY AlwaysRows, AlwaysClaims, <1>1, <1>2, PTL DEF Spec

--------------------------------------------------------------------------------
(* What a save promises.                                                      *)

\* All answers to one intention name one document, saved as that intention said, for any number of
\* requests and faults: while no live save outlasts staleClaimMs and no write lands that is reported
\* as failed.
THEOREM OneDocument ==
    ASSUME ~SlowSaves, ~LostReplies
    PROVE  Spec => []OneDocumentPerIntention
<1>1. Intentions => OneDocumentPerIntention
  BY DEF Intentions, OneDocumentPerIntention, Answered, At
<1> QED BY <1>1, AlwaysIntentions, PTL

\* Under the same conditions no rollback, its own or another's, unwinds the document an intention
\* was answered with: the document, its ingestion and its file row stay.
THEOREM AnswersAreKept ==
    ASSUME ~SlowSaves, ~LostReplies
    PROVE  Spec => []AnsweredIsKept
<1>1. ASSUME Base, Intentions, NEW r \in Requests, Answered(r), Key[r] # None
      PROVE  Fulfilled(Key[r], requests[r].answer)
  <2>1. Key[r] \in Keys /\ intents[Key[r]] # None
    BY <1>1, SaveAssumption DEF Base, Paths, Answered, At
  <2> QED BY <1>1, <2>1 DEF Intentions, Answered, At
<1>2. Base /\ Intentions => AnsweredIsKept
  BY <1>1 DEF AnsweredIsKept, Fulfilled
<1> QED BY <1>2, AlwaysBase, AlwaysIntentions, PTL

\* Nor are its bytes removed from under it, unless its request found them there just when a rollback
\* was removing them, and its ingestion fails for no reason but a read of those bytes that failed.
THEOREM BytesStay ==
    ASSUME ~SlowSaves, ~LostReplies
    PROVE  Spec => []BytesAreKept
<1>1. AnsweredIsKept /\ Bytes /\ Base => BytesAreKept
  <2>1. ASSUME AnsweredIsKept, Bytes, Base, NEW r \in Requests, Answered(r), Key[r] # None
        PROVE  LET d == requests[r].answer IN d \in pulled \/ (object /\ (ingestions[d] = "failed" => d \in misread))
    <3>1. requests[r].answer \in files /\ files \subseteq Requests
      BY <2>1 DEF AnsweredIsKept, Base, Shapes
    <3> QED BY <2>1, <3>1 DEF Bytes
  <2> QED BY <2>1 DEF BytesAreKept
<1> QED BY <1>1, AnswersAreKept, AlwaysBytes, AlwaysBase, PTL

\* For any number of lanes, late deliveries, editors and rollbacks, a document that has a current
\* version turns only to a later one, and only by a save or a restore that saw the version it
\* replaces.  The revision a save brings is the document's only while that version is current.
THEOREM TurnsAreSeen == Spec => ReplacesWhatItSaw
<1> DEFINE Replaced(d) ==
             /\ current'[d] > current[d]
             /\ \E e \in Editors : /\ editors[e].at = "advance" /\ editors[e].doc = d
                                  /\ editors[e].base = current[d] /\ editors[e].number = current'[d]
<1>1. ASSUME Base, Saves, [Next]_vars, NEW d \in Requests, current[d] # 0, current'[d] # current[d]
      PROVE  Replaced(d)
  <2>0. Shapes /\ current \in [Requests -> Nat]
    BY <1>1 DEF Base, Shapes
  <2>1. \/ current' = current
        \/ \E w \in Lanes : PointDocument(w)
        \/ \E e \in Editors : AdvanceDocument(e)
    <3>1. CASE UNCHANGED vars
      BY <3>1 DEF vars, tables, numbering
    <3>2. CASE \E r \in Requests : Save(r) \/ Unwind(r)
      BY <3>2, RowSteps
    <3>3. CASE LaneStep
      BY <3>3 DEF LaneStep, TakeJob, Promote, LaneFails, Adopt, MarkProcessing, LookUp, LookForFile, LookForBytes,
           ReadSignature, CutVersion, FinishIngestion, tables, numbering
    <3>4. CASE ListUnfinished \/ Examine \/ Crash
      BY <3>4 DEF ListUnfinished, Examine, Crash, tables, numbering
    <3>5. CASE \E e \in Editors : SaveVersion(e)
      BY <3>5 DEF SaveVersion, ReadRevision, AcceptVersion, CommitVersion, tables, numbering
    <3> QED BY <1>1, <3>1, <3>2, <3>3, <3>4, <3>5, NextIs
  <2>2. ASSUME NEW w \in Lanes, PointDocument(w)
        PROVE  FALSE
    <3>1. \/ current[lanes[w].doc] = 0 /\ current' = [current EXCEPT ![lanes[w].doc] = lanes[w].number]
          \/ current' = current
      BY <2>2 DEF PointDocument, Unset, Turns
    <3> QED BY <1>1, <2>0, <3>1
  <2>3. ASSUME NEW e \in Editors, AdvanceDocument(e)
        PROVE  Replaced(d)
    <3> DEFINE save == editors[e]
    <3>1. /\ save.at = "advance" /\ save.seen = revision[save.doc]
          /\ current' = [current EXCEPT ![save.doc] = save.number]
      BY <1>1, <2>3 DEF AdvanceDocument, Advances, Turns
    <3>2. save.doc = d /\ current'[d] = save.number
      BY <1>1, <2>0, <3>1
    <3>3. save.base = current[d] /\ save.number > current[d]
      BY <1>1, <3>1, <3>2 DEF Saves, Seen
    <3> QED BY <3>1, <3>2, <3>3
  <2> QED BY <1>1, <2>1, <2>2, <2>3
<1>2. Base /\ Saves /\ [Next]_vars =>
        [\A d \in Requests : current[d] # 0 /\ current'[d] # current[d] => Replaced(d)]_vars
  BY <1>1
<1> QED BY <1>2, AlwaysNumbers, PTL DEF Spec, ReplacesWhatItSaw

================================================================================
