----------------------------- MODULE WorkspaceSave -----------------------------
(***************************************************************************)
(* Saving one result into a workspace.  Each press of Save is an intention *)
(* with a key, repeated by retries; a request claims the row of its        *)
(* intention, stores the bytes under their own checksum, makes the rows,   *)
(* completes the intention and queues the ingestion that cuts the initial  *)
(* version.  A request that fails unwinds what it made.  Meanwhile editors *)
(* save and restore versions of the documents there are.  Every await is a *)
(* step; requests, the ingestion worker, the sweep at the worker's start   *)
(* and the editors' saves overlap, and the process may crash.              *)
(*                                                                         *)
(* All requests carry the same bytes.  A document, its file row, its       *)
(* ingestion and its job are named by the request that made them.  The     *)
(* updatedAt of an intention is taken to differ between two writes of it.  *)
(* Definitions named x_y are x with a plausible bug y.                     *)
(***************************************************************************)
EXTENDS Integers, FiniteSets

CONSTANTS
    Requests, Keys, None,
    Key,           \* the intention a request carries; None for one without
    Meaning,       \* what it says it saves
    Workers, Sweeper,   \* the queue's lanes, and the sweep at start
    Editors,       \* clients that save or restore a version of some document, once each
    Casts,         \* bound: the sets of requests and editors that take part together
    SlowSaves,     \* a live save may outlast staleClaimMs
    LostReplies,   \* a write may land and be reported as failed
    MaxFaults      \* bound: what goes wrong

IntentRow == [status: {"pending", "completed", "failed"}, doc: Requests \cup {None},
              meaning: {Meaning[r] : r \in Requests}, stamp: Nat]

ASSUME SaveAssumption ==
    /\ Key \in [Requests -> Keys \cup {None}] /\ Requests \subseteq DOMAIN Meaning
    /\ None \notin Requests \cup Keys \cup IntentRow
    /\ Casts \subseteq SUBSET (Requests \cup Editors) /\ Sweeper \notin Workers
    /\ {SlowSaves, LostReplies} \subseteq BOOLEAN /\ MaxFaults \in Nat

VARIABLES
    intents,     \* workspace_save_intents: per key None or its row; "stamp" is its updatedAt
    object,      \* the bytes are in storage
    files, docs, ingestions,   \* the rows made
    versions, imports,         \* per document: the highest version number; the numbers cut by ingestion
    current, revision,         \* its row: the current version's number, or 0; the revision
    requests,    \* per request: how far it is
    jobs,        \* ingestions queued
    lanes,       \* per lane: the ingestion it works on
    editors,     \* per editor: its save
    sweep,       \* what the sweep has listed and not examined; None before it lists
    faults,
    pulled,      \* history: requests that found the object in storage while a rollback was removing it
    misread      \* history: ingestions that took a failed read of stored bytes for bytes of no PDF

numbering == <<versions, imports, current, revision>>
tables == <<intents, object, files, docs, ingestions, numbering>>
vars == <<tables, requests, jobs, lanes, editors, sweep, faults, pulled, misread>>

Lanes == Workers \cup {Sweeper}
Idle == [at |-> "idle"]

Init ==
    /\ intents = [k \in Keys |-> None] /\ object = FALSE
    /\ files = {} /\ docs = [r \in Requests |-> "none"] /\ ingestions = [r \in Requests |-> "none"]
    /\ versions = [r \in Requests |-> 0] /\ imports = [r \in Requests |-> {}]
    /\ current = [r \in Requests |-> 0] /\ revision = [r \in Requests |-> 1]
    /\ \E cast \in Casts :
         /\ requests = [r \in Requests |->
              [at |-> IF r \notin cast THEN "refused" ELSE IF Key[r] = None THEN "dedupe" ELSE "claim",
               seen |-> 0, put |-> FALSE, answer |-> None]]
         /\ editors = [e \in Editors |-> [at |-> IF e \in cast THEN "open" ELSE "ended"]]
    /\ jobs = {} /\ lanes = [w \in Lanes |-> Idle] /\ sweep = None
    /\ faults = 0 /\ pulled = {} /\ misread = {}

Fault == faults < MaxFaults /\ faults' = faults + 1

At(r, at) == requests[r].at = at
Goes(r, at) == requests' = [requests EXCEPT ![r].at = at]
Ends(r, at, d) == requests' = [requests EXCEPT ![r] = [at |-> at, seen |-> 0, put |-> FALSE, answer |-> d]]
Answers(r, d) == Ends(r, "done", d)
Refused(r) == Ends(r, "refused", None)
background == <<numbering, lanes, editors, sweep, misread>>

--------------------------------------------------------------------------------
(* Which document a save is to answer with.                                   *)

\* existingSaveResult: an ingestion of these bytes whose document is not in the trash.
Existing == {d \in Requests : ingestions[d] # "none" /\ docs[d] = "live"}

\* The row of these bytes that is found first may be one of a trashed document.
Found ==
    IF Existing = {} \/ \E d \in Requests : ingestions[d] # "none" /\ docs[d] = "trashed"
      THEN Existing \cup {None} ELSE Existing

\* Without an intention, content decides.
Dedupe(r) ==
    /\ At(r, "dedupe")
    /\ \E d \in Found : IF d = None THEN Goes(r, "head") ELSE Answers(r, d)
    /\ UNCHANGED <<tables, jobs, lanes, editors, sweep, faults, pulled, misread>>

Claimed(k) == intents[k] # None

\* insertPending: the unique index decides, and one that is refused looks at the row there is.
InsertPending(r) ==
    /\ At(r, "claim") /\ ~Claimed(Key[r])
    /\ intents' = [intents EXCEPT ![Key[r]] =
         [status |-> "pending", doc |-> None, meaning |-> Meaning[r], stamp |-> 1]]
    /\ Goes(r, "head")
    /\ UNCHANGED <<object, files, docs, ingestions, background, jobs, faults, pulled>>

\* A request is at work under the claim of its intention.
Holding == {"head", "put", "file", "document", "ingestion", "complete", "release"}
Holder(k) == \E r \in Requests : Key[r] = k /\ requests[r].at \in Holding

\* A pending claim is taken for abandoned after staleClaimMs.
Stale_atOnce(k) == TRUE
Stale(k) == SlowSaves \/ ~Holder(k)

sameMeaning_byKey(row, r) == TRUE
sameMeaning(row, r) == row.meaning = Meaning[r]

\* completedIntentResult: by the ids the intention recorded.
Resolves(row) == docs[row.doc] # "none" /\ ingestions[row.doc] # "none"

\* The row found decides: another save under this key, the answer, or one to take over.
FindIntent(r) ==
    LET row == intents[Key[r]]
    IN  /\ At(r, "claim") /\ Claimed(Key[r])
        /\ \/ ~sameMeaning(row, r) /\ Refused(r)
           \/ /\ sameMeaning(row, r) /\ row.status = "completed" /\ Resolves(row)
              /\ Answers(r, row.doc)
           \/ /\ sameMeaning(row, r)
              /\ row.status = "failed" \/ (row.status = "pending" /\ Stale(Key[r]))
              /\ requests' = [requests EXCEPT ![r].at = "reclaim", ![r].seen = row.stamp]
        /\ UNCHANGED <<tables, jobs, lanes, editors, sweep, faults, pulled, misread>>

\* The winner's document does not come in time.
GivesUp(r) ==
    LET row == intents[Key[r]]
    IN  /\ At(r, "claim") /\ Claimed(Key[r]) /\ sameMeaning(row, r)
        /\ row.status = "pending" \/ (row.status = "completed" /\ ~Resolves(row))
        /\ Refused(r)
        /\ UNCHANGED <<tables, jobs, lanes, editors, sweep, faults, pulled, misread>>

\* A row is written by its id, whatever it says by now.
Turned(row, status, d) == [status |-> status, doc |-> d, meaning |-> row.meaning, stamp |-> row.stamp + 1]
Written(r, status, d) == [intents EXCEPT ![Key[r]] = Turned(@, status, d)]

\* reclaim writes only over the row that was read, and never over a completed one.
Reclaims(row, r) == row.status \in {"pending", "failed"} /\ row.stamp = requests[r].seen

Reclaim(r) ==
    /\ At(r, "reclaim")
    /\ IF Reclaims(intents[Key[r]], r)
         THEN /\ intents' = Written(r, "pending", None)
              /\ requests' = [requests EXCEPT ![r].at = "head", ![r].seen = 0]
         ELSE Goes(r, "claim") /\ UNCHANGED intents
    /\ UNCHANGED <<object, files, docs, ingestions, background, jobs, faults, pulled>>

--------------------------------------------------------------------------------
(* The bytes and the rows.                                                    *)

LookForObject(r) ==
    /\ At(r, "head")
    /\ requests' = [requests EXCEPT ![r].at = IF object THEN "file" ELSE "put", ![r].put = ~object]
    /\ UNCHANGED <<tables, jobs, lanes, editors, sweep, faults, pulled, misread>>

PutObject(r) ==
    /\ At(r, "put") /\ object' = TRUE /\ Goes(r, "file")
    /\ UNCHANGED <<intents, files, docs, ingestions, background, jobs, faults, pulled>>

CreateFile(r) ==
    /\ At(r, "file") /\ files' = files \cup {r} /\ Goes(r, "document")
    /\ pulled' = IF \E q \in Requests : At(q, "remove") THEN pulled \cup {r} ELSE pulled
    /\ UNCHANGED <<intents, object, docs, ingestions, background, jobs, faults>>

CreateDocument(r) ==
    /\ At(r, "document") /\ docs' = [docs EXCEPT ![r] = "live"] /\ Goes(r, "ingestion")
    /\ UNCHANGED <<intents, object, files, ingestions, background, jobs, faults, pulled>>

\* A save without an intention has nothing to complete.
CreateIngestion(r) ==
    /\ At(r, "ingestion") /\ ingestions' = [ingestions EXCEPT ![r] = "pending"]
    /\ Goes(r, IF Key[r] = None THEN "enqueue" ELSE "complete")
    /\ UNCHANGED <<intents, object, files, docs, background, jobs, faults, pulled>>

CompleteIntent(r) ==
    /\ At(r, "complete") /\ intents' = Written(r, "completed", r) /\ Goes(r, "enqueue")
    /\ UNCHANGED <<object, files, docs, ingestions, background, jobs, faults, pulled>>

Enqueue_unwinding(r) ==
    /\ At(r, "enqueue")
    /\ \/ jobs' = jobs \cup {r} /\ Answers(r, r) /\ UNCHANGED faults
       \/ Fault /\ Goes(r, IF Key[r] = None THEN "converge" ELSE "release") /\ UNCHANGED jobs
    /\ UNCHANGED <<tables, lanes, editors, sweep, pulled, misread>>

\* The job cannot be queued, and the save stands all the same.
Enqueue(r) ==
    /\ At(r, "enqueue")
    /\ (jobs' = jobs \cup {r} /\ UNCHANGED faults) \/ (Fault /\ UNCHANGED jobs)
    /\ Answers(r, r)
    /\ UNCHANGED <<tables, lanes, editors, sweep, pulled, misread>>

\* Storage fails before anything is there to unwind; a row's write throws after.
RequestFails(r) ==
    /\ requests[r].at \in {"head", "put", "file", "document", "ingestion", "complete"} /\ Fault
    /\ IF requests[r].at \in {"head", "put"} THEN Refused(r)
       ELSE Goes(r, IF Key[r] = None THEN "converge" ELSE "release")
    /\ \/ UNCHANGED intents
       \/ LostReplies /\ At(r, "complete") /\ intents' = Written(r, "completed", r)
    /\ UNCHANGED <<object, files, docs, ingestions, background, jobs, pulled>>

--------------------------------------------------------------------------------
(* Unwinding, each step of which may fail in silence.                         *)

\* Without an intention, another save's document of the same bytes is the answer.
Converge(r) ==
    /\ At(r, "converge")
    /\ \E d \in Found : requests' = [requests EXCEPT ![r].at = "unlist", ![r].answer = d]
    /\ UNCHANGED <<tables, jobs, lanes, editors, sweep, faults, pulled, misread>>

FailIntent(r) ==
    /\ At(r, "release")
    /\ (intents' = Written(r, "failed", intents[Key[r]].doc) /\ UNCHANGED faults) \/ (Fault /\ UNCHANGED intents)
    /\ Goes(r, "unlist")
    /\ UNCHANGED <<object, files, docs, ingestions, background, jobs, pulled>>

DeleteIngestion(r) ==
    /\ At(r, "unlist")
    /\ \/ ingestions' = [ingestions EXCEPT ![r] = "none"] /\ UNCHANGED faults
       \/ ingestions[r] # "none" /\ Fault /\ UNCHANGED ingestions
    /\ Goes(r, "trash")
    /\ UNCHANGED <<intents, object, files, docs, background, jobs, pulled>>

TrashDocument(r) ==
    /\ At(r, "trash")
    /\ \/ /\ docs' = [docs EXCEPT ![r] = IF @ = "live" THEN "trashed" ELSE @]
          /\ revision' = [revision EXCEPT ![r] = IF docs[r] = "live" THEN @ + 1 ELSE @]
          /\ UNCHANGED faults
       \/ docs[r] = "live" /\ Fault /\ UNCHANGED <<docs, revision>>
    /\ Goes(r, "drop")
    /\ UNCHANGED <<intents, object, files, ingestions, versions, imports, current, lanes, editors, sweep,
                   misread, jobs, pulled>>

DropFile(r) ==
    /\ At(r, "drop")
    /\ (files' = files \ {r} /\ UNCHANGED faults) \/ (r \in files /\ Fault /\ UNCHANGED files)
    /\ Goes(r, "look")
    /\ UNCHANGED <<intents, object, docs, ingestions, background, jobs, pulled>>

Unwound(r) == IF requests[r].answer = None THEN Refused(r) ELSE Answers(r, requests[r].answer)

\* The object goes only if this request put it there and no row names it.
Unreferenced_ownOnly(r) == requests[r].put
Unreferenced(r) == requests[r].put /\ files = {}

LookForReferences(r) ==
    /\ At(r, "look")
    /\ IF Unreferenced(r) THEN Goes(r, "remove") ELSE Unwound(r)
    /\ UNCHANGED <<tables, jobs, lanes, editors, sweep, faults, pulled, misread>>

\* By now another request may count on the object: it has found it there, or its row is made.
RemoveObject(r) ==
    /\ At(r, "remove")
    /\ object' = FALSE
    /\ pulled' = pulled \cup {q \in Requests : At(q, "file")}
    /\ Unwound(r)
    /\ UNCHANGED <<intents, files, docs, ingestions, background, jobs, faults>>

--------------------------------------------------------------------------------
(* Ingestion: processIngestion, by a lane of the queue or by the sweep.       *)

Working(w, d) == lanes[w].at # "idle" /\ lanes[w].doc = d
Steps(w, at) == lanes' = [lanes EXCEPT ![w].at = at]
Rests(w) == lanes' = [lanes EXCEPT ![w] = Idle]

\* A finished or failed ingestion is not processed again; one that is keeps the status that was read.
Started(w, d) ==
    lanes' = [lanes EXCEPT ![w] =
      IF ingestions[d] \in {"pending", "processing"}
        THEN [at |-> "adopt", doc |-> d, fresh |-> ingestions[d] = "pending", number |-> 0] ELSE Idle]

TakeJob(w) ==
    /\ w \in Workers /\ lanes[w].at = "idle"
    /\ \E d \in jobs : jobs' = jobs \ {d} /\ Started(w, d)
    /\ UNCHANGED <<tables, requests, editors, sweep, faults, pulled, misread>>

\* reconcileUnfinished, once after the worker's start.
ListUnfinished ==
    /\ sweep = None
    /\ sweep' = {d \in Requests : ingestions[d] \in {"pending", "processing"}}
    /\ UNCHANGED <<tables, requests, jobs, lanes, editors, faults, pulled, misread>>

Examine ==
    /\ sweep # None /\ lanes[Sweeper].at = "idle"
    /\ \E d \in sweep : sweep' = sweep \ {d} /\ Started(Sweeper, d)
    /\ UNCHANGED <<tables, requests, jobs, editors, faults, pulled, misread>>

\* A status is written only to a row that is still there.
Marked(d, status) == [ingestions EXCEPT ![d] = IF @ = "none" THEN @ ELSE status]

\* What a lane's step leaves alone, but for the ingestions and the numbering.
otherwise == <<intents, object, files, docs, requests, jobs, editors, sweep, pulled>>

\* findImportVersion: an import version numbered 1 is what an earlier attempt has cut.
Adopt(w) ==
    LET lane == lanes[w]
    IN  /\ lane.at = "adopt"
        /\ lanes' = [lanes EXCEPT ![w] =
             IF 1 \in imports[lane.doc] THEN [lane EXCEPT !.at = "point", !.number = 1]
             ELSE [lane EXCEPT !.at = IF lane.fresh THEN "mark" ELSE "file"]]
        /\ UNCHANGED <<otherwise, ingestions, numbering, faults, misread>>

MarkProcessing(w) ==
    /\ lanes[w].at = "mark"
    /\ ingestions' = Marked(lanes[w].doc, "processing") /\ Steps(w, "file")
    /\ UNCHANGED <<otherwise, numbering, faults, misread>>

\* An upload whose row or bytes are gone is recorded as failed.
LookUp(w, at, there, next) ==
    /\ lanes[w].at = at
    /\ IF there THEN Steps(w, next) /\ UNCHANGED ingestions
       ELSE Rests(w) /\ ingestions' = Marked(lanes[w].doc, "failed")
    /\ UNCHANGED <<otherwise, numbering, faults, misread>>

\* The row and, by its key, the object.
LookForFile(w) == LookUp(w, "file", lanes[w].doc \in files, "head")
LookForBytes(w) == LookUp(w, "head", object, "read")

\* looksLikePdf takes a read that fails for bytes that are no PDF, and that is recorded for good.
ReadSignature(w) ==
    LET d == lanes[w].doc
    IN  \/ LookUp(w, "read", object, "cut")
        \/ /\ lanes[w].at = "read" /\ object /\ Fault
           /\ Rests(w) /\ ingestions' = Marked(d, "failed") /\ misread' = misread \cup {d}
           /\ UNCHANGED <<otherwise, numbering>>

CutVersion(w) ==
    LET d == lanes[w].doc
        n == versions[d] + 1
    IN  /\ lanes[w].at = "cut"
        /\ versions' = [versions EXCEPT ![d] = n] /\ imports' = [imports EXCEPT ![d] = @ \cup {n}]
        /\ lanes' = [lanes EXCEPT ![w].at = "point", ![w].number = n]
        /\ UNCHANGED <<otherwise, ingestions, current, revision, faults, misread>>

\* A document's row turns to a version.
Turns(d, number) ==
    current' = [current EXCEPT ![d] = number] /\ revision' = [revision EXCEPT ![d] = @ + 1]

\* setCurrentVersionIfUnset.
Unset_anyway(d) == TRUE
Unset(d) == current[d] = 0

PointDocument(w) ==
    LET d == lanes[w].doc
    IN  /\ lanes[w].at = "point"
        /\ IF Unset(d) THEN Turns(d, lanes[w].number) ELSE UNCHANGED <<current, revision>>
        /\ Steps(w, "finish")
        /\ UNCHANGED <<otherwise, ingestions, versions, imports, faults, misread>>

FinishIngestion(w) ==
    /\ lanes[w].at = "finish"
    /\ ingestions' = Marked(lanes[w].doc, "complete")
    /\ Rests(w)
    /\ UNCHANGED <<otherwise, numbering, faults, misread>>

\* A step throws: the queue's worker tries again until its attempts are used up, the sweep goes on.
LaneFails(w) ==
    /\ lanes[w].at # "idle" /\ Fault
    /\ IF w \in Workers THEN jobs' \in {jobs, jobs \cup {lanes[w].doc}} ELSE UNCHANGED jobs
    /\ Rests(w)
    /\ UNCHANGED <<tables, requests, editors, sweep, pulled, misread>>

--------------------------------------------------------------------------------
(* Saving and restoring versions of a document.                               *)

\* The client takes the document's revision for what its save replaces, whether or not the import
\* has landed by then; "base" is history, the version that was current.
ReadRevision(e) ==
    /\ editors[e].at = "open"
    /\ \E d \in Requests :
         /\ docs[d] = "live"
         /\ editors' = [editors EXCEPT ![e] =
              [at |-> "send", doc |-> d, seen |-> revision[d], base |-> current[d], number |-> 0]]
    /\ UNCHANGED <<tables, requests, jobs, lanes, sweep, faults, pulled, misread>>

Ended(e) == [editors EXCEPT ![e] = [at |-> "ended"]]

\* createVersion and restoreVersion refuse a revision that is not the document's.
Expected(d, seen) == revision[d] = seen

AcceptVersion(e) ==
    LET save == editors[e]
    IN  /\ save.at = "send"
        /\ editors' = IF docs[save.doc] = "live" /\ Expected(save.doc, save.seen)
                        THEN [editors EXCEPT ![e].at = "cut"] ELSE Ended(e)
        /\ UNCHANGED <<tables, requests, jobs, lanes, sweep, faults, pulled, misread>>

\* The version is history from here on, whether or not the document turns to it.
CommitVersion(e) ==
    LET d == editors[e].doc
    IN  /\ editors[e].at = "cut"
        /\ versions' = [versions EXCEPT ![d] = @ + 1]
        /\ editors' = [editors EXCEPT ![e].at = "advance", ![e].number = versions[d] + 1]
        /\ UNCHANGED <<intents, object, files, docs, ingestions, imports, current, revision,
                       requests, jobs, lanes, sweep, faults, pulled, misread>>

\* The row is written only at the revision that was checked.
Advances_unread(d, seen) == TRUE
Advances(d, seen) == revision[d] = seen

AdvanceDocument(e) ==
    LET save == editors[e]
    IN  /\ save.at = "advance"
        /\ IF Advances(save.doc, save.seen) THEN Turns(save.doc, save.number)
           ELSE UNCHANGED <<current, revision>>
        /\ editors' = Ended(e)
        /\ UNCHANGED <<intents, object, files, docs, ingestions, versions, imports,
                       requests, jobs, lanes, sweep, faults, pulled, misread>>

\* The process dies and starts again: its requests are lost, and its jobs with the queue in memory;
\* the queue in Redis delivers them again.
Crash ==
    /\ Fault
    /\ requests' = [r \in Requests |-> IF requests[r].at \in {"claim", "dedupe", "done"} THEN requests[r]
                     ELSE [at |-> "refused", seen |-> 0, put |-> FALSE, answer |-> None]]
    /\ jobs' \in {{}, jobs \cup {d \in Requests : \E w \in Workers : Working(w, d)}}
    /\ lanes' = [w \in Lanes |-> Idle] /\ sweep' = None
    /\ editors' = [e \in Editors |-> IF editors[e].at \in {"cut", "advance"} THEN [at |-> "ended"] ELSE editors[e]]
    /\ UNCHANGED <<tables, pulled, misread>>

--------------------------------------------------------------------------------
Save(r) ==
    \/ Dedupe(r) \/ InsertPending(r) \/ FindIntent(r) \/ GivesUp(r) \/ Reclaim(r)
    \/ LookForObject(r) \/ PutObject(r) \/ CreateFile(r) \/ CreateDocument(r) \/ CreateIngestion(r)
    \/ CompleteIntent(r) \/ Enqueue(r) \/ RequestFails(r)

Unwind(r) ==
    Converge(r) \/ FailIntent(r) \/ DeleteIngestion(r) \/ TrashDocument(r) \/ DropFile(r)
      \/ LookForReferences(r) \/ RemoveObject(r)

Promote(w) ==
    \/ Adopt(w) \/ MarkProcessing(w) \/ LookForFile(w) \/ LookForBytes(w) \/ ReadSignature(w)
    \/ CutVersion(w) \/ PointDocument(w) \/ FinishIngestion(w)

SaveVersion(e) == ReadRevision(e) \/ AcceptVersion(e) \/ CommitVersion(e) \/ AdvanceDocument(e)

Next ==
    \/ \E r \in Requests : Save(r) \/ Unwind(r)
    \/ \E w \in Lanes : TakeJob(w) \/ Promote(w) \/ LaneFails(w)
    \/ \E e \in Editors : SaveVersion(e)
    \/ ListUnfinished \/ Examine \/ Crash

Spec == Init /\ [][Next]_vars

--------------------------------------------------------------------------------
Answered(r) == At(r, "done")

\* Every variable keeps its type, and while saves are quick one request works for an intention.
TypeOK ==
    /\ \A k \in Keys : intents[k] # None =>
         /\ intents[k].status \in {"pending", "completed", "failed"} /\ intents[k].doc \in Requests \cup {None}
         /\ intents[k].status = "completed" => intents[k].doc # None
    /\ object \in BOOLEAN /\ files \cup jobs \cup pulled \subseteq Requests /\ faults \in 0..MaxFaults
    /\ \A r \in Requests :
         /\ docs[r] \in {"none", "live", "trashed"} /\ current[r] \in 0..versions[r]
         /\ ingestions[r] \in {"none", "pending", "processing", "complete", "failed"}
         /\ Answered(r) => docs[requests[r].answer] # "none"
    /\ ~SlowSaves => \A q, r \in Requests :
         Key[q] = Key[r] /\ Key[q] # None /\ {requests[q].at, requests[r].at} \subseteq Holding => q = r

\* All answers to one intention name one document, which is what that intention said it saves:
\* whatever was retried, took over, failed half-way or died.
OneDocumentPerIntention ==
    \A q, r \in Requests : Answered(q) /\ Answered(r) /\ Key[q] = Key[r] /\ Key[q] # None =>
        requests[q].answer = requests[r].answer /\ Meaning[q] = Meaning[r]

\* The document a save was answered with stays: no rollback, its own or another's, unwinds it.
AnsweredIsKept ==
    \A r \in Requests : Answered(r) /\ Key[r] # None =>
        LET d == requests[r].answer IN docs[d] = "live" /\ ingestions[d] # "none" /\ d \in files

\* The bytes of a document a save was answered with stay in storage, and its ingestion never finds
\* them gone, unless its request found them there just when a rollback was removing them.  It fails
\* for a read of the stored bytes that failed, and for nothing else.
BytesAreKept ==
    \A r \in Requests : Answered(r) /\ Key[r] # None =>
        LET d == requests[r].answer
        IN  d \in pulled \/ (object /\ (ingestions[d] = "failed" => d \in misread))

\* A document turns from one version to another only by a save or a restore whose client saw the
\* version it replaces, and to a later one: no late delivery of the ingestion takes it back to the
\* import, and no save overtakes another, or the import, unseen.
ReplacesWhatItSaw ==
    [][\A d \in Requests : current[d] # 0 /\ current'[d] # current[d] =>
          /\ current'[d] > current[d]
          /\ \E e \in Editors : /\ editors[e].at = "advance" /\ editors[e].doc = d
                               /\ editors[e].base = current[d] /\ editors[e].number = current'[d]]_vars

--------------------------------------------------------------------------------
(* What the code does not keep: not checked, and violated as README.md says.  *)

\* No save is answered with a document that is unwound.
NeverUnwound == \A r \in Requests : Answered(r) => docs[requests[r].answer] = "live"

\* However many lanes promote an upload, it gets one initial version.
OneImportVersion == \A d \in Requests : \A m, n \in imports[d] : m = n

\* The version that ingestion cuts is the document's first.
ImportIsFirst == \A d \in Requests : versions[d] > 0 => 1 \in imports[d]
================================================================================
