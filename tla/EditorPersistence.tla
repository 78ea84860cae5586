--------------------------- MODULE EditorPersistence ---------------------------
(***************************************************************************)
(* One tab of the editor keeping the user's work: the persistence machine  *)
(* (what is known to be safe), the coordinator, and one write scheduler    *)
(* for each of the two channels, the browser's own store and the           *)
(* workspace.  A document session is one opening of one document; the tab  *)
(* opens one after another, and answers to a closed one still arrive.      *)
(*                                                                         *)
(* A write is captured and sent in one step, lands in its store in         *)
(* another, and is answered in a third.  Debounce and backoff timers fire  *)
(* at any time.  Definitions named x_y are x with a plausible bug y.       *)
(***************************************************************************)
EXTENDS WriteScheduler, FiniteSets

CONSTANTS
    Kinds,          \* where opened documents live: "guest", "workspace"
    Tolerated,      \* CONTENTION_ATTEMPTS_TOLERATED: contended attempts not reported
    NoAsk,          \* no flush waits / none was answered
    NoPublish,      \* no version is being published
    MaxSessions, MaxRevision,   \* bounds: documents opened, edits of one document
    MaxEvents       \* bound, together: writes and reads that fail, texts typed, times the link
                    \* goes down, versions committed here or elsewhere, and the user's commands

\* Tolerating more would leave a channel "writing" with no retry to come.
ASSUME EditorAssumption ==
    /\ Kinds \subseteq {"guest", "workspace"} /\ Tolerated \in 0..MaxRetries
    /\ MaxSessions \in Nat /\ MaxRevision \in Nat
    /\ NoAsk \notin Nat /\ NoPublish \notin [session: Nat, revision: Nat, version: Int]

VARIABLES
    session,      \* the open document: its number, 0 for none, and its kind
    current,      \* the revision on screen
    uncommitted,  \* characters typed that the document does not have
    online, link, \* what the machine believes of the link, and what it is
    scheduler,    \* per channel: see WriteScheduler
    machine,      \* per channel: watermark, an attempt is awaited, status shown
    token,        \* state.serverVersion: the server revision the canvas stands for
    forced,       \* forcedExpectedServerVersion
    conflict,     \* a conflict is presented
    probing,      \* the answer of the store's availability probe is awaited
    reads,        \* readVersion calls in flight
    publish,      \* the version being published
    head,         \* the server's document revision
    stored,       \* per channel: the revision of the open document its store holds
    ask,          \* the revision that was on screen when the flush that waits was asked
    opened, events \* documents opened so far, and the events MaxEvents counts

\* What the properties remember.
VARIABLES
    rivals,       \* document revisions other people committed
    told,         \* those the user knew of: at open, from a conflict, or published over
    decided,      \* the user chose to replace the version the conflict is about
    misled,       \* a flush was answered "durable" over work no store held
    excused       \* channels that had an earlier document's write in flight when this one was
                  \* opened, and the remote one once it was woken while offline

vars == <<session, current, uncommitted, online, link, scheduler, machine, token, forced, conflict,
          probing, reads, publish, head, stored, ask, opened, events, rivals, told, decided, misled, excused>>

Channels == {"local", "remote"}
Sessions == 1..MaxSessions
NoVersion == -1
NothingDurable == -1

open == session.id # 0
remoteEnabled == session.kind = "workspace"
locally == machine["local"]
remotely == machine["remote"]

--------------------------------------------------------------------------------
(* What the machine concludes from its watermarks.                            *)

\* The document-level edit state: the server copy decides where there is one.
clean_anyCopy ==
    \/ current = 0 /\ ~uncommitted
    \/ ~uncommitted /\ (locally.durable >= current \/ locally.status = "unavailable")
clean ==
    \/ current = 0 /\ ~uncommitted
    \/ ~uncommitted /\ (IF remoteEnabled THEN remotely.durable ELSE locally.durable) >= current

isCurrentRevisionLocallyDurable == ~uncommitted /\ locally.durable >= current
isCurrentRevisionRemotelyAcknowledged ==
    remoteEnabled /\ ~uncommitted /\ remotely.durable >= current

hasUnprotectedWork ==
    open /\ ~clean /\ ~isCurrentRevisionLocallyDurable /\ ~isCurrentRevisionRemotelyAcknowledged

\* evaluateNavigation: everything but "block" lets the user leave.
mayLeave == ~hasUnprotectedWork

--------------------------------------------------------------------------------
(* Committing a step of one scheduler, and what it reported, to the state.    *)

Began(c, m) == [m EXCEPT !.active = TRUE, !.status = IF c = "local" THEN "writing" ELSE "saving"]

\* honestFlush: the queue may be empty because the work was never given to it.
Honest ==
    IF ~open THEN "cancelled"
    ELSE IF hasUnprotectedWork /\ locally.status = "unavailable" THEN "unavailable" ELSE "durable"

\* The flush that waits, of the local channel, is answered after the rest of the step.
Answers(c, asked, says) ==
    IF c = "local" /\ says # "none" /\ asked # NoAsk
      THEN /\ ask' = NoAsk
           /\ misled' = \/ misled
                        \/ /\ says = "durable" /\ Honest' = "durable" /\ "local" \notin excused'
                           /\ asked > 0 /\ \A d \in Channels : stored'[d] < asked
      ELSE ask' = asked /\ UNCHANGED misled

\* Scheduler c becomes s, having found the machine at m, and asked is waiting.
Steps(c, s, m, asked) ==
    /\ scheduler' = [scheduler EXCEPT ![c] = Quiet(s)]
    /\ machine' = [machine EXCEPT ![c] = IF s.began THEN Began(c, m) ELSE m]
    /\ forced' = IF c = "remote" /\ s.began THEN NoVersion ELSE forced
    /\ Answers(c, asked, s.says)

\* prepare(): what is on screen now, sent against the version it stands for.
Capture(version) == [revision |-> current, expected |-> version]
Expected == IF forced # NoVersion THEN forced ELSE token
capture(c) == Capture(IF c = "remote" THEN Expected ELSE NoVersion)

\* An event of those that MaxEvents bounds.
Event == events < MaxEvents /\ events' = events + 1

Init ==
    /\ session = [id |-> 0, kind |-> "guest"]
    /\ current = 0 /\ uncommitted = FALSE
    /\ online = TRUE /\ link = TRUE
    /\ scheduler = [c \in Channels |-> Idle]
    /\ machine = [c \in Channels |-> [durable |-> NothingDurable, active |-> FALSE,
                     status |-> IF c = "local" THEN "idle" ELSE "not_applicable"]]
    /\ token = NoVersion /\ forced = NoVersion /\ conflict = FALSE
    /\ probing = FALSE /\ reads = {} /\ publish = NoPublish
    /\ head = 0
    /\ stored = [c \in Channels |-> NothingDurable]
    /\ ask = NoAsk
    /\ opened = 0 /\ events = 0
    /\ rivals = {} /\ told = {} /\ decided = FALSE /\ misled = FALSE /\ excused = {}

--------------------------------------------------------------------------------
(* Opening, editing and closing.                                              *)

\* openDocument: the bytes on screen came from the server's present version, or from a file.
OpenDocument(kind) ==
    LET n == opened + 1
    IN  /\ ~open /\ n <= MaxSessions
        /\ opened' = n
        /\ session' = [id |-> n, kind |-> kind]
        /\ online' = link
        /\ machine' = [c \in Channels |->
              IF c = "local" THEN locally
              ELSE IF kind = "guest" THEN remotely
              ELSE [durable |-> 0, active |-> FALSE, status |-> IF link THEN "idle" ELSE "offline"]]
        /\ token' = IF kind = "workspace" THEN head ELSE NoVersion
        /\ forced' = NoVersion
        /\ scheduler' = [scheduler EXCEPT !["remote"] = IF link THEN @ ELSE Paused(@)]
        /\ probing' = TRUE
        /\ stored' = IF kind = "workspace" THEN [stored EXCEPT !["remote"] = 0] ELSE stored
        /\ told' = rivals
        /\ excused' = {c \in Channels : Busy(scheduler[c])}
        /\ UNCHANGED <<current, uncommitted, link, conflict, reads, publish, head, ask, misled, events, rivals, decided>>

\* probeLocalStore, answered with a refusal; an available store changes nothing.
StoreRefuses ==
    /\ probing /\ probing' = FALSE /\ Event
    /\ machine' = IF locally.status = "unavailable" THEN machine
                  ELSE [machine EXCEPT !["local"].status = "unavailable", !["local"].active = FALSE]
    /\ UNCHANGED <<opened, session, current, uncommitted, online, link, scheduler, token, forced, conflict, reads,
                   publish, head, stored, ask, rivals, decided, told, misled, excused>>

\* noteMutation, and the end of a committed gesture; scheduleWrites skips a store that is unavailable.
NoteMutation ==
    LET given(c) == IF c = "local" THEN locally.status # "unavailable" ELSE remoteEnabled
        new == [c \in Channels |->
                  IF given(c) THEN Scheduled(scheduler[c], session.id, current + 1) ELSE scheduler[c]]
    IN  /\ open /\ current < MaxRevision
        /\ current' = current + 1
        /\ scheduler' = [c \in Channels |-> Quiet(new[c])]
        /\ UNCHANGED <<session, uncommitted, online, link, machine, token, forced, conflict, probing, reads,
                       publish, head, stored, opened, events, rivals, decided, told, excused>>
        /\ Answers("local", ask, new["local"].says)

\* A text box holds characters, or no longer does.
NoteUncommittedInput ==
    /\ open /\ uncommitted' = ~uncommitted
    /\ IF uncommitted THEN UNCHANGED events ELSE Event
    /\ UNCHANGED <<session, current, online, link, scheduler, machine, token, forced, conflict, probing, reads,
                   publish, head, stored, ask, misled, opened, rivals, decided, told, excused>>

\* closeDocument: cancels both queues; the machine forgets everything but a refusing store.
CloseDocument ==
    /\ open
    /\ session' = [id |-> 0, kind |-> "guest"]
    /\ current' = 0 /\ uncommitted' = FALSE /\ online' = TRUE
    /\ scheduler' = [c \in Channels |-> Quiet(Cancelled(scheduler[c]))]
    /\ machine' = [c \in Channels |->
          [durable |-> NothingDurable, active |-> FALSE,
           status |-> IF c = "remote" THEN "not_applicable"
                      ELSE IF locally.status = "unavailable" THEN "unavailable" ELSE "idle"]]
    /\ token' = NoVersion /\ conflict' = FALSE /\ decided' = FALSE /\ probing' = FALSE
    /\ stored' = [c \in Channels |-> NothingDurable]
    /\ UNCHANGED <<link, forced, reads, publish, head, opened, events, rivals, told, excused>>
    /\ Answers("local", ask, "cancelled")

--------------------------------------------------------------------------------
(* A write: sent by its timer or by a flush, landing, answered.               *)

Fires(c) ==
    /\ scheduler[c].timer # "none"
    /\ UNCHANGED <<session, current, uncommitted, online, link, token, conflict, probing, reads, publish, head,
                   stored, opened, events, rivals, decided, told, excused>>
    /\ Steps(c, TimerFired(scheduler[c], capture(c)), machine[c], ask)

\* The store's side. The server compares the revision it expects, and keeps a refused draft apart;
\* it refuses too when another device holds the draft's lease or the draft's row changes meanwhile.
Lands(c) == \E contested \in BOOLEAN :
    LET f == scheduler[c].flight
        refused == c = "remote" /\ (contested \/ head > f.expected)
    IN  /\ Busy(scheduler[c]) /\ f.stage = "sent"
        /\ c = "remote" => link
        /\ IF contested THEN c = "remote" /\ Event ELSE UNCHANGED events
        /\ scheduler' = [scheduler EXCEPT ![c].flight.stage = IF refused THEN "refused" ELSE "landed"]
        /\ stored' = IF refused \/ f.session # session.id THEN stored ELSE [stored EXCEPT ![c] = f.revision]
        /\ UNCHANGED <<session, current, uncommitted, online, link, machine, token, forced, conflict, probing,
                       reads, publish, head, ask, misled, opened, rivals, decided, told, excused>>

\* isCurrentAttempt: the attempt is the open document's, and its channel still waits for it.
Awaited_anySession(c) == open
Awaited(c) == machine[c].active /\ scheduler[c].flight.session = session.id

\* LOCAL_WRITE_SUCCEEDED, REMOTE_SAVE_SUCCEEDED: credited with the revision that was written.
Credited(c, m, f) ==
    [durable |-> IF m.durable > f.revision THEN m.durable ELSE f.revision, active |-> FALSE,
     status |-> IF c = "local" THEN "durable" ELSE "synced"]

Succeeds(c) ==
    LET s == scheduler[c]
        f == s.flight
        mine == Awaited(c) /\ c = "remote"
    IN  /\ Busy(s) /\ f.stage = "landed"
        /\ token' = IF mine THEN f.expected ELSE token
        /\ conflict' = IF mine THEN FALSE ELSE conflict
        /\ UNCHANGED <<session, current, uncommitted, online, link, probing, reads, publish, head, stored,
                       opened, events, rivals, decided, told, excused>>
        /\ Steps(c, Finished(s, IF mine /\ forced = NoVersion THEN Capture(f.expected) ELSE capture(c)),
                 IF Awaited(c) THEN Credited(c, machine[c], f) ELSE machine[c], ask)

\* A write that failed, before or after it landed; a contended draft lock goes unsaid at first.
Fails(c, failure, contended) ==
    LET s == scheduler[c]
        quiet == contended /\ s.flight.attempt < Tolerated
        shown == IF failure = "unavailable" THEN "unavailable"
                 ELSE IF c = "remote" /\ ~online THEN "offline" ELSE "failed"
    IN  /\ Busy(s) /\ s.flight.stage # "refused" /\ failure # "conflict"
        /\ failure = "unavailable" => c = "local"
        /\ contended => c = "local" /\ failure = "retryable" /\ s.flight.stage = "sent"
        /\ IF c = "remote" /\ ~link THEN UNCHANGED events ELSE Event
        /\ UNCHANGED <<opened, session, current, uncommitted, online, link, token, conflict, probing, reads, publish,
                       head, stored, rivals, decided, told, excused>>
        /\ Steps(c, Failed(s, failure),
                 IF Awaited(c) /\ ~quiet THEN [machine[c] EXCEPT !.active = FALSE, !.status = shown] ELSE machine[c],
                 ask)

\* CONFLICT_DETECTED: the token takes the version the server was found at, when it could be read.
Refused(actual) ==
    LET s == scheduler["remote"]
    IN  /\ Busy(s) /\ s.flight.stage = "refused"
        /\ actual = head \/ actual = NoVersion
        /\ IF Awaited("remote")
             THEN /\ conflict' = TRUE /\ decided' = FALSE
                  /\ token' = IF actual = NoVersion THEN token ELSE actual
                  /\ told' = rivals
             ELSE UNCHANGED <<conflict, decided, token, told>>
        /\ UNCHANGED <<session, current, uncommitted, online, link, probing, reads, publish, head, stored,
                       opened, events, rivals, excused>>
        /\ Steps("remote", Failed(s, "conflict"),
                 IF Awaited("remote") THEN [remotely EXCEPT !.active = FALSE, !.status = "conflict"] ELSE remotely,
                 ask)

--------------------------------------------------------------------------------
(* The network.                                                               *)

\* setOnline(false).
LinkDrops ==
    /\ link /\ Event
    /\ link' = FALSE
    /\ IF ~online THEN UNCHANGED <<online, machine, scheduler>>
       ELSE /\ online' = FALSE
            /\ machine' = IF remoteEnabled /\ remotely.status # "conflict"
                          THEN [machine EXCEPT !["remote"].status = "offline"] ELSE machine
            /\ scheduler' = [scheduler EXCEPT !["remote"] = Paused(@)]
    /\ UNCHANGED <<opened, session, current, uncommitted, token, forced, conflict, probing, reads, publish, head, stored,
                   ask, misled, rivals, decided, told, excused>>

\* setOnline(true): a workspace document first reads what the server holds.
LinkReturns ==
    /\ ~link /\ link' = TRUE
    /\ IF online THEN UNCHANGED <<online, machine, reads>>
       ELSE /\ online' = TRUE
            /\ machine' = IF remotely.status = "offline"
                          THEN [machine EXCEPT !["remote"].status = "idle"] ELSE machine
            /\ reads' = IF open /\ remoteEnabled
                        THEN reads \cup {[for |-> "reconnect", session |-> session.id, from |-> head]} ELSE reads
    /\ UNCHANGED <<session, current, uncommitted, scheduler, token, forced, conflict, probing, publish, head,
                   stored, ask, misled, opened, events, rivals, decided, told, excused>>

\* Waking the remote channel while offline leaves the next reconnect nothing to resume.
Wakes == IF online THEN excused ELSE excused \cup {"remote"}

\* planReconnect's two answers that send nothing; the others queue what is on screen.
NothingToSend(version) ==
    IF version = token THEN isCurrentRevisionRemotelyAcknowledged ELSE current = 0

\* reconcileWithServer, answered: the expectation stays the version the canvas was built from.
Reconciles_adopting(rd, version) ==
    /\ rd \in reads /\ rd.for = "reconnect" /\ version \in rd.from..head
    /\ reads' = reads \ {rd}
    /\ UNCHANGED <<session, current, uncommitted, online, link, conflict, probing, publish, head, stored,
                   opened, events, rivals, decided, told>>
    /\ IF rd.session # session.id THEN UNCHANGED <<scheduler, machine, forced, ask, misled, token, excused>>
       ELSE LET s == Resumed(scheduler["remote"])
            IN  /\ token' = version /\ excused' = Wakes
                /\ Steps("remote", IF NothingToSend(version) THEN s ELSE Scheduled(s, session.id, current),
                         remotely, ask)
Reconciles(rd, version) ==
    /\ rd \in reads /\ rd.for = "reconnect" /\ version \in rd.from..head
    /\ reads' = reads \ {rd}
    /\ UNCHANGED <<session, current, uncommitted, online, link, conflict, token, probing, publish, head, stored,
                   opened, events, rivals, decided, told>>
    /\ IF rd.session # session.id THEN UNCHANGED <<scheduler, machine, forced, ask, misled, excused>>
       ELSE LET s == Resumed(scheduler["remote"])
            IN  /\ excused' = Wakes
                /\ Steps("remote", IF NothingToSend(version) THEN s ELSE Scheduled(s, session.id, current),
                         remotely, ask)

\* resolveConflict("replace_workspace", confirmed), after its fresh read: this version may be replaced.
Replaces(rd, version) ==
    /\ rd \in reads /\ rd.for = "replace" /\ version \in rd.from..head
    /\ reads' = reads \ {rd}
    /\ UNCHANGED <<session, current, uncommitted, online, link, conflict, token, probing, publish, head, stored,
                   opened, events, rivals>>
    /\ IF rd.session # session.id THEN UNCHANGED <<scheduler, machine, forced, ask, misled, told, decided, excused>>
       ELSE LET s == Flushed(Scheduled(Resumed(scheduler["remote"]), session.id, current), Capture(version))
            IN  /\ excused' = Wakes /\ decided' = conflict
                /\ told' = told \cup {v \in rivals : v <= version}
                /\ scheduler' = [scheduler EXCEPT !["remote"] = Quiet(s)]
                /\ machine' = IF s.began THEN [machine EXCEPT !["remote"] = Began("remote", @)] ELSE machine
                /\ forced' = IF s.began THEN NoVersion ELSE version
                /\ Answers("remote", ask, s.says)

\* A read that fails: after a reconnect the channel stays paused; a replacement is not made.
ReadFails(rd) ==
    /\ rd \in reads /\ reads' = reads \ {rd}
    /\ IF link THEN Event ELSE UNCHANGED events
    /\ UNCHANGED <<opened, session, current, uncommitted, online, link, scheduler, machine, token, forced, conflict,
                   probing, publish, head, stored, ask, misled, rivals, decided, told, excused>>

--------------------------------------------------------------------------------
(* The user's commands, and the other people of the workspace.                *)

\* flushLocal, which saveNow is, and flushOnHide.
Flush ==
    /\ ask = NoAsk /\ Event
    /\ UNCHANGED <<opened, session, current, uncommitted, online, link, token, conflict, probing, reads, publish, head,
                   stored, rivals, decided, told, excused>>
    /\ Steps("local", Flushed(scheduler["local"], capture("local")), locally,
             current)

\* retryLocal, retryRemote.
Retry(c) ==
    /\ open /\ Event
    /\ scheduler' = [scheduler EXCEPT ![c] = Retried(Resumed(@))]
    /\ excused' = IF c = "remote" THEN Wakes ELSE excused
    /\ UNCHANGED <<opened, session, current, uncommitted, online, link, machine, token, forced, conflict, probing, reads,
                   publish, head, stored, ask, misled, rivals, decided, told>>

\* resolveConflict("replace_workspace", confirmed), up to its read.
ReplaceWorkspace ==
    /\ open /\ conflict /\ Event
    /\ reads' = reads \cup {[for |-> "replace", session |-> session.id, from |-> head]}
    /\ UNCHANGED <<opened, session, current, uncommitted, online, link, scheduler, machine, token, forced, conflict,
                   probing, publish, head, stored, ask, misled, rivals, decided, told, excused>>

\* commitToWorkspace: the revision is the one exported, not the one on screen at the answer.
Publish ==
    /\ open /\ publish = NoPublish
    /\ Event
    /\ publish' = [session |-> session.id, revision |-> current, version |-> NoVersion]
    /\ UNCHANGED <<opened, session, current, uncommitted, online, link, scheduler, machine, token, forced, conflict,
                   probing, reads, head, stored, ask, misled, rivals, decided, told, excused>>

\* The server commits the version, whatever the document's revision was.
PublishLands ==
    /\ publish # NoPublish /\ publish.version = NoVersion
    /\ head' = head + 1
    /\ publish' = [publish EXCEPT !.version = head + 1]
    /\ stored' = IF publish.session # session.id \/ stored["remote"] > publish.revision THEN stored
                 ELSE [stored EXCEPT !["remote"] = publish.revision]
    /\ UNCHANGED <<session, current, uncommitted, online, link, scheduler, machine, token, forced, conflict,
                   probing, reads, ask, misled, opened, events, rivals, decided, told, excused>>

\* noteVersionCommitted: the surface that published, which is gone when its document is.  An answer
\* that cannot be read names no revision, and the token stays.
NoteVersionCommitted ==
    /\ publish # NoPublish /\ publish.version # NoVersion
    /\ publish' = NoPublish
    /\ \/ publish.session # session.id /\ UNCHANGED <<machine, token, told, events>>
       \/ /\ publish.session = session.id
          /\ machine' = IF remotely.durable >= publish.revision THEN machine
                        ELSE [machine EXCEPT !["remote"].durable = publish.revision]
          /\ \/ /\ token' = publish.version /\ told' = told \cup {v \in rivals : v < publish.version}
                /\ UNCHANGED events
             \/ Event /\ UNCHANGED <<token, told>>
    /\ UNCHANGED <<session, current, uncommitted, online, link, scheduler, forced, conflict, probing, reads,
                   head, stored, ask, misled, opened, rivals, decided, excused>>

\* Another person's version: what a conflict protects.
RivalCommits ==
    /\ Event
    /\ head' = head + 1 /\ rivals' = rivals \cup {head + 1}
    /\ UNCHANGED <<session, current, uncommitted, online, link, scheduler, machine, token, forced, conflict,
                   probing, reads, publish, stored, ask, misled, opened, told, decided, excused>>

--------------------------------------------------------------------------------
Answer(c) ==
    \/ Succeeds(c)
    \/ \E failure \in Failures, contended \in BOOLEAN : Fails(c, failure, contended)
    \/ c = "remote" /\ \E actual \in {NoVersion, head} : Refused(actual)

Read(rd) == \E version \in 0..head : Reconciles(rd, version) \/ Replaces(rd, version)

Next ==
    \/ \E kind \in Kinds : OpenDocument(kind)
    \/ StoreRefuses \/ NoteMutation \/ NoteUncommittedInput \/ CloseDocument
    \/ \E c \in Channels : Fires(c) \/ Lands(c) \/ Answer(c) \/ Retry(c)
    \/ LinkDrops \/ LinkReturns
    \/ \E rd \in reads : Read(rd) \/ ReadFails(rd)
    \/ Flush \/ ReplaceWorkspace \/ Publish \/ PublishLands \/ NoteVersionCommitted \/ RivalCommits

Spec == Init /\ [][Next]_vars

\* The browser runs timers, its store takes what it is sent, and a transaction that landed is
\* answered: with success, unless it is answered with a failure first.
Fairness == WF_vars(Fires("local")) /\ WF_vars(Lands("local")) /\ WF_vars(Succeeds("local"))

FairSpec == Spec /\ Fairness

--------------------------------------------------------------------------------
Flights(c) == [session: Sessions, revision: 0..MaxRevision, attempt: 0..MaxRetries,
               expected: IF c = "remote" THEN Nat ELSE {NoVersion}, stage: {"sent", "landed", "refused"}]

\* Every variable keeps its type; a write in flight belongs to a document that was opened, and a
\* scheduler that serves a document serves the open one.
TypeOK ==
    /\ session.id \in 0..MaxSessions /\ session.kind \in {"guest", "workspace"}
    /\ current \in 0..MaxRevision
    /\ {uncommitted, online, link, conflict, probing, decided, misled} \subseteq BOOLEAN /\ excused \subseteq Channels
    /\ \A c \in Channels :
        LET s == scheduler[c]
        IN  /\ s.pending \in NoRevision..MaxRevision /\ s.timer \in {"none", "debounce", "retry"}
            /\ s.flight = NoFlight \/ s.flight \in Flights(c)
            /\ s.retries \in 0..MaxRetries /\ s.paused \in BOOLEAN
            /\ s.owner \in {0, session.id} /\ ~s.began /\ s.says = "none"
            /\ machine[c].durable \in NothingDurable..MaxRevision /\ machine[c].active \in BOOLEAN
    /\ token \in NoVersion..head /\ forced \in NoVersion..head
    /\ \A rd \in reads : rd.session \in Sessions /\ rd.from \in 0..head
    /\ rivals \subseteq 1..head /\ told \subseteq rivals

\* The machine never claims more than the stores hold: whatever was closed, reopened, refused or
\* published in between, the open document's watermark of a channel is a revision its store has.
WatermarksHonest ==
    open => \A c \in Channels : machine[c].durable <= stored[c]

\* While the user may leave, or the document reads as clean, nothing on screen exists only here:
\* the newest revision is in a store, and no typed character is outside the document.
LeavingLosesNothing ==
    /\ open /\ mayLeave /\ current > 0 =>
         ~uncommitted /\ \E c \in Channels : stored[c] >= current
    /\ open /\ clean /\ remoteEnabled => ~uncommitted /\ stored["remote"] >= current

\* A flush answered "durable" is true: what was on screen when it was asked is in a store. The
\* answers given while an earlier document's write was still in flight at the opening are excepted.
DurableVerdictIsTrue == ~misled

\* Queued work always has something that will move it, or is shown not to: a timer, a write in
\* flight, a pause for the network, or a failure the user can act on.
NothingStranded ==
    open => \A c \in Channels \ excused :
        LET s == scheduler[c]
        IN  Queued(s) /\ ~Busy(s) /\ s.timer = "none" /\ ~s.paused =>
                machine[c].status \in {"failed", "unavailable", "conflict"}

\* The cloud save never replaces a version somebody else committed that this user was not told of:
\* a save the server accepts was sent by someone who knew of every version it stands on.
NoUnseenOverwrite ==
    [][\A c \in Channels : Lands(c) /\ c = "remote" /\ scheduler[c].flight.session = session.id
          /\ scheduler'[c].flight.stage = "landed" => rivals \subseteq told]_vars

\* A conflict that is presented stands until the user decides it or closes the document.
ConflictStands ==
    [][conflict /\ ~conflict' => decided \/ ~open']_vars

\* What is on screen is stored in the end, unless it is shown why not: the store refuses or fails,
\* or the document was closed.
WorkIsStored ==
    open /\ "local" \notin excused /\ current > 0 ~>
        stored["local"] >= current \/ locally.status \in {"failed", "unavailable"} \/ ~open
================================================================================
