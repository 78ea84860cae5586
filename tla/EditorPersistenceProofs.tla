------------------------ MODULE EditorPersistenceProofs ------------------------
(***************************************************************************)
(* The editor tab tells the truth about the user's work, for any number of *)
(* documents, edits, failures, texts, link losses, rivals and commands:    *)
(* a watermark is a stored revision, leaving loses nothing, an answered    *)
(* flush is true, queued work moves, and a cloud save replaces no version  *)
(* the user was not told of.                                               *)
(***************************************************************************)
EXTENDS EditorPersistence, TLAPS

(* The shapes of what the tab keeps.                                          *)

Stages == {"sent", "landed", "refused"}
Versions == Nat \cup {NoVersion}
Flying ==
    [session: Sessions, revision: 0..MaxRevision, attempt: 0..MaxRetries, expected: Versions, stage: Stages]
Scheduler ==
    [pending: NoRevision..MaxRevision, timer: {"none", "debounce", "retry"}, flight: Flying \cup {NoFlight},
     retries: 0..MaxRetries, paused: BOOLEAN, owner: 0..MaxSessions, began: BOOLEAN, says: Verdicts]
Statuses ==
    {"idle", "not_applicable", "writing", "saving", "durable", "synced", "offline", "failed", "unavailable", "conflict"}
Watermark == [durable: NothingDurable..MaxRevision, active: BOOLEAN, status: Statuses]
Readings == [for: {"reconnect", "replace"}, session: Sessions, from: Nat]
Publication == [session: Sessions, revision: 0..MaxRevision, version: Versions]

Types ==
    /\ session \in [id: 0..MaxSessions, kind: {"guest", "workspace"}]
    /\ opened \in 0..MaxSessions /\ session.id \in {0, opened}
    /\ current \in 0..MaxRevision
    /\ {uncommitted, online, link, conflict, probing, decided, misled} \subseteq BOOLEAN
    /\ scheduler \in [Channels -> Scheduler]
    /\ machine \in [Channels -> Watermark]
    /\ stored \in [Channels -> NothingDurable..MaxRevision]
    /\ head \in Nat /\ token \in NoVersion..head /\ forced \in NoVersion..head
    /\ reads \subseteq Readings
    /\ publish \in Publication \cup {NoPublish}
    /\ ask \in (0..MaxRevision) \cup {NoAsk}
    /\ rivals \subseteq 1..head /\ told \subseteq rivals /\ excused \subseteq Channels

\* A write in flight for the open document.
Own(s) == Busy(s) /\ s.flight.session = session.id

--------------------------------------------------------------------------------
(* A scheduler that serves a document serves the open one.                    *)

Serves(s) ==
    /\ s.owner \in {0, session.id}
    /\ Queued(s) => open /\ s.owner = session.id /\ s.pending <= current
    /\ Busy(s) => s.flight.session <= opened /\ s.flight.expected <= head /\ s.retries <= s.flight.attempt
    /\ Own(s) => s.owner = session.id /\ s.flight.revision <= current

--------------------------------------------------------------------------------
(* A watermark is a revision that is stored.                                  *)

\* The server takes a save that stands on its present version.
Takes(c, f) == c = "remote" => head <= f.expected

Stored(c, s, m, st) ==
    /\ IF open THEN m.durable <= st /\ st <= current ELSE m.durable = NothingDurable /\ st = NothingDurable
    /\ c = "remote" /\ open /\ remoteEnabled => m.durable >= 0
    /\ Own(s) => /\ s.flight.stage = "landed" => s.flight.revision <= st
                 /\ s.flight.stage = "sent" /\ Takes(c, s.flight) => st <= s.flight.revision

Published ==
    publish # NoPublish =>
      /\ publish.session <= opened /\ publish.version <= head /\ publish.version \notin rivals
      /\ publish.session = session.id =>
           /\ publish.revision <= current
           /\ publish.version # NoVersion => publish.revision <= stored["remote"]

--------------------------------------------------------------------------------
(* What a save is sent against, the user was told of.                         *)

Knows(version) == \A v \in rivals : v <= version => v \in told

Informed ==
    /\ open => Knows(token) /\ Knows(forced)
    /\ Own(scheduler["remote"]) => Knows(scheduler["remote"].flight.expected)

--------------------------------------------------------------------------------
(* Queued work is moved, or shown not to be.                                  *)

Stuck(s) == Queued(s) /\ ~Busy(s) /\ s.timer = "none" /\ ~s.paused
Shows(m) == m.status \in {"failed", "unavailable", "conflict"}

Aboard(c, s, m) ==
    /\ Own(s) => m.active \/ (c = "local" /\ m.status = "unavailable")
    /\ open /\ c \notin excused =>
         /\ Busy(s) => Own(s)
         /\ c = "remote" /\ ~online => s.paused

Moving(c, s, m) == Aboard(c, s, m) /\ (open /\ c \notin excused /\ Stuck(s) => Shows(m))

\* The newest revision is queued, on its way, stored, or shown not to be stored here.
Newest(s, m, st) ==
    /\ ~s.paused
    /\ m.active => m.status = "writing"
    /\ open /\ "local" \notin excused /\ current > 0 /\ ~Queued(s) =>
         IF Busy(s) THEN m.active => s.flight.revision = current
         ELSE st = current \/ m.status = "unavailable"

Asked == ask # NoAsk => ask <= current

--------------------------------------------------------------------------------
Ready(c, s, m, st) ==
    Serves(s) /\ Stored(c, s, m, st) /\ Aboard(c, s, m) /\ (c = "local" => Newest(s, m, st))

Holds(c, s, m, st) == Ready(c, s, m, st) /\ Moving(c, s, m)

ChannelInv(c) ==
    /\ ~scheduler[c].began /\ scheduler[c].says = "none"
    /\ Holds(c, scheduler[c], machine[c], stored[c])

EditorInv ==
    /\ Types /\ (~open => current = 0)
    /\ \A c \in Channels : ChannelInv(c)
    /\ Published /\ Informed /\ Asked /\ ~misled

--------------------------------------------------------------------------------
(* What each method of a scheduler leaves of it, field by field.              *)

\* The same scheduler, but for what its last call reported.
Like(t, s) ==
    /\ t.pending = s.pending /\ t.timer = s.timer /\ t.flight = s.flight
    /\ t.retries = s.retries /\ t.paused = s.paused /\ t.owner = s.owner

LEMMA NoRevisionBelow == NoRevision \in Int /\ NoRevision = -1 /\ NoRevision \in NoRevision..MaxRevision
  BY EditorAssumption DEF NoRevision

LEMMA Fields ==
    ASSUME NEW s \in Scheduler
    PROVE  /\ s.pending \in Int /\ s.pending \in NoRevision..MaxRevision
           /\ s.flight \in Flying \cup {NoFlight} /\ s.retries \in 0..MaxRetries
           /\ s.paused \in BOOLEAN /\ s.owner \in 0..MaxSessions
           /\ s.began \in BOOLEAN /\ s.says \in Verdicts /\ s.timer \in {"none", "debounce", "retry"}
           /\ Busy(s) <=> s.flight \in Flying
<1>1. NoFlight \notin Flying
  <2>1. /\ Sessions \subseteq Nat /\ 0..MaxRevision \subseteq Nat /\ 0..MaxRetries \subseteq Nat
        /\ Versions \subseteq Int
    BY SchedulerAssumption, EditorAssumption DEF Sessions, Versions, NoVersion
  <2>2. Flying \subseteq Write
    BY <2>1 DEF Flying, Write, Stages
  <2> QED BY <2>2, SchedulerAssumption
<1>2. s.pending \in NoRevision..MaxRevision => s.pending \in Int
  BY NoRevisionBelow, EditorAssumption
<1> QED BY <1>1, <1>2 DEF Scheduler, Busy

LEMMA QuietFields ==
    ASSUME NEW s \in Scheduler, NEW t, t = Quiet(s)
    PROVE  t \in Scheduler /\ Like(t, s) /\ t.began = FALSE /\ t.says = "none"
  BY DEF Quiet, Scheduler, Like, Verdicts

LEMMA PausedFields ==
    ASSUME NEW s \in Scheduler, NEW t, t = Paused(s)
    PROVE  /\ t \in Scheduler /\ t.paused /\ t.timer = "none" /\ t.pending = s.pending
           /\ t.flight = s.flight /\ t.retries = s.retries /\ t.owner = s.owner
           /\ t.began = s.began /\ t.says = s.says
  BY DEF Paused, Scheduler

LEMMA WokenFields ==
    ASSUME NEW s \in Scheduler, NEW t, t = Woken(s)
    PROVE  /\ t \in Scheduler /\ ~t.paused /\ t.timer = s.timer /\ t.pending = s.pending
           /\ t.flight = s.flight /\ t.retries = 0 /\ t.owner = s.owner
           /\ t.began = s.began /\ t.says = s.says
<1>1. 0 \in 0..MaxRetries
  BY SchedulerAssumption
<1> QED BY <1>1 DEF Woken, Scheduler

LEMMA ResumedFields ==
    ASSUME NEW s \in Scheduler, NEW t, t = Resumed(s)
    PROVE  /\ t \in Scheduler /\ ~t.paused /\ t.pending = s.pending
           /\ t.flight = s.flight /\ t.retries \in 0..s.retries /\ t.owner = s.owner
           /\ t.began = s.began /\ t.says = s.says
           /\ ~s.paused => t = s
           /\ s.paused /\ Queued(s) => t.timer = "debounce"
<1>1. CASE ~s.paused
  BY <1>1, SchedulerAssumption DEF Resumed, Scheduler
<1>2. CASE s.paused
  <2>1. PICK w : w = Woken(s)
    OBVIOUS
  <2>2. /\ w \in Scheduler /\ ~w.paused /\ w.timer = s.timer /\ w.pending = s.pending
        /\ w.flight = s.flight /\ w.retries = 0 /\ w.owner = s.owner
        /\ w.began = s.began /\ w.says = s.says
    BY <2>1, WokenFields
  <2>3. t = IF Queued(s) THEN [w EXCEPT !.timer = "debounce"] ELSE w
    BY <1>2, <2>1 DEF Resumed
  <2>4. 0 \in 0..s.retries
    BY Fields
  <2> QED BY <1>2, <2>2, <2>3, <2>4 DEF Scheduler
<1> QED BY <1>1, <1>2

LEMMA CancelledFields ==
    ASSUME NEW s \in Scheduler, NEW t, t = Cancelled(s)
    PROVE  /\ t \in Scheduler /\ t.paused = s.paused /\ t.pending = NoRevision
           /\ t.flight = s.flight /\ t.retries = 0 /\ t.owner = 0
           /\ t.began = s.began /\ t.says = "cancelled"
<1>1. 0 \in 0..MaxRetries /\ 0 \in 0..MaxSessions
  BY SchedulerAssumption, EditorAssumption
<1>2. PICK d : d = Discarded(s)
  OBVIOUS
<1>3. /\ d \in Scheduler /\ d.paused = s.paused /\ d.pending = NoRevision /\ d.flight = s.flight
      /\ d.retries = 0 /\ d.began = s.began
  BY <1>1, <1>2, NoRevisionBelow DEF Discarded, Scheduler
<1>4. t = [[d EXCEPT !.owner = 0] EXCEPT !.says = "cancelled"]
  BY <1>2 DEF Cancelled, Settled
<1> QED BY <1>1, <1>3, <1>4 DEF Scheduler, Verdicts

LEMMA ScheduledFields ==
    ASSUME NEW s \in Scheduler, NEW n \in Sessions, NEW revision \in 0..MaxRevision,
           s.owner \in {0, n}, NEW t, t = Scheduled(s, n, revision)
    PROVE  /\ t \in Scheduler /\ t.paused = s.paused /\ t.flight = s.flight
           /\ t.retries = s.retries /\ t.owner = n /\ t.began = s.began /\ t.says = s.says
           /\ t.pending = IF s.pending >= revision THEN s.pending ELSE revision
           /\ s.pending >= revision => t.timer = s.timer
           /\ s.pending < revision => t.timer = "debounce" \/ t.paused \/ Busy(t)
<1>1. n \in 0..MaxSessions /\ revision \in NoRevision..MaxRevision
  BY EditorAssumption, NoRevisionBelow DEF Sessions
<1>2. PICK o : o = [s EXCEPT !.owner = n]
  OBVIOUS
<1>3. /\ o \in Scheduler /\ o.paused = s.paused /\ o.flight = s.flight /\ o.retries = s.retries
      /\ o.owner = n /\ o.began = s.began /\ o.says = s.says /\ o.pending = s.pending
      /\ o.timer = s.timer
  BY <1>1, <1>2 DEF Scheduler
<1>4. PICK u : u = [o EXCEPT !.pending = revision]
  OBVIOUS
<1>5. /\ u \in Scheduler /\ u.paused = s.paused /\ u.flight = s.flight /\ u.retries = s.retries
      /\ u.owner = n /\ u.began = s.began /\ u.says = s.says /\ u.pending = revision
      /\ u.timer = s.timer
  BY <1>1, <1>3, <1>4 DEF Scheduler
<1>6. t = IF o.pending >= revision THEN o
          ELSE IF u.paused \/ Busy(u) THEN u ELSE [u EXCEPT !.timer = "debounce"]
  BY <1>2, <1>4 DEF Scheduled
<1>7. s.pending \in Int /\ revision \in Int
  BY Fields
<1>8. CASE s.pending >= revision
  BY <1>3, <1>6, <1>7, <1>8
<1>9. CASE s.pending < revision
  <2>1. CASE u.paused \/ Busy(u)
    BY <1>3, <1>5, <1>6, <1>7, <1>9, <2>1
  <2>2. CASE ~(u.paused \/ Busy(u))
    <3>1. t = [u EXCEPT !.timer = "debounce"]
      BY <1>3, <1>6, <1>7, <1>9, <2>2
    <3> QED BY <1>5, <1>7, <1>9, <3>1 DEF Scheduler
  <2> QED BY <2>1, <2>2
<1> QED BY <1>7, <1>8, <1>9

\* start(): nothing while it is busy or paused, a verdict when nothing is queued, or a write.
StartsAs(s, pinned, t) ==
    \/ (Busy(s) \/ s.paused) /\ t.flight = s.flight /\ t.pending = s.pending
          /\ t.began = s.began /\ t.says = s.says
    \/ /\ ~Busy(s) /\ ~s.paused /\ ~Queued(s) /\ t.flight = s.flight /\ t.pending = s.pending
       /\ t.began = s.began /\ t.says = "durable"
    \/ /\ ~Busy(s) /\ ~s.paused /\ Queued(s) /\ t.pending = NoRevision /\ t.began
       /\ t.says = s.says /\ Busy(t)
       /\ t.flight.session = s.owner /\ t.flight.revision = pinned.revision
       /\ t.flight.expected = pinned.expected /\ t.flight.attempt = s.retries
       /\ t.flight.stage = "sent"

LEMMA StartedFields ==
    ASSUME NEW s \in Scheduler, Queued(s) => s.owner \in Sessions,
           NEW revision \in 0..MaxRevision, NEW expected \in Versions, NEW pinned,
           pinned = [revision |-> revision, expected |-> expected],
           NEW t, t = Started(s, pinned)
    PROVE  /\ t \in Scheduler /\ t.paused = s.paused /\ t.timer = s.timer
           /\ t.retries = s.retries /\ t.owner = s.owner /\ StartsAs(s, pinned, t)
<1>1. CASE Busy(s) \/ s.paused
  BY <1>1 DEF Started, StartsAs
<1>2. CASE ~Busy(s) /\ ~s.paused /\ ~Queued(s)
  <2>1. t = [s EXCEPT !.says = "durable"]
    BY <1>2 DEF Started, Settled
  <2> QED BY <1>2, <2>1 DEF StartsAs, Scheduler, Verdicts
<1>3. CASE ~Busy(s) /\ ~s.paused /\ Queued(s)
  <2> DEFINE f == [session |-> s.owner, revision |-> pinned.revision, expected |-> pinned.expected,
                   attempt |-> s.retries, stage |-> "sent"]
  <2>1. PICK g : g = f
    OBVIOUS
  <2>2. /\ g \in Flying /\ g.session = s.owner /\ g.revision = revision /\ g.expected = expected
        /\ g.attempt = s.retries /\ g.stage = "sent"
    BY <1>3, <2>1, Fields DEF Flying, Stages
  <2>3. t = [s EXCEPT !.pending = NoRevision, !.began = TRUE, !.flight = g]
    BY <1>3, <2>1 DEF Started
  <2>4. /\ t \in Scheduler /\ t.flight = g /\ t.pending = NoRevision /\ t.began /\ t.says = s.says
        /\ t.paused = s.paused /\ t.timer = s.timer /\ t.retries = s.retries /\ t.owner = s.owner
    BY <2>2, <2>3, NoRevisionBelow DEF Scheduler
  <2>5. Busy(t)
    BY <2>2, <2>4, Fields
  <2> QED BY <1>3, <2>2, <2>4, <2>5 DEF StartsAs
<1> QED BY <1>1, <1>2, <1>3

LEMMA UntimedFields ==
    ASSUME NEW s \in Scheduler, NEW t, t = [s EXCEPT !.timer = "none"]
    PROVE  /\ t \in Scheduler /\ t.timer = "none" /\ t.pending = s.pending /\ t.flight = s.flight
           /\ t.retries = s.retries /\ t.paused = s.paused /\ t.owner = s.owner
           /\ t.began = s.began /\ t.says = s.says
  BY DEF Scheduler

LEMMA FiredFields ==
    ASSUME NEW s \in Scheduler, Queued(s) => s.owner \in Sessions,
           NEW revision \in 0..MaxRevision, NEW expected \in Versions, NEW pinned,
           pinned = [revision |-> revision, expected |-> expected],
           NEW t, t = TimerFired(s, pinned)
    PROVE  /\ t \in Scheduler /\ t.paused = s.paused /\ t.timer = "none"
           /\ t.retries = s.retries /\ t.owner = s.owner /\ StartsAs(s, pinned, t)
<1>1. PICK u : u = [s EXCEPT !.timer = "none"]
  OBVIOUS
<1>2. /\ u \in Scheduler /\ u.timer = "none" /\ u.pending = s.pending /\ u.flight = s.flight
      /\ u.retries = s.retries /\ u.paused = s.paused /\ u.owner = s.owner
      /\ u.began = s.began /\ u.says = s.says
  BY <1>1, UntimedFields
<1>3. t = Started(u, pinned) /\ (Queued(u) <=> Queued(s)) /\ (Busy(u) <=> Busy(s))
  BY <1>1, <1>2 DEF TimerFired, Queued, Busy
<1>4. /\ t \in Scheduler /\ t.paused = u.paused /\ t.timer = u.timer
      /\ t.retries = u.retries /\ t.owner = u.owner /\ StartsAs(u, pinned, t)
  BY <1>2, <1>3, StartedFields
<1> QED BY <1>2, <1>3, <1>4 DEF StartsAs

\* flush(): as start(), of a channel that is no longer paused and has no timer.
LEMMA FlushedFields ==
    ASSUME NEW s \in Scheduler, Queued(s) => s.owner \in Sessions,
           NEW revision \in 0..MaxRevision, NEW expected \in Versions, NEW pinned,
           pinned = [revision |-> revision, expected |-> expected],
           NEW t, t = Flushed(s, pinned)
    PROVE  \E u \in Scheduler :
             /\ u.pending = s.pending /\ u.flight = s.flight /\ u.owner = s.owner /\ ~u.paused
             /\ u.began = s.began /\ u.says = s.says /\ u.retries \in 0..s.retries
             /\ t \in Scheduler /\ ~t.paused /\ t.timer = "none"
             /\ t.retries = u.retries /\ t.owner = s.owner /\ StartsAs(u, pinned, t)
<1>1. PICK w : w = IF s.paused THEN Woken(s) ELSE s
  OBVIOUS
<1>2. /\ w \in Scheduler /\ ~w.paused /\ w.pending = s.pending /\ w.flight = s.flight
      /\ w.owner = s.owner /\ w.began = s.began /\ w.says = s.says /\ w.retries \in 0..s.retries
  <2>1. CASE s.paused
    <3>1. w = Woken(s)
      BY <1>1, <2>1
    <3>2. 0 \in 0..s.retries
      BY Fields
    <3> QED BY <3>1, <3>2, WokenFields
  <2>2. CASE ~s.paused
    <3>1. s.retries \in 0..s.retries
      BY Fields
    <3> QED BY <1>1, <2>2, <3>1
  <2> QED BY <2>1, <2>2
<1>3. PICK u : u = [w EXCEPT !.timer = "none"]
  OBVIOUS
<1>4. /\ u \in Scheduler /\ u.timer = "none" /\ u.pending = s.pending /\ u.flight = s.flight
      /\ u.retries = w.retries /\ ~u.paused /\ u.owner = s.owner
      /\ u.began = s.began /\ u.says = s.says
  BY <1>2, <1>3, UntimedFields
<1>5. t = IF Busy(u) THEN u ELSE Started(u, pinned)
  BY <1>1, <1>3 DEF Flushed
<1>6. Queued(u) <=> Queued(s)
  BY <1>4 DEF Queued
<1>7. t = Started(u, pinned)
  BY <1>5 DEF Started
<1>8. /\ t \in Scheduler /\ t.paused = u.paused /\ t.timer = u.timer
      /\ t.retries = u.retries /\ t.owner = u.owner /\ StartsAs(u, pinned, t)
  BY <1>4, <1>6, <1>7, StartedFields
<1> QED BY <1>2, <1>4, <1>8

LEMMA RetriedFields ==
    ASSUME NEW s \in Scheduler, NEW t, t = Retried(s)
    PROVE  /\ t \in Scheduler /\ t.pending = s.pending /\ t.flight = s.flight
           /\ t.retries \in 0..s.retries /\ t.owner = s.owner
           /\ t.began = s.began /\ t.says = s.says /\ (~s.paused => ~t.paused)
           /\ Queued(s) => ~t.paused /\ (Busy(s) \/ t.timer = "debounce")
<1>0. 0 \in 0..s.retries /\ s.retries \in 0..s.retries
  BY Fields
<1>1. CASE ~Queued(s)
  BY <1>0, <1>1 DEF Retried
<1>2. CASE Queued(s)
  <2>1. PICK w : w = Woken(s)
    OBVIOUS
  <2>2. /\ w \in Scheduler /\ ~w.paused /\ w.pending = s.pending /\ w.flight = s.flight /\ w.retries = 0
        /\ w.owner = s.owner /\ w.began = s.began /\ w.says = s.says
    BY <2>1, WokenFields
  <2>3. PICK x \in {"none", "debounce"} : (x = "debounce" \/ Busy(s)) /\ t = [w EXCEPT !.timer = x]
    BY <1>2, <2>1 DEF Retried
  <2> QED BY <1>0, <2>2, <2>3 DEF Scheduler
<1> QED BY <1>1, <1>2

\* finish() of a write that landed.
LEMMA FinishedFields ==
    ASSUME NEW s \in Scheduler, Queued(s) => s.owner \in Sessions,
           NEW revision \in 0..MaxRevision, NEW expected \in Versions, NEW pinned,
           pinned = [revision |-> revision, expected |-> expected],
           NEW t, t = Finished(s, pinned)
    PROVE  \E u \in Scheduler :
             /\ u.flight = NoFlight /\ u.retries = 0 /\ u.pending = s.pending
             /\ u.timer = s.timer /\ u.paused = s.paused /\ u.owner = s.owner
             /\ u.began = s.began /\ u.says = s.says
             /\ t \in Scheduler /\ t.retries = u.retries /\ t.paused = u.paused /\ t.owner = u.owner
             /\ Live(s) /\ Queued(s) => StartsAs(u, pinned, t)
             /\ ~(Live(s) /\ Queued(s)) => Like(t, u) /\ t.began = s.began /\ t.says = "durable"
<1>1. PICK u : u = [s EXCEPT !.flight = NoFlight, !.retries = 0]
  OBVIOUS
<1>2. 0 \in 0..MaxRetries
  BY SchedulerAssumption
<1>3. /\ u \in Scheduler /\ u.flight = NoFlight /\ u.retries = 0 /\ u.pending = s.pending
      /\ u.timer = s.timer /\ u.paused = s.paused /\ u.owner = s.owner
      /\ u.began = s.began /\ u.says = s.says
  BY <1>1, <1>2 DEF Scheduler
<1>4. Queued(u) <=> Queued(s)
  BY <1>3 DEF Queued
<1>5. CASE Live(s) /\ Queued(s)
  <2>1. t = Started(u, pinned)
    BY <1>1, <1>5 DEF Finished
  <2>2. /\ t \in Scheduler /\ t.paused = u.paused /\ t.timer = u.timer
        /\ t.retries = u.retries /\ t.owner = u.owner /\ StartsAs(u, pinned, t)
    BY <1>3, <1>4, <2>1, StartedFields
  <2> QED BY <1>3, <1>5, <2>2
<1>6. CASE ~(Live(s) /\ Queued(s))
  <2>1. t = [u EXCEPT !.says = "durable"]
    BY <1>1, <1>6 DEF Finished, Settled
  <2>2. t \in Scheduler /\ Like(t, u) /\ t.began = s.began /\ t.says = "durable"
    BY <1>3, <2>1 DEF Scheduler, Verdicts, Like
  <2> QED BY <1>3, <1>6, <2>2 DEF Like
<1> QED BY <1>5, <1>6

\* finish() of a write that failed.
LEMMA FailedFields ==
    ASSUME NEW s \in Scheduler, Busy(s), NEW failure \in Failures, NEW t, t = Failed(s, failure)
    PROVE  /\ t \in Scheduler /\ t.paused = s.paused /\ t.owner = s.owner
           /\ t.flight = NoFlight /\ t.began = s.began /\ t.says \in {"cancelled", "failed", "unavailable"}
           /\ ~Live(s) => t.pending = s.pending
           /\ Live(s) => /\ t.pending = IF s.pending >= s.flight.revision THEN s.pending ELSE s.flight.revision
                         /\ failure = "retryable" /\ s.retries < MaxRetries => t.timer = "retry"
<1>0. s.flight \in Flying /\ s.flight.revision \in 0..MaxRevision
      /\ s.pending \in NoRevision..MaxRevision
  BY Fields DEF Flying
<1> DEFINE newest == IF s.pending >= s.flight.revision THEN s.pending ELSE s.flight.revision
<1>1. newest \in NoRevision..MaxRevision
  BY <1>0, NoRevisionBelow, EditorAssumption
<1>2. PICK u : u = [s EXCEPT !.flight = NoFlight]
  OBVIOUS
<1>3. /\ u \in Scheduler /\ u.flight = NoFlight /\ u.retries = s.retries /\ u.pending = s.pending
      /\ u.timer = s.timer /\ u.paused = s.paused /\ u.owner = s.owner
      /\ u.began = s.began /\ u.says = s.says
  BY <1>2 DEF Scheduler
<1>4. CASE ~Live(s)
  <2>1. t = [u EXCEPT !.says = "cancelled"]
    BY <1>2, <1>4 DEF Failed, Settled
  <2> QED BY <1>3, <1>4, <2>1 DEF Scheduler, Verdicts
<1>5. CASE Live(s)
  <2>1. PICK p \in NoRevision..MaxRevision : p = newest
    BY <1>1
  <2>2. PICK v : v = [u EXCEPT !.pending = p]
    OBVIOUS
  <2>3. /\ v \in Scheduler /\ v.flight = NoFlight /\ v.retries = s.retries /\ v.pending = p
        /\ v.timer = s.timer /\ v.paused = s.paused /\ v.owner = s.owner
        /\ v.began = s.began /\ v.says = s.says
    BY <1>3, <2>2 DEF Scheduler
  <2>4. PICK says \in {"failed", "unavailable"} :
          t = Settled(IF failure = "retryable" /\ s.retries < MaxRetries
                      THEN [v EXCEPT !.retries = @ + 1, !.timer = "retry"] ELSE v, says)
    BY <1>2, <1>3, <1>5, <2>1, <2>2 DEF Failed
  <2>5. CASE failure = "retryable" /\ s.retries < MaxRetries
    <3>1. PICK r \in 0..MaxRetries : r = s.retries + 1
      BY <2>5, Fields, SchedulerAssumption
    <3>2. t = [[v EXCEPT !.retries = r, !.timer = "retry"] EXCEPT !.says = says]
      BY <2>3, <2>4, <2>5, <3>1 DEF Settled
    <3> QED BY <1>5, <2>1, <2>3, <3>2 DEF Scheduler, Verdicts
  <2>6. CASE ~(failure = "retryable" /\ s.retries < MaxRetries)
    <3>1. t = [v EXCEPT !.says = says]
      BY <2>4, <2>6 DEF Settled
    <3> QED BY <1>5, <2>1, <2>3, <2>6, <3>1 DEF Scheduler, Verdicts
  <2> QED BY <2>5, <2>6
<1> QED BY <1>4, <1>5

--------------------------------------------------------------------------------
(* What a step of one channel comes to.                                       *)

LEMMA LikeHolds ==
    ASSUME NEW t, NEW n, Like(t, n), NEW c, NEW m, NEW st
    PROVE  Holds(c, t, m, st)' <=> Holds(c, n, m, st)'
<1>1. /\ Own(t)' <=> Own(n)'
      /\ Busy(t) <=> Busy(n)
      /\ Queued(t) <=> Queued(n)
      /\ Stuck(t) <=> Stuck(n)
  BY DEF Like, Own, Busy, Queued, Stuck
<1>2. Serves(t)' <=> Serves(n)'
  BY <1>1 DEF Like, Serves
<1>3. Stored(c, t, m, st)' <=> Stored(c, n, m, st)'
  BY <1>1 DEF Like, Stored
<1>4. Moving(c, t, m)' <=> Moving(c, n, m)'
  BY <1>1 DEF Like, Moving, Aboard
<1>6. Aboard(c, t, m)' <=> Aboard(c, n, m)'
  BY <1>1 DEF Like, Aboard
<1>5. Newest(t, m, st)' <=> Newest(n, m, st)'
  BY <1>1 DEF Like, Newest
<1> QED BY <1>1, <1>2, <1>3, <1>4, <1>5, <1>6 DEF Holds, Ready

LEMMA BeganFields ==
    ASSUME NEW c \in Channels, NEW m \in Watermark, NEW b, b = Began(c, m)
    PROVE  /\ b \in Watermark /\ b.durable = m.durable /\ b.active
           /\ b.status = IF c = "local" THEN "writing" ELSE "saving"
<1>1. PICK x \in Statuses : x = IF c = "local" THEN "writing" ELSE "saving"
  BY DEF Statuses
<1>2. b = [m EXCEPT !.active = TRUE, !.status = x]
  BY <1>1 DEF Began
<1> QED BY <1>1, <1>2 DEF Watermark

\* The watermark record of a channel whose scheduler became n.
Marked(c, n, m) == IF n.began THEN Began(c, m) ELSE m

LEMMA MarkedFields ==
    ASSUME NEW c \in Channels, NEW m \in Watermark, NEW n \in Scheduler, NEW b, b = Marked(c, n, m)
    PROVE  /\ b \in Watermark /\ b.durable = m.durable
           /\ n.began => b.active /\ b.status = IF c = "local" THEN "writing" ELSE "saving"
           /\ ~n.began => b = m
  BY BeganFields DEF Marked

\* A channel that a step leaves alone.
LEMMA HoldsRests ==
    ASSUME NEW c \in Channels, NEW s \in Scheduler, NEW m \in Watermark, NEW st, Holds(c, s, m, st),
           UNCHANGED <<session, current, opened>>, head \in Nat, head' \in Nat, head <= head',
           c = "remote" => online' = online \/ online', excused \subseteq excused'
    PROVE  Holds(c, s, m, st)'
<1>1. /\ open' = open /\ remoteEnabled' = remoteEnabled /\ head \in Int /\ head' \in Int
      /\ Own(s)' <=> Own(s)
  BY DEF open, remoteEnabled, Own
<1>2. Busy(s) => s.flight.expected \in Int
  BY Fields DEF Flying, Versions, NoVersion
<1>3. Serves(s)'
  BY <1>1, <1>2 DEF Holds, Ready, Serves
<1>4. Stored(c, s, m, st)'
  BY <1>1, <1>2 DEF Holds, Ready, Stored, Takes, Own
<1>5. Aboard(c, s, m)' /\ Moving(c, s, m)'
  BY <1>1 DEF Holds, Moving, Aboard
<1>6. c = "local" => Newest(s, m, st)'
  BY <1>1 DEF Holds, Ready, Newest
<1> QED BY <1>3, <1>4, <1>5, <1>6 DEF Holds, Ready

LEMMA ChannelRests ==
    ASSUME Types, Types', NEW c \in Channels, ChannelInv(c),
           scheduler'[c] = scheduler[c], machine'[c] = machine[c], stored'[c] = stored[c],
           UNCHANGED <<session, current, opened>>, head <= head',
           c = "remote" => online' = online \/ online', excused \subseteq excused'
    PROVE  ChannelInv(c)'
<1>1. PICK s, m, st : s = scheduler[c] /\ m = machine[c] /\ st = stored[c]
  OBVIOUS
<1>2. s \in Scheduler /\ m \in Watermark /\ head \in Nat /\ head' \in Nat
  BY <1>1 DEF Types
<1>3. Holds(c, s, m, st)
  BY <1>1 DEF ChannelInv
<1>4. Holds(c, s, m, st)'
  BY <1>2, <1>3, HoldsRests
<1> QED BY <1>1, <1>4 DEF ChannelInv

\* What is on screen is safe when the machine says so.
LEMMA WatermarksAreHonest ==
    ASSUME EditorInv
    PROVE  /\ WatermarksHonest /\ LeavingLosesNothing
           /\ open /\ ~hasUnprotectedWork /\ current > 0 => \E d \in Channels : stored[d] >= current
<1>1. /\ machine["local"].durable \in Int /\ machine["remote"].durable \in Int
      /\ stored["local"] \in Int /\ stored["remote"] \in Int /\ current \in Int
  BY EditorAssumption DEF EditorInv, Types, Watermark, Channels, NothingDurable
<1>2. open => /\ machine["local"].durable <= stored["local"]
              /\ machine["remote"].durable <= stored["remote"]
              /\ remoteEnabled => machine["remote"].durable >= 0
  BY DEF EditorInv, ChannelInv, Holds, Ready, Stored, Channels
<1>3. WatermarksHonest
  BY <1>2 DEF WatermarksHonest, Channels
<1>4. open /\ ~hasUnprotectedWork /\ current > 0 => ~uncommitted /\ \E d \in Channels : stored[d] >= current
  BY <1>1, <1>2 DEF hasUnprotectedWork, clean, isCurrentRevisionLocallyDurable,
       isCurrentRevisionRemotelyAcknowledged, locally, remotely, Channels
<1>5. open /\ clean /\ remoteEnabled => ~uncommitted /\ stored["remote"] >= current
  BY <1>1, <1>2 DEF clean, locally, remotely
<1> QED BY <1>3, <1>4, <1>5 DEF LeavingLosesNothing, mayLeave

\* An answered flush is true.
LEMMA AnswersAreTrue ==
    ASSUME Types, ~misled, NEW c \in Channels, NEW asked \in (0..MaxRevision) \cup {NoAsk}, NEW says,
           Answers(c, asked, says), asked # NoAsk => asked <= current',
           c = "local" /\ says = "durable" /\ open' /\ "local" \notin excused' =>
               ~Queued(scheduler["local"])' /\ ~Busy(scheduler["local"])',
           current' \in 0..MaxRevision,
           open' /\ ~hasUnprotectedWork' /\ current' > 0 => \E d \in Channels : stored'[d] >= current',
           \A d \in Channels : stored'[d] \in Int,
           open' /\ "local" \notin excused' /\ current' > 0
             /\ ~Queued(scheduler["local"])' /\ ~Busy(scheduler["local"])' =>
               stored'["local"] = current' \/ machine'["local"].status = "unavailable"
    PROVE  ~misled' /\ Asked' /\ ask' \in (0..MaxRevision) \cup {NoAsk}
<1>1. current' \in Int /\ (asked # NoAsk => asked \in Int)
  BY EditorAssumption
<1>2. Asked' /\ ask' \in (0..MaxRevision) \cup {NoAsk}
  BY <1>1 DEF Answers, Asked
<1>3. ASSUME c = "local", says = "durable", asked # NoAsk, Honest' = "durable", "local" \notin excused',
             asked > 0
      PROVE  \E d \in Channels : stored'[d] >= asked
  <2>1. open' /\ ~(hasUnprotectedWork' /\ machine'["local"].status = "unavailable")
    BY <1>3 DEF Honest, locally
  <2>2. current' > 0 /\ current' >= asked
    BY <1>1, <1>3
  <2>3. \E d \in Channels : stored'[d] >= current'
    BY <1>1, <1>3, <2>1, <2>2 DEF Channels
  <2> QED BY <1>1, <1>3, <2>2, <2>3
<1>4. ~misled'
  <2>1. ASSUME c = "local", says = "durable", asked # NoAsk, Honest' = "durable", "local" \notin excused',
               asked > 0
        PROVE  ~\A d \in Channels : stored'[d] < asked
    <3>1. PICK d \in Channels : stored'[d] >= asked
      BY <1>3, <2>1
    <3>2. stored'[d] \in Int /\ asked \in Int
      BY <1>1, <2>1
    <3> QED BY <3>1, <3>2
  <2> QED BY <2>1 DEF Answers
<1> QED BY <1>2, <1>4

\* The shape of a step of one channel's scheduler.
LEMMA StepsShape ==
    ASSUME Types, NEW c \in Channels, NEW n \in Scheduler, NEW m \in Watermark,
           scheduler' = [scheduler EXCEPT ![c] = Quiet(n)], machine' = [machine EXCEPT ![c] = Marked(c, n, m)]
    PROVE  /\ scheduler' \in [Channels -> Scheduler] /\ machine' \in [Channels -> Watermark]
           /\ Like(scheduler'[c], n) /\ ~scheduler'[c].began /\ scheduler'[c].says = "none"
           /\ machine'[c] = Marked(c, n, m)
           /\ \A d \in Channels \ {c} : scheduler'[d] = scheduler[d] /\ machine'[d] = machine[d]
<1>1. scheduler \in [Channels -> Scheduler] /\ machine \in [Channels -> Watermark]
  BY DEF Types
<1>2. PICK q : q = Quiet(n)
  OBVIOUS
<1>3. q \in Scheduler /\ Like(q, n) /\ ~q.began /\ q.says = "none"
  BY <1>2, QuietFields
<1>4. PICK b : b = Marked(c, n, m)
  OBVIOUS
<1>5. b \in Watermark
  BY <1>4, MarkedFields
<1>6. scheduler' = [scheduler EXCEPT ![c] = q] /\ machine' = [machine EXCEPT ![c] = b]
  BY <1>2, <1>4
<1> QED BY <1>1, <1>3, <1>4, <1>5, <1>6

\* What Steps says, and that what is forced stays known.
LEMMA StepsParts ==
    ASSUME EditorInv, NEW c, NEW n, NEW m, NEW asked, Steps(c, n, m, asked),
           rivals' = rivals, told \subseteq told'
    PROVE  /\ scheduler' = [scheduler EXCEPT ![c] = Quiet(n)]
           /\ machine' = [machine EXCEPT ![c] = Marked(c, n, m)]
           /\ forced' \in NoVersion..head /\ (open => Knows(forced)')
           /\ Answers(c, asked, n.says)
<1>1. /\ scheduler' = [scheduler EXCEPT ![c] = Quiet(n)]
      /\ machine' = [machine EXCEPT ![c] = Marked(c, n, m)]
      /\ Answers(c, asked, n.says) /\ forced' \in {forced, NoVersion}
  BY DEF Steps, Marked
<1>2. NoVersion \in NoVersion..head /\ forced \in NoVersion..head
  BY DEF EditorInv, Types, NoVersion
<1>3. \A v \in rivals : ~(v <= NoVersion)
  BY DEF EditorInv, Types, NoVersion
<1>4. open => Knows(forced)'
  BY <1>1, <1>3 DEF EditorInv, Informed, Knows
<1> QED BY <1>1, <1>2, <1>4

\* Most steps: one channel's scheduler becomes n, its watermark m before a write that begins.
LEMMA StepsKeep ==
    ASSUME EditorInv, NEW c \in Channels, NEW n \in Scheduler, NEW m \in Watermark,
           NEW asked \in (0..MaxRevision) \cup {NoAsk}, Answers(c, asked, n.says),
           scheduler' = [scheduler EXCEPT ![c] = Quiet(n)], machine' = [machine EXCEPT ![c] = Marked(c, n, m)],
           forced' \in NoVersion..head, open => Knows(forced)',
           UNCHANGED <<session, opened, current, online, publish, head, stored, rivals>>,
           excused \subseteq excused', excused' \subseteq Channels,
           told \subseteq told', told' \subseteq rivals,
           {uncommitted', link', conflict', probing', decided'} \subseteq BOOLEAN,
           reads' \subseteq Readings, token' \in NoVersion..head,
           Holds(c, n, Marked(c, n, m), stored[c])',
           open => Knows(token)',
           c = "remote" /\ Own(n) => Knows(n.flight.expected)',
           asked # NoAsk => asked <= current,
           c = "local" /\ n.says = "durable" /\ open /\ "local" \notin excused => ~Queued(n) /\ ~Busy(n)
    PROVE  EditorInv'
<1>1. Types
  BY DEF EditorInv
<1>2. /\ scheduler' \in [Channels -> Scheduler] /\ machine' \in [Channels -> Watermark]
      /\ Like(scheduler'[c], n) /\ ~scheduler'[c].began /\ scheduler'[c].says = "none"
      /\ machine'[c] = Marked(c, n, m)
      /\ \A d \in Channels \ {c} : scheduler'[d] = scheduler[d] /\ machine'[d] = machine[d]
  BY <1>1, StepsShape
<1>3. ask' \in (0..MaxRevision) \cup {NoAsk} /\ misled' \in BOOLEAN
  <2>1. ask' \in (0..MaxRevision) \cup {NoAsk}
    BY DEF Answers
  <2>2. misled' \in BOOLEAN
    BY <1>1 DEF Types, Answers
  <2> QED BY <2>1, <2>2
<1>4. Types'
  BY <1>1, <1>2, <1>3 DEF Types
<1>5. PICK t, b, st : t = scheduler'[c] /\ b = machine'[c] /\ st = stored'[c]
  OBVIOUS
<1>6. Holds(c, n, b, st)' /\ Like(t, n)
  BY <1>2, <1>5
<1>7. Holds(c, t, b, st)'
  BY <1>6, LikeHolds
<1>8. ChannelInv(c)'
  BY <1>2, <1>5, <1>7 DEF ChannelInv
<1>9. ASSUME NEW d \in Channels \ {c} PROVE ChannelInv(d)'
  <2>1. head <= head' /\ stored'[d] = stored[d]
    BY <1>1 DEF Types
  <2> QED BY <1>1, <1>2, <1>4, <2>1, ChannelRests DEF EditorInv
<1>10. \A d \in Channels : ChannelInv(d)'
  BY <1>8, <1>9
<1>11. Published'
  BY DEF EditorInv, Published
<1>12. Informed'
  <2>1. open' = open /\ rivals' = rivals /\ (\A v : Knows(v) => Knows(v)')
    BY DEF open, Knows
  <2>4. ASSUME Own(scheduler["remote"])' PROVE Knows(scheduler["remote"].flight.expected)'
    <3>1. CASE c = "remote"
      <4>1. Own(n)' /\ scheduler'["remote"].flight = n.flight
        BY <1>2, <2>4, <3>1 DEF Like, Own, Busy
      <4> QED BY <3>1, <4>1 DEF Own, Knows
    <3>2. CASE c # "remote"
      <4>1. scheduler'["remote"] = scheduler["remote"]
        BY <1>2, <3>2 DEF Channels
      <4> QED BY <2>1, <2>4, <4>1 DEF EditorInv, Informed, Own, Knows
    <3> QED BY <3>1, <3>2
  <2> QED BY <2>1, <2>4 DEF Informed
<1>13. ~misled' /\ Asked'
  <2>1. c = "local" /\ n.says = "durable" /\ open' /\ "local" \notin excused' =>
               ~Queued(scheduler["local"])' /\ ~Busy(scheduler["local"])'
    BY <1>2 DEF open, Like, Queued, Busy
  <2>2. Newest(scheduler["local"], machine["local"], stored["local"])'
    BY <1>10 DEF ChannelInv, Holds, Ready, Channels
  <2>3. \A d \in Channels : stored'[d] \in Int
    BY <1>1 DEF Types, NothingDurable
  <2>4. open' /\ ~hasUnprotectedWork' /\ current' > 0 => \E d \in Channels : stored'[d] >= current'
    <3>1. open' => /\ machine'["local"].durable <= stored'["local"]
                   /\ machine'["remote"].durable <= stored'["remote"]
      BY <1>10 DEF ChannelInv, Holds, Ready, Stored, Channels
    <3>2. /\ machine'["local"].durable \in Int /\ machine'["remote"].durable \in Int
          /\ stored'["local"] \in Int /\ stored'["remote"] \in Int /\ current' \in Int
      BY <1>4, EditorAssumption DEF Types, Watermark, Channels, NothingDurable
    <3> QED BY <3>1, <3>2 DEF hasUnprotectedWork, clean, isCurrentRevisionLocallyDurable,
         isCurrentRevisionRemotelyAcknowledged, locally, remotely, Channels
  <2>5. /\ ~misled /\ current' \in 0..MaxRevision
        /\ asked # NoAsk => asked <= current'
    BY <1>1 DEF EditorInv, Types
  <2> QED BY <1>1, <1>2, <2>1, <2>2, <2>3, <2>4, <2>5, AnswersAreTrue DEF Newest
<1>14. ~open' => current' = 0
  BY DEF EditorInv, open
<1> QED BY <1>4, <1>10, <1>11, <1>12, <1>13, <1>14 DEF EditorInv

--------------------------------------------------------------------------------
(* Writes that start, land and are answered.                                  *)

\* A start leaves nothing stuck: what a write captures is the newest.
LEMMA StartHolds ==
    ASSUME session' \in [id: 0..MaxSessions, kind: {"guest", "workspace"}], session'.id \in {0, opened'},
           opened' \in 0..MaxSessions, current' \in 0..MaxRevision,
           NEW c \in Channels, NEW u \in Scheduler, NEW m \in Watermark, NEW st \in Int, NEW pinned, NEW n \in Scheduler, Ready(c, u, m, st)', StartsAs(u, pinned, n),
           ~u.began, u.says = "none", n.paused = u.paused, n.owner = u.owner, n.retries = u.retries,
           pinned.revision = current', pinned.expected <= head'
    PROVE  /\ Holds(c, n, Marked(c, n, m), st)'
           /\ c = "local" /\ n.says = "durable" => ~Queued(n) /\ ~Busy(n)
           /\ Busy(n) => n.flight = u.flight \/ n.flight.expected = pinned.expected
<1>1. PICK b : b = Marked(c, n, m)
  OBVIOUS
<1>2. /\ b \in Watermark /\ b.durable = m.durable
      /\ n.began => b.active /\ b.status = IF c = "local" THEN "writing" ELSE "saving"
      /\ ~n.began => b = m
  BY <1>1, MarkedFields
<1>3. /\ Serves(u)' /\ Stored(c, u, m, st)' /\ Aboard(c, u, m)'
      /\ c = "local" => Newest(u, m, st)'
  BY DEF Ready
<1>4. CASE ~n.began
  <2>1. n.flight = u.flight /\ n.pending = u.pending /\ b = m
    BY <1>2, <1>4 DEF StartsAs
  <2>2. /\ Own(n)' <=> Own(u)'
        /\ Busy(n) <=> Busy(u)
        /\ Queued(n) <=> Queued(u)
    BY <2>1 DEF Own, Busy, Queued
  <2>3. Serves(n)'
    BY <1>3, <2>1, <2>2 DEF Serves
  <2>4. Stored(c, n, b, st)'
    BY <1>3, <2>1, <2>2 DEF Stored
  <2>5. Aboard(c, n, b)'
    BY <1>3, <2>1, <2>2 DEF Aboard
  <2>6. c = "local" => Newest(n, b, st)'
    BY <1>3, <2>1, <2>2 DEF Newest
  <2>7. ~Stuck(n)
    BY <1>4, <2>1, <2>2 DEF StartsAs, Stuck, Busy
  <2>8. Holds(c, n, b, st)'
    BY <2>3, <2>4, <2>5, <2>6, <2>7 DEF Holds, Ready, Moving, Stuck, Queued, Busy
  <2>9. n.says = "durable" => ~Queued(n) /\ ~Busy(n)
    BY <1>4, <2>2 DEF StartsAs
  <2> QED BY <1>1, <2>1, <2>8, <2>9
<1>5. CASE n.began
  <2>1. /\ ~Busy(u) /\ ~u.paused /\ Queued(u) /\ n.pending = NoRevision /\ n.says = u.says /\ Busy(n)
        /\ n.flight.session = u.owner /\ n.flight.revision = current'
        /\ n.flight.expected = pinned.expected /\ n.flight.attempt = u.retries
        /\ n.flight.stage = "sent"
    BY <1>5 DEF StartsAs
  <2>2. open' /\ u.owner = session'.id /\ u.owner <= opened'
    BY <1>3, <2>1, EditorAssumption DEF Serves, open
  <2>3. Own(n)' /\ ~Queued(n)
    BY <2>1, <2>2 DEF Own, Queued, Busy
  <2>4. current' \in Int /\ n.retries \in Int
    BY EditorAssumption, SchedulerAssumption, Fields
  <2>5. Serves(n)'
    BY <2>1, <2>2, <2>3, <2>4 DEF Serves
  <2>6. Stored(c, n, b, st)'
    BY <1>2, <1>3, <2>1, <2>2, <2>3, <2>4 DEF Stored
  <2>7. Aboard(c, n, b)'
    BY <1>2, <1>3, <1>5, <2>1, <2>2, <2>3 DEF Aboard
  <2>8. c = "local" => Newest(n, b, st)'
    BY <1>2, <1>3, <1>5, <2>1 DEF Newest
  <2>9. Holds(c, n, b, st)'
    BY <2>3, <2>5, <2>6, <2>7, <2>8 DEF Holds, Ready, Moving, Stuck, Queued
  <2> QED BY <1>1, <2>1, <2>9
<1> QED BY <1>4, <1>5

\* What a channel captures: what is on screen, against a version the user knows of.
LEMMA CaptureFields ==
    ASSUME EditorInv, NEW c \in Channels
    PROVE  \E e \in Versions : /\ capture(c) = [revision |-> current, expected |-> e] /\ e <= head
                               /\ c = "remote" /\ open => Knows(e)
<1>1. /\ forced \in Versions /\ token \in Versions /\ NoVersion \in Versions
      /\ forced <= head /\ token <= head /\ NoVersion <= head
  BY DEF EditorInv, Types, Versions, NoVersion
<1>2. open => Knows(forced) /\ Knows(token)
  BY DEF EditorInv, Informed
<1>3. Expected \in Versions /\ Expected <= head /\ (open => Knows(Expected))
  BY <1>1, <1>2 DEF Expected
<1>4. CASE c = "remote"
  BY <1>3, <1>4 DEF capture, Capture
<1>5. CASE c = "local"
  BY <1>1, <1>5 DEF capture, Capture
<1> QED BY <1>4, <1>5 DEF Channels

LEMMA QueueOwner ==
    ASSUME Types, NEW s \in Scheduler, Serves(s), Queued(s)
    PROVE  s.owner \in Sessions
<1>1. s.owner = session.id /\ session.id # 0 /\ session.id \in 0..MaxSessions
  BY DEF Serves, Types, open
<1> QED BY <1>1, EditorAssumption DEF Sessions

\* A channel as the invariant has it.
LEMMA AtChannel ==
    ASSUME EditorInv, NEW c \in Channels, NEW s, s = scheduler[c], NEW m, m = machine[c], NEW st, st = stored[c]
    PROVE  /\ s \in Scheduler /\ m \in Watermark /\ st \in Int /\ Holds(c, s, m, st)
           /\ ~s.began /\ s.says = "none"
           /\ Queued(s) => s.owner \in Sessions
<1>1. s \in Scheduler /\ m \in Watermark /\ st \in Int
  BY EditorAssumption DEF EditorInv, Types, NothingDurable
<1>2. Holds(c, s, m, st) /\ ~s.began /\ s.says = "none"
  BY DEF EditorInv, ChannelInv
<1> QED BY <1>1, <1>2, QueueOwner DEF EditorInv, Holds, Ready

\* Waking a channel keeps it ready.
LEMMA WokenReady ==
    ASSUME NEW c \in Channels, NEW s \in Scheduler, NEW m \in Watermark, NEW st \in Int, Ready(c, s, m, st)',
           NEW u \in Scheduler, u.pending = s.pending, u.flight = s.flight, u.owner = s.owner,
           u.retries \in 0..s.retries, u.paused => s.paused,
           c = "remote" /\ c \notin excused' => u.paused = s.paused \/ online'
    PROVE  Ready(c, u, m, st)'
<1>1. /\ Own(u)' <=> Own(s)'
      /\ Busy(u) <=> Busy(s)
      /\ Queued(u) <=> Queued(s)
  BY DEF Own, Busy, Queued
<1>2. u.retries \in Int /\ u.retries <= s.retries /\ s.retries \in Int
  BY SchedulerAssumption, Fields
<1>3. Busy(s) => s.flight.attempt \in Int
  BY SchedulerAssumption, Fields DEF Flying
<1>4. Serves(u)'
  BY <1>1, <1>2, <1>3 DEF Ready, Serves
<1>5. Stored(c, u, m, st)'
  BY <1>1 DEF Ready, Stored
<1>6. Aboard(c, u, m)'
  BY <1>1 DEF Ready, Aboard
<1>7. c = "local" => Newest(u, m, st)'
  BY <1>1 DEF Ready, Newest
<1> QED BY <1>4, <1>5, <1>6, <1>7 DEF Ready

\* What every step of a scheduler alone leaves typed, as StepsKeep wants it.
LEMMA TypedRest ==
    ASSUME EditorInv
    PROVE  /\ {uncommitted, link, conflict, probing, decided} \subseteq BOOLEAN /\ reads \subseteq Readings
           /\ token \in NoVersion..head /\ told \subseteq rivals /\ excused \subseteq Channels
           /\ head \in Nat /\ ask \in (0..MaxRevision) \cup {NoAsk} /\ (ask # NoAsk => ask <= current)
           /\ current \in 0..MaxRevision /\ (open => Knows(token))
  BY DEF EditorInv, Types, Asked, Informed

\* A step in which a channel that is ready, u, may start a write of what cap captured.
LEMMA StartKeeps ==
    ASSUME EditorInv, NEW c \in Channels, NEW u \in Scheduler, NEW n \in Scheduler, NEW m \in Watermark,
           NEW asked \in (0..MaxRevision) \cup {NoAsk}, Answers(c, asked, n.says),
           scheduler' = [scheduler EXCEPT ![c] = Quiet(n)], machine' = [machine EXCEPT ![c] = Marked(c, n, m)],
           forced' \in NoVersion..head, open => Knows(forced)',
           UNCHANGED <<session, opened, current, online, publish, head, stored, rivals>>,
           excused \subseteq excused', excused' \subseteq Channels,
           told \subseteq told', told' \subseteq rivals,
           {uncommitted', link', conflict', probing', decided'} \subseteq BOOLEAN,
           reads' \subseteq Readings, token' \in NoVersion..head,
           open => Knows(token)',
           asked # NoAsk => asked <= current,
           Ready(c, u, m, stored[c])', ~u.began, u.says = "none",
           n.paused = u.paused, n.owner = u.owner, n.retries = u.retries,
           NEW e \in Versions, e <= head, c = "remote" /\ open => Knows(e)',
           c = "remote" /\ Own(u) => Knows(u.flight.expected)',
           NEW cap, cap = [revision |-> current, expected |-> e], StartsAs(u, cap, n)
    PROVE  EditorInv'
<1>1. /\ session \in [id: 0..MaxSessions, kind: {"guest", "workspace"}] /\ session.id \in {0, opened}
      /\ opened \in 0..MaxSessions /\ current \in 0..MaxRevision /\ stored[c] \in Int
  BY EditorAssumption DEF EditorInv, Types, NothingDurable
<1>2. cap.revision = current' /\ cap.expected = e /\ cap.expected <= head'
  OBVIOUS
<1>3. PICK st \in Int : st = stored[c] /\ st = stored'[c]
  BY <1>1
<1>4. Ready(c, u, m, st)'
  BY <1>3
<1>5. /\ Holds(c, n, Marked(c, n, m), st)'
      /\ c = "local" /\ n.says = "durable" => ~Queued(n) /\ ~Busy(n)
      /\ Busy(n) => n.flight = u.flight \/ n.flight.expected = cap.expected
  BY <1>1, <1>2, <1>4, StartHolds
<1>6. Holds(c, n, Marked(c, n, m), stored[c])'
  BY <1>3, <1>5
<1>7. ASSUME c = "remote", Own(n) PROVE Knows(n.flight.expected)'
  <2>1. CASE n.flight = u.flight
    <3>1. Own(u)
      BY <1>7, <2>1 DEF Own, Busy
    <3> QED BY <1>7, <2>1, <3>1
  <2>2. CASE n.flight # u.flight
    <3>1. n.flight.session = u.owner /\ n.flight.expected = e
      BY <1>2, <1>5, <1>7, <2>2 DEF Own, StartsAs
    <3>2. open
      BY <1>4, <1>7, <2>2, <3>1 DEF Own, StartsAs, Ready, Serves, open
    <3> QED BY <1>7, <3>1, <3>2
  <2> QED BY <2>1, <2>2
<1> QED BY <1>5, <1>6, <1>7, StepsKeep

LEMMA FiresKeeps ==
    ASSUME EditorInv, NEW c \in Channels, Fires(c)
    PROVE  EditorInv'
<1>1. PICK s, m, st : s = scheduler[c] /\ m = machine[c] /\ st = stored[c]
  OBVIOUS
<1>2. /\ s \in Scheduler /\ m \in Watermark /\ st \in Int /\ Holds(c, s, m, st)
      /\ ~s.began /\ s.says = "none"
      /\ Queued(s) => s.owner \in Sessions
  BY <1>1, AtChannel
<1>3. PICK e \in Versions : /\ capture(c) = [revision |-> current, expected |-> e] /\ e <= head
                            /\ c = "remote" /\ open => Knows(e)
  BY CaptureFields
<1>4. PICK cap : cap = [revision |-> current, expected |-> e]
  OBVIOUS
<1>5. PICK n : n = TimerFired(s, cap)
  OBVIOUS
<1>6. /\ UNCHANGED <<session, current, uncommitted, online, link, token, conflict, probing, reads, publish, head,
                     stored, opened, events, rivals, decided, told, excused>>
      /\ Steps(c, n, m, ask)
  BY <1>1, <1>3, <1>4, <1>5 DEF Fires
<1>7. /\ current \in 0..MaxRevision /\ head \in Nat
      /\ {uncommitted, link, conflict, probing, decided} \subseteq BOOLEAN /\ reads \subseteq Readings
      /\ token \in NoVersion..head /\ told \subseteq rivals /\ excused \subseteq Channels
      /\ ask \in (0..MaxRevision) \cup {NoAsk} /\ (ask # NoAsk => ask <= current)
      /\ open => Knows(token)
  BY TypedRest
<1>8. /\ n \in Scheduler /\ n.paused = s.paused /\ n.retries = s.retries /\ n.owner = s.owner
      /\ StartsAs(s, cap, n)
  BY <1>2, <1>4, <1>5, <1>7, FiredFields
<1>9. Ready(c, s, m, stored[c])'
  <2>1. Holds(c, s, m, st)'
    BY <1>2, <1>6, <1>7, HoldsRests
  <2>2. st = stored'[c]
    BY <1>1, <1>6
  <2> QED BY <2>1, <2>2 DEF Holds
<1>10. /\ scheduler' = [scheduler EXCEPT ![c] = Quiet(n)]
       /\ machine' = [machine EXCEPT ![c] = Marked(c, n, m)]
       /\ forced' \in NoVersion..head /\ (open => Knows(forced)')
       /\ Answers(c, ask, n.says)
  BY <1>6, StepsParts
<1>11. /\ \A v : Knows(v) => Knows(v)'
       /\ open' = open
  BY <1>6 DEF Knows, open
<1>12. c = "remote" /\ Own(s) => Knows(s.flight.expected)'
  BY <1>1, <1>6 DEF EditorInv, Informed, Knows, Own
<1>13. (open => Knows(token)') /\ (c = "remote" /\ open => Knows(e)')
  BY <1>3, <1>6, <1>7 DEF Knows
<1> QED BY <1>2, <1>3, <1>4, <1>6, <1>7, <1>8, <1>9, <1>10, <1>12, <1>13, StartKeeps

LEMMA FlushKeeps ==
    ASSUME EditorInv, Flush
    PROVE  EditorInv'
<1> DEFINE c == "local"
<1>1. PICK s, m, st : s = scheduler[c] /\ m = machine[c] /\ st = stored[c]
  OBVIOUS
<1>2. /\ s \in Scheduler /\ m \in Watermark /\ st \in Int /\ Holds(c, s, m, st)
      /\ ~s.began /\ s.says = "none" /\ c \in Channels
      /\ Queued(s) => s.owner \in Sessions
  BY <1>1, AtChannel DEF Channels
<1>3. PICK e \in Versions : capture(c) = [revision |-> current, expected |-> e] /\ e <= head
  BY <1>2, CaptureFields
<1>4. PICK cap : cap = [revision |-> current, expected |-> e]
  OBVIOUS
<1>5. PICK n : n = Flushed(s, cap)
  OBVIOUS
<1>6. /\ UNCHANGED <<opened, session, current, uncommitted, online, link, token, conflict, probing, reads,
                     publish, head, stored, rivals, decided, told, excused>>
      /\ Steps(c, n, m, current)
  BY <1>1, <1>3, <1>4, <1>5 DEF Flush, locally
<1>7. /\ current \in 0..MaxRevision /\ head \in Nat
      /\ {uncommitted, link, conflict, probing, decided} \subseteq BOOLEAN /\ reads \subseteq Readings
      /\ token \in NoVersion..head /\ told \subseteq rivals /\ excused \subseteq Channels
      /\ open => Knows(token)
  BY TypedRest
<1>8. PICK u \in Scheduler :
             /\ u.pending = s.pending /\ u.flight = s.flight /\ u.owner = s.owner /\ ~u.paused
             /\ u.began = s.began /\ u.says = s.says /\ u.retries \in 0..s.retries
             /\ n \in Scheduler /\ ~n.paused /\ n.timer = "none"
             /\ n.retries = u.retries /\ n.owner = s.owner /\ StartsAs(u, cap, n)
  BY <1>2, <1>4, <1>5, <1>7, FlushedFields
<1>9. Ready(c, u, m, stored[c])'
  <2>1. Holds(c, s, m, st)'
    BY <1>2, <1>6, <1>7, HoldsRests
  <2>2. Ready(c, s, m, st)'
    BY <2>1 DEF Holds
  <2>3. Ready(c, u, m, st)'
    BY <1>2, <1>8, <2>2, WokenReady
  <2>4. st = stored'[c]
    BY <1>1, <1>6
  <2> QED BY <2>3, <2>4
<1>10. /\ scheduler' = [scheduler EXCEPT ![c] = Quiet(n)]
       /\ machine' = [machine EXCEPT ![c] = Marked(c, n, m)]
       /\ forced' \in NoVersion..head /\ (open => Knows(forced)')
       /\ Answers(c, current, n.says)
  BY <1>6, StepsParts
<1>11. open => Knows(token)'
  BY <1>6, <1>7 DEF Knows
<1>12. current <= current
  BY <1>7, EditorAssumption
<1>13. n.paused = u.paused /\ n.owner = u.owner /\ ~u.began /\ u.says = "none"
  BY <1>2, <1>8, Fields
<1> QED BY <1>2, <1>3, <1>4, <1>6, <1>7, <1>8, <1>9, <1>10, <1>11, <1>12, <1>13, StartKeeps

--------------------------------------------------------------------------------
(* Answers of the stores.                                                     *)

\* As HoldsRests, where what is queued may not be moving yet.
LEMMA ReadyRests ==
    ASSUME NEW c \in Channels, NEW s \in Scheduler, NEW m \in Watermark, NEW st, Ready(c, s, m, st),
           UNCHANGED <<session, current, opened, head, online, excused>>
    PROVE  Ready(c, s, m, st)'
<1>1. /\ open' = open /\ remoteEnabled' = remoteEnabled
      /\ Own(s)' <=> Own(s)
  BY DEF open, remoteEnabled, Own
<1>2. Serves(s)' /\ Stored(c, s, m, st)'
  BY <1>1 DEF Ready, Serves, Stored, Takes
<1>3. Aboard(c, s, m)' /\ (c = "local" => Newest(s, m, st)')
  BY <1>1 DEF Ready, Aboard, Newest
<1> QED BY <1>2, <1>3 DEF Ready

\* Whose the write in flight is.
LEMMA FlightFields ==
    ASSUME EditorInv, NEW s \in Scheduler, Busy(s), Serves(s)
    PROVE  /\ s.flight \in Flying /\ s.flight.session \in Sessions /\ s.flight.revision \in 0..MaxRevision
           /\ s.flight.expected \in NoVersion..head /\ s.flight.attempt \in Nat
           /\ s.flight.session # 0 /\ s.flight.revision \in Int
           /\ Own(s) => Live(s) /\ open
           /\ Live(s) => Own(s)
<1>1. s.flight \in Flying /\ s.flight.expected <= head /\ head \in Nat
  BY Fields DEF Serves, EditorInv, Types
<1>2. /\ s.flight.session \in Sessions /\ s.flight.revision \in 0..MaxRevision
      /\ s.flight.expected \in NoVersion..head /\ s.flight.attempt \in Nat
      /\ s.flight.session # 0 /\ s.flight.revision \in Int
  BY <1>1, EditorAssumption, SchedulerAssumption DEF Flying, Versions, NoVersion, Sessions
<1> QED BY <1>1, <1>2 DEF Serves, Live, Own, open

LEMMA WatermarkFields ==
    ASSUME NEW d \in NothingDurable..MaxRevision, NEW a \in BOOLEAN, NEW x \in Statuses, NEW b,
           b = [durable |-> d, active |-> a, status |-> x]
    PROVE  b \in Watermark /\ b.durable = d /\ b.active = a /\ b.status = x
  BY DEF Watermark

\* A write that landed is credited, and leaves its channel ready for the next.
LEMMA CreditedReady ==
    ASSUME EditorInv, NEW c \in Channels, NEW s \in Scheduler, NEW m \in Watermark, NEW st \in Int,
           Holds(c, s, m, st), Busy(s), s.flight.stage = "landed", NEW u \in Scheduler,
           u.flight = NoFlight, u.pending = s.pending, u.paused = s.paused, u.owner = s.owner,
           NEW b, b = IF m.active /\ s.flight.session = session.id THEN Credited(c, m, s.flight) ELSE m
    PROVE  b \in Watermark /\ Ready(c, u, b, st)
<1>1. /\ Serves(s) /\ Stored(c, s, m, st) /\ Aboard(c, s, m)
      /\ c = "local" => Newest(s, m, st)
  BY DEF Holds, Ready
<1>2. /\ s.flight \in Flying /\ s.flight.session \in Sessions /\ s.flight.revision \in 0..MaxRevision
      /\ s.flight.session # 0 /\ s.flight.revision \in Int
      /\ Own(s) => Live(s) /\ open
  BY <1>1, FlightFields
<1>3. ~Busy(u) /\ ~Own(u) /\ (Queued(u) <=> Queued(s))
  BY DEF Busy, Own, Queued
<1>4. current \in Int /\ m.durable \in Int /\ m.durable \in NothingDurable..MaxRevision
  BY EditorAssumption DEF EditorInv, Types, Watermark, NothingDurable
<1>5. CASE m.active /\ s.flight.session = session.id
  <2> DEFINE d == IF m.durable > s.flight.revision THEN m.durable ELSE s.flight.revision
  <2>1. d \in NothingDurable..MaxRevision /\ d \in Int
    BY <1>2, <1>4, EditorAssumption DEF NothingDurable
  <2>2. PICK x \in Statuses : x = IF c = "local" THEN "durable" ELSE "synced"
    BY DEF Statuses
  <2>3. b = [durable |-> d, active |-> FALSE, status |-> x]
    BY <1>5, <2>2 DEF Credited
  <2>4. b \in Watermark /\ b.durable = d /\ ~b.active
    <3>1. PICK y \in NothingDurable..MaxRevision, a \in BOOLEAN : y = d /\ a = FALSE
      BY <2>1
    <3>2. b = [durable |-> y, active |-> a, status |-> x]
      BY <2>3, <3>1
    <3>3. b \in Watermark /\ b.durable = y /\ b.active = a
      BY <3>2, WatermarkFields
    <3> QED BY <3>1, <3>3
  <2>5. Own(s) /\ open /\ s.flight.revision <= st /\ m.durable <= st /\ st <= current
    BY <1>1, <1>2, <1>5 DEF Own, Stored
  <2>6. d <= st /\ d >= m.durable /\ d >= s.flight.revision
    BY <1>2, <1>4, <2>5
  <2> HIDE DEF d
  <2>7. Serves(u)
    BY <1>1, <1>3 DEF Serves
  <2>8. Stored(c, u, b, st)
    BY <1>1, <1>2, <1>3, <1>4, <2>1, <2>4, <2>5, <2>6 DEF Stored
  <2>9. Aboard(c, u, b)
    BY <1>1, <1>3 DEF Aboard
  <2>10. c = "local" => Newest(u, b, st)
    BY <1>1, <1>2, <1>3, <1>4, <1>5, <2>4, <2>5 DEF Newest
  <2> QED BY <2>4, <2>7, <2>8, <2>9, <2>10 DEF Ready
<1>6. CASE ~(m.active /\ s.flight.session = session.id)
  <2>1. b = m
    BY <1>6
  <2>2. Serves(u)
    BY <1>1, <1>3 DEF Serves
  <2>3. Stored(c, u, b, st)
    BY <1>1, <1>3, <2>1 DEF Stored
  <2>4. Aboard(c, u, b)
    BY <1>1, <1>3 DEF Aboard
  <2>5. c = "local" => Newest(u, b, st)
    BY <1>1, <1>3, <1>6, <2>1 DEF Newest, Aboard, Own
  <2> QED BY <2>1, <2>2, <2>3, <2>4, <2>5 DEF Ready
<1> QED BY <1>5, <1>6

LEMMA SucceedsKeeps ==
    ASSUME EditorInv, NEW c \in Channels, Succeeds(c)
    PROVE  EditorInv'
<1>1. PICK s, m, st : s = scheduler[c] /\ m = machine[c] /\ st = stored[c]
  OBVIOUS
<1>2. /\ s \in Scheduler /\ m \in Watermark /\ st \in Int /\ Holds(c, s, m, st)
      /\ ~s.began /\ s.says = "none"
      /\ Queued(s) => s.owner \in Sessions
  BY <1>1, AtChannel
<1>3. PICK e0 \in Versions : /\ capture(c) = [revision |-> current, expected |-> e0] /\ e0 <= head
                             /\ c = "remote" /\ open => Knows(e0)
  BY CaptureFields
<1> DEFINE mine == Awaited(c) /\ c = "remote"
<1>4. Busy(s) /\ s.flight.stage = "landed" /\ Serves(s) /\ Aboard(c, s, m)
  BY <1>1, <1>2 DEF Succeeds, Holds, Ready
<1>5. /\ s.flight \in Flying /\ s.flight.session \in Sessions /\ s.flight.expected \in NoVersion..head
      /\ Own(s) => Live(s) /\ open
      /\ Live(s) => Own(s)
  BY <1>2, <1>4, FlightFields
<1>6. /\ current \in 0..MaxRevision /\ head \in Nat
      /\ {uncommitted, link, conflict, probing, decided} \subseteq BOOLEAN /\ reads \subseteq Readings
      /\ token \in NoVersion..head /\ told \subseteq rivals /\ excused \subseteq Channels
      /\ ask \in (0..MaxRevision) \cup {NoAsk} /\ (ask # NoAsk => ask <= current)
      /\ open => Knows(token)
  BY TypedRest
<1>7. mine => Own(s) /\ Knows(s.flight.expected)
  BY <1>1, <1>4 DEF Awaited, Own, EditorInv, Informed
<1>8. PICK e \in Versions : /\ e = IF mine /\ forced = NoVersion THEN s.flight.expected ELSE e0
                            /\ e <= head
                            /\ c = "remote" /\ open => Knows(e)
  <2>1. CASE mine /\ forced = NoVersion
    <3>1. s.flight.expected \in Versions /\ s.flight.expected <= head
      BY <1>5, <1>6 DEF Versions, NoVersion
    <3> QED BY <1>7, <2>1, <3>1
  <2>2. CASE ~(mine /\ forced = NoVersion)
    BY <1>3, <2>2
  <2> QED BY <2>1, <2>2
<1>9. PICK cap : cap = [revision |-> current, expected |-> e]
  OBVIOUS
<1>10. PICK n : n = Finished(s, cap)
  OBVIOUS
<1>11. PICK b : b = IF m.active /\ s.flight.session = session.id THEN Credited(c, m, s.flight) ELSE m
  OBVIOUS
<1>12. /\ UNCHANGED <<session, current, uncommitted, online, link, probing, reads, publish, head, stored,
                      opened, events, rivals, decided, told, excused>>
       /\ Steps(c, n, b, ask)
       /\ token' = IF mine THEN s.flight.expected ELSE token
       /\ conflict' = IF mine THEN FALSE ELSE conflict
  BY <1>1, <1>3, <1>8, <1>9, <1>10, <1>11 DEF Succeeds, Awaited, Capture
<1>13. PICK u \in Scheduler :
             /\ u.flight = NoFlight /\ u.retries = 0 /\ u.pending = s.pending
             /\ u.timer = s.timer /\ u.paused = s.paused /\ u.owner = s.owner
             /\ u.began = s.began /\ u.says = s.says
             /\ n \in Scheduler /\ n.retries = u.retries /\ n.paused = u.paused /\ n.owner = u.owner
             /\ Live(s) /\ Queued(s) => StartsAs(u, cap, n)
             /\ ~(Live(s) /\ Queued(s)) => Like(n, u) /\ n.began = s.began /\ n.says = "durable"
  BY <1>2, <1>6, <1>9, <1>10, FinishedFields
<1>14. b \in Watermark /\ Ready(c, u, b, st)
  BY <1>2, <1>4, <1>11, <1>13, CreditedReady
<1>15. Ready(c, u, b, stored[c])'
  <2>1. Ready(c, u, b, st)'
    BY <1>12, <1>13, <1>14, ReadyRests
  <2> QED BY <1>1, <1>12, <2>1
<1>16. /\ scheduler' = [scheduler EXCEPT ![c] = Quiet(n)]
       /\ machine' = [machine EXCEPT ![c] = Marked(c, n, b)]
       /\ forced' \in NoVersion..head /\ (open => Knows(forced)')
       /\ Answers(c, ask, n.says)
  BY <1>12, StepsParts
<1>17. token' \in NoVersion..head /\ (open => Knows(token)') /\ conflict' \in BOOLEAN
  BY <1>5, <1>6, <1>7, <1>12 DEF Knows
<1>18. {uncommitted', link', conflict', probing', decided'} \subseteq BOOLEAN
  BY <1>6, <1>12, <1>17
<1>19. CASE Live(s) /\ Queued(s)
  <2>1. c = "remote" /\ open => Knows(e)'
    BY <1>8, <1>12 DEF Knows
  <2>2. ~Own(u) /\ ~u.began /\ u.says = "none" /\ StartsAs(u, cap, n)
    BY <1>2, <1>13, <1>19 DEF Own, Busy
  <2> QED BY <1>6, <1>8, <1>9, <1>12, <1>13, <1>14, <1>15, <1>16, <1>17, <1>18, <2>1, <2>2, StartKeeps
<1>20. CASE ~(Live(s) /\ Queued(s))
  <2>1. Like(n, u) /\ ~n.began /\ n.says = "durable"
    BY <1>2, <1>13, <1>20
  <2>2. ~Busy(n) /\ ~Own(n) /\ ~Busy(u) /\ (Queued(n) <=> Queued(s)) /\ (Queued(u) <=> Queued(s))
    BY <1>13, <2>1 DEF Like, Busy, Own, Queued
  <2>3. open /\ c \notin excused => ~Queued(s)
    BY <1>4, <1>5, <1>20 DEF Aboard
  <2>4. Holds(c, u, b, stored[c])'
    <3>1. open' = open /\ excused' = excused
      BY <1>12 DEF open
    <3> QED BY <1>15, <2>2, <2>3, <3>1 DEF Holds, Ready, Moving, Stuck
  <2>5. Holds(c, n, b, stored[c])'
    <3>1. Holds(c, n, b, st)' <=> Holds(c, u, b, st)'
      BY <2>1, LikeHolds
    <3>2. st = stored'[c]
      BY <1>1, <1>12
    <3> QED BY <2>4, <3>1, <3>2
  <2>6. Marked(c, n, b) = b
    BY <2>1 DEF Marked
  <2>7. c = "local" /\ n.says = "durable" /\ open /\ "local" \notin excused => ~Queued(n) /\ ~Busy(n)
    BY <2>2, <2>3
  <2> QED BY <1>6, <1>12, <1>13, <1>14, <1>16, <1>17, <1>18, <2>2, <2>5, <2>6, <2>7, StepsKeep
<1> QED BY <1>19, <1>20

\* A write that failed leaves its work queued, and a retry or a sign of the failure.
LEMMA FailedHolds ==
    ASSUME EditorInv, NEW c \in Channels, NEW s \in Scheduler, NEW m \in Watermark, NEW st \in Int,
           Holds(c, s, m, st), Busy(s), NEW failure \in Failures, NEW n, n = Failed(s, failure),
           NEW b \in Watermark, b.durable = m.durable, b = m \/ ~b.active,
           Own(s) /\ ~s.paused /\ (c = "remote" => online)
             /\ ~(failure = "retryable" /\ s.retries < MaxRetries) => Shows(b)
    PROVE  Holds(c, n, b, st)
<1>1. /\ Serves(s) /\ Stored(c, s, m, st) /\ Aboard(c, s, m)
      /\ c = "local" => Newest(s, m, st)
  BY DEF Holds, Ready
<1>2. /\ s.flight.session \in Sessions /\ s.flight.revision \in 0..MaxRevision /\ s.flight.revision \in Int
      /\ Own(s) => Live(s) /\ open
      /\ Live(s) => Own(s)
  BY <1>1, FlightFields
<1>3. /\ n \in Scheduler /\ n.paused = s.paused /\ n.owner = s.owner /\ n.flight = NoFlight
      /\ ~Live(s) => n.pending = s.pending
      /\ Live(s) => /\ n.pending = IF s.pending >= s.flight.revision THEN s.pending ELSE s.flight.revision
                    /\ failure = "retryable" /\ s.retries < MaxRetries => n.timer = "retry"
  BY FailedFields
<1>4. ~Busy(n) /\ ~Own(n) /\ s.pending \in Int /\ current \in Int
  BY <1>3, Fields, EditorAssumption DEF Busy, Own, EditorInv, Types
<1>5. Serves(n)
  BY <1>1, <1>2, <1>3, <1>4 DEF Serves, Queued
<1>6. Stored(c, n, b, st)
  BY <1>1, <1>4 DEF Stored
<1>7. Aboard(c, n, b)
  BY <1>1, <1>3, <1>4 DEF Aboard
<1>8. ASSUME open, c \notin excused, Stuck(n) PROVE Shows(b)
  <2>1. Own(s) /\ ~s.paused /\ (c = "remote" => online) /\ Live(s)
    BY <1>1, <1>2, <1>3, <1>8 DEF Aboard, Stuck
  <2>2. ~(failure = "retryable" /\ s.retries < MaxRetries)
    BY <1>3, <1>8, <2>1 DEF Stuck
  <2> QED BY <2>1, <2>2
<1>9. ASSUME c = "local" PROVE Newest(n, b, st)
  <2>1. open /\ "local" \notin excused => Queued(n)
    <3>1. open /\ "local" \notin excused => Live(s)
      BY <1>1, <1>2, <1>9 DEF Aboard
    <3>2. Live(s) => Queued(n)
      BY <1>2, <1>3, <1>4 DEF Queued, NoRevision
    <3> QED BY <3>1, <3>2
  <2> QED BY <1>1, <1>3, <1>9, <2>1 DEF Newest
<1> QED BY <1>5, <1>6, <1>7, <1>8, <1>9 DEF Holds, Ready, Moving

LEMMA FailsKeeps ==
    ASSUME EditorInv, NEW c \in Channels, NEW failure \in Failures, NEW contended \in BOOLEAN,
           Fails(c, failure, contended)
    PROVE  EditorInv'
<1>1. PICK s, m, st : s = scheduler[c] /\ m = machine[c] /\ st = stored[c]
  OBVIOUS
<1>2. /\ s \in Scheduler /\ m \in Watermark /\ st \in Int /\ Holds(c, s, m, st)
      /\ ~s.began /\ s.says = "none"
  BY <1>1, AtChannel
<1>0. PICK quiet \in BOOLEAN, said \in BOOLEAN :
             /\ quiet <=> contended /\ s.flight.attempt < Tolerated
             /\ said <=> m.active /\ s.flight.session = session.id /\ ~quiet
  <2>1. \E quiet \in BOOLEAN : quiet <=> contended /\ s.flight.attempt < Tolerated
    OBVIOUS
  <2>2. PICK quiet \in BOOLEAN : quiet <=> contended /\ s.flight.attempt < Tolerated
    BY <2>1
  <2>3. \E said \in BOOLEAN : said <=> m.active /\ s.flight.session = session.id /\ ~quiet
    OBVIOUS
  <2> QED BY <2>2, <2>3
<1>3. /\ Busy(s) /\ (failure = "unavailable" => c = "local")
      /\ contended => failure = "retryable"
      /\ Serves(s) /\ Aboard(c, s, m)
  BY <1>1, <1>2 DEF Fails, Holds, Ready
<1>4. /\ s.flight.attempt \in Nat /\ (Own(s) => Live(s) /\ open)
  BY <1>2, <1>3, FlightFields
<1>5. PICK n : n = Failed(s, failure)
  OBVIOUS
<1>6. PICK x \in Statuses : x = IF failure = "unavailable" THEN "unavailable"
                                 ELSE IF c = "remote" /\ ~online THEN "offline" ELSE "failed"
  BY DEF Statuses
<1>7. PICK b : b = IF said THEN [m EXCEPT !.active = FALSE, !.status = x] ELSE m
  OBVIOUS
<1>8. /\ UNCHANGED <<opened, session, current, uncommitted, online, link, token, conflict, probing, reads,
                     publish, head, stored, rivals, decided, told, excused>>
      /\ Steps(c, n, b, ask)
  BY <1>0, <1>1, <1>5, <1>6, <1>7 DEF Fails, Awaited
<1>9. /\ b \in Watermark /\ b.durable = m.durable
      /\ said => ~b.active /\ b.status = x
      /\ ~said => b = m
  BY <1>2, <1>7 DEF Watermark
<1>10. ASSUME Own(s), ~s.paused, c = "remote" => online, ~(failure = "retryable" /\ s.retries < MaxRetries)
       PROVE  Shows(b)
  <2>1. ~quiet
    <3>1. SUFFICES ASSUME quiet PROVE FALSE
      OBVIOUS
    <3>2. s.retries <= s.flight.attempt /\ s.retries \in Nat
      BY <1>2, <1>3, Fields, SchedulerAssumption DEF Serves
    <3>3. s.retries < MaxRetries
      BY <1>0, <1>4, <3>1, <3>2, SchedulerAssumption, EditorAssumption
    <3> QED BY <1>0, <1>3, <1>10, <3>1, <3>3
  <2>2. CASE m.active
    <3>1. said
      BY <1>0, <1>10, <2>1, <2>2 DEF Own
    <3>2. x \in {"unavailable", "failed"}
      BY <1>6, <1>10
    <3> QED BY <1>9, <3>1, <3>2 DEF Shows
  <2>3. CASE ~m.active
    <3>1. m.status = "unavailable" /\ ~said
      BY <1>0, <1>3, <1>10, <2>3 DEF Aboard
    <3> QED BY <1>9, <3>1 DEF Shows
  <2> QED BY <2>2, <2>3
<1>11. Holds(c, n, b, st)
  BY <1>2, <1>3, <1>5, <1>9, <1>10, FailedHolds
<1>12. /\ n \in Scheduler /\ ~n.began /\ n.flight = NoFlight /\ n.says \in {"cancelled", "failed", "unavailable"}
  BY <1>2, <1>3, <1>5, FailedFields
<1>13. /\ current \in 0..MaxRevision /\ head \in Nat
       /\ {uncommitted, link, conflict, probing, decided} \subseteq BOOLEAN /\ reads \subseteq Readings
       /\ token \in NoVersion..head /\ told \subseteq rivals /\ excused \subseteq Channels
       /\ ask \in (0..MaxRevision) \cup {NoAsk} /\ (ask # NoAsk => ask <= current)
       /\ open => Knows(token)
  BY TypedRest
<1>14. Holds(c, n, Marked(c, n, b), stored[c])'
  <2>1. Holds(c, n, b, st)'
    BY <1>8, <1>9, <1>11, <1>12, <1>13, HoldsRests
  <2>2. Marked(c, n, b) = b /\ st = stored'[c]
    BY <1>1, <1>8, <1>12 DEF Marked
  <2> QED BY <2>1, <2>2
<1>15. /\ scheduler' = [scheduler EXCEPT ![c] = Quiet(n)]
       /\ machine' = [machine EXCEPT ![c] = Marked(c, n, b)]
       /\ forced' \in NoVersion..head /\ (open => Knows(forced)')
       /\ Answers(c, ask, n.says)
  BY <1>8, StepsParts
<1>16. open => Knows(token)'
  BY <1>8, <1>13 DEF Knows
<1>17. ~Own(n) /\ n.says # "durable"
  BY <1>12 DEF Own, Busy
<1> QED BY <1>8, <1>9, <1>12, <1>13, <1>14, <1>15, <1>16, <1>17, StepsKeep

LEMMA RefusedKeeps ==
    ASSUME EditorInv, NEW actual \in {NoVersion, head}, Refused(actual)
    PROVE  EditorInv'
<1> DEFINE c == "remote"
<1>1. PICK s, m, st : s = scheduler[c] /\ m = machine[c] /\ st = stored[c]
  OBVIOUS
<1>2. /\ s \in Scheduler /\ m \in Watermark /\ st \in Int /\ Holds(c, s, m, st)
      /\ ~s.began /\ s.says = "none" /\ c \in Channels
  BY <1>1, AtChannel DEF Channels
<1>0. PICK said \in BOOLEAN : said <=> m.active /\ s.flight.session = session.id
  OBVIOUS
<1>3. Busy(s) /\ Aboard(c, s, m)
  BY <1>1, <1>2 DEF Refused, Holds, Ready
<1>4. PICK n : n = Failed(s, "conflict")
  OBVIOUS
<1>5. PICK b : b = IF said THEN [m EXCEPT !.active = FALSE, !.status = "conflict"] ELSE m
  OBVIOUS
<1>6. /\ UNCHANGED <<session, current, uncommitted, online, link, probing, reads, publish, head, stored,
                     opened, events, rivals, excused>>
      /\ Steps(c, n, b, ask)
      /\ IF said
           THEN /\ conflict' = TRUE /\ decided' = FALSE
                /\ token' = IF actual = NoVersion THEN token ELSE actual
                /\ told' = rivals
           ELSE UNCHANGED <<conflict, decided, token, told>>
  BY <1>0, <1>1, <1>4, <1>5 DEF Refused, Awaited, remotely
<1>7. /\ b \in Watermark /\ b.durable = m.durable
      /\ said => ~b.active /\ b.status = "conflict"
      /\ ~said => b = m
  BY <1>2, <1>5 DEF Watermark, Statuses
<1>8. ASSUME Own(s) PROVE Shows(b)
  BY <1>0, <1>3, <1>7, <1>8 DEF Own, Aboard, Shows
<1>9. Holds(c, n, b, st)
  BY <1>2, <1>3, <1>4, <1>7, <1>8, FailedHolds DEF Failures
<1>10. /\ n \in Scheduler /\ ~n.began /\ n.flight = NoFlight /\ n.says \in {"cancelled", "failed", "unavailable"}
  BY <1>2, <1>3, <1>4, FailedFields DEF Failures
<1>11. /\ current \in 0..MaxRevision /\ head \in Nat
       /\ {uncommitted, link, conflict, probing, decided} \subseteq BOOLEAN /\ reads \subseteq Readings
       /\ token \in NoVersion..head /\ told \subseteq rivals /\ excused \subseteq Channels
       /\ ask \in (0..MaxRevision) \cup {NoAsk} /\ (ask # NoAsk => ask <= current)
       /\ open => Knows(token)
  BY TypedRest
<1>12. Holds(c, n, Marked(c, n, b), stored[c])'
  <2>1. Holds(c, n, b, st)'
    BY <1>2, <1>6, <1>7, <1>9, <1>10, <1>11, HoldsRests
  <2>2. Marked(c, n, b) = b /\ st = stored'[c]
    BY <1>1, <1>6, <1>10 DEF Marked
  <2> QED BY <2>1, <2>2
<1>13. told \subseteq told' /\ told' \subseteq rivals /\ token' \in NoVersion..head
       /\ {uncommitted', link', conflict', probing', decided'} \subseteq BOOLEAN /\ (open => Knows(token)')
  <2>1. CASE said
    <3>1. told' = rivals /\ conflict' = TRUE /\ decided' = FALSE /\ token' \in NoVersion..head
      BY <1>6, <1>11, <2>1 DEF NoVersion
    <3>2. Knows(token)'
      BY <1>6, <3>1 DEF Knows
    <3> QED BY <1>6, <1>11, <3>1, <3>2
  <2>2. CASE ~said
    BY <1>6, <1>11, <2>2 DEF Knows
  <2> QED BY <2>1, <2>2
<1>14. /\ scheduler' = [scheduler EXCEPT ![c] = Quiet(n)]
       /\ machine' = [machine EXCEPT ![c] = Marked(c, n, b)]
       /\ forced' \in NoVersion..head /\ (open => Knows(forced)')
       /\ Answers(c, ask, n.says)
  BY <1>6, <1>13, StepsParts
<1>15. ~Own(n) /\ n.says # "durable" /\ reads' \subseteq Readings /\ excused \subseteq excused' /\ excused' \subseteq Channels
  BY <1>6, <1>10, <1>11 DEF Own, Busy
<1> QED BY <1>2, <1>6, <1>7, <1>10, <1>11, <1>12, <1>13, <1>14, <1>15, StepsKeep
\* The scheduler whose write the store took, or refused.
Reached(s, x) == [s EXCEPT !.flight = [s.flight EXCEPT !.stage = x]]

LEMMA LandedHolds ==
    ASSUME EditorInv, NEW c \in Channels, NEW s \in Scheduler, NEW m \in Watermark, NEW st \in Int,
           Holds(c, s, m, st), Busy(s), s.flight.stage = "sent",
           NEW x \in {"refused", "landed"}, x = "landed" => Takes(c, s.flight),
           NEW n, n = Reached(s, x),
           NEW w \in Int, w = IF x = "landed" /\ Own(s) THEN s.flight.revision ELSE st
    PROVE  /\ n \in Scheduler /\ Holds(c, n, m, w) /\ st <= w
           /\ n.began = s.began /\ n.says = s.says
           /\ Own(n) => Own(s) /\ n.flight.expected = s.flight.expected
<1>1. /\ Serves(s) /\ Stored(c, s, m, st) /\ Moving(c, s, m)
      /\ c = "local" => Newest(s, m, st)
  BY DEF Holds, Ready
<1>2. /\ s.flight \in Flying /\ s.flight.revision \in Int
      /\ Own(s) => Live(s) /\ open
  BY <1>1, FlightFields
<1>3. PICK g : g = [s.flight EXCEPT !.stage = x]
  OBVIOUS
<1>4. /\ g \in Flying /\ g.session = s.flight.session /\ g.revision = s.flight.revision /\ g.stage = x
      /\ g.attempt = s.flight.attempt /\ g.expected = s.flight.expected
  BY <1>2, <1>3 DEF Flying, Stages
<1>5. /\ n \in Scheduler /\ n.flight = g /\ n.pending = s.pending /\ n.timer = s.timer /\ n.retries = s.retries
      /\ n.paused = s.paused /\ n.owner = s.owner /\ n.began = s.began /\ n.says = s.says
  <2>1. n = [s EXCEPT !.flight = g]
    BY <1>3 DEF Reached
  <2> QED BY <1>4, <2>1 DEF Scheduler
<1>6. /\ Busy(n) /\ (Own(n) <=> Own(s))
      /\ Queued(n) <=> Queued(s)
  <2>1. Busy(n)
    BY <1>4, <1>5, Fields
  <2> QED BY <1>4, <1>5, <2>1 DEF Own, Queued
<1>7. m.durable \in Int /\ current \in Int
  BY EditorAssumption DEF EditorInv, Types, Watermark, NothingDurable
<1>8. st <= w /\ (open => w <= current) /\ (~open => w = st) /\ (Own(s) /\ x = "landed" => w = s.flight.revision)
  <2>1. CASE x = "landed" /\ Own(s)
    BY <1>1, <1>2, <1>7, <2>1 DEF Stored, Serves
  <2>2. CASE ~(x = "landed" /\ Own(s))
    BY <1>1, <1>2, <1>7, <2>2 DEF Stored
  <2> QED BY <2>1, <2>2
<1>9. Serves(n)
  BY <1>1, <1>4, <1>5, <1>6 DEF Serves
<1>10. Stored(c, n, m, w)
  <2>1. IF open THEN m.durable <= w /\ w <= current ELSE m.durable = NothingDurable /\ w = NothingDurable
    BY <1>1, <1>7, <1>8 DEF Stored
  <2> QED BY <1>1, <1>2, <1>4, <1>5, <1>6, <1>8, <2>1 DEF Stored
<1>11. Aboard(c, n, m) /\ Moving(c, n, m)
  BY <1>1, <1>5, <1>6 DEF Moving, Aboard, Stuck
<1>12. c = "local" => Newest(n, m, w)
  BY <1>1, <1>4, <1>5, <1>6 DEF Newest
<1> QED BY <1>4, <1>5, <1>6, <1>8, <1>9, <1>10, <1>11, <1>12 DEF Holds, Ready

\* A step that asks nothing, answers nothing, and forgets no edit: what is left to check.
LEMMA RestsElsewhere ==
    ASSUME EditorInv, UNCHANGED <<ask, misled>>, Types', current <= current', ~open' => current' = 0,
           \A c \in Channels : ChannelInv(c)', Published', Informed'
    PROVE  EditorInv'
<1>1. current \in Int /\ current' \in Int /\ (ask # NoAsk => ask \in Int)
  BY EditorAssumption DEF EditorInv, Types
<1> QED BY <1>1 DEF EditorInv, Asked

\* The same document and edit.
LEMMA RestsHere ==
    ASSUME EditorInv, UNCHANGED <<session, current>>
    PROVE  open' = open /\ current <= current' /\ (~open' => current' = 0)
<1>1. open' = open /\ current \in Int
  BY EditorAssumption DEF open, EditorInv, Types
<1> QED BY <1>1 DEF EditorInv

LEMMA LandsKeeps ==
    ASSUME EditorInv, NEW c \in Channels, Lands(c)
    PROVE  EditorInv'
<1>1. PICK s, m, st : s = scheduler[c] /\ m = machine[c] /\ st = stored[c]
  OBVIOUS
<1>2. /\ s \in Scheduler /\ m \in Watermark /\ st \in Int /\ Holds(c, s, m, st)
      /\ ~s.began /\ s.says = "none"
  BY <1>1, AtChannel
<1>3. PICK contested \in BOOLEAN :
             LET f == s.flight
                 refused == c = "remote" /\ (contested \/ head > f.expected)
             IN  /\ Busy(s) /\ f.stage = "sent"
                 /\ scheduler' = [scheduler EXCEPT ![c].flight.stage = IF refused THEN "refused" ELSE "landed"]
                 /\ stored' = IF refused \/ f.session # session.id THEN stored ELSE [stored EXCEPT ![c] = f.revision]
                 /\ UNCHANGED <<session, current, uncommitted, online, link, machine, token, forced, conflict,
                                probing, reads, publish, head, ask, misled, opened, rivals, decided, told, excused>>
  BY <1>1 DEF Lands
<1>4. PICK x \in {"refused", "landed"} :
        /\ x = "landed" => c # "remote" \/ ~(head > s.flight.expected)
        /\ Busy(s) /\ s.flight.stage = "sent"
        /\ scheduler' = [scheduler EXCEPT ![c].flight.stage = x]
        /\ stored' = IF x = "refused" \/ s.flight.session # session.id THEN stored
                     ELSE [stored EXCEPT ![c] = s.flight.revision]
        /\ UNCHANGED <<session, current, uncommitted, online, link, machine, token, forced, conflict, probing,
                       reads, publish, head, ask, misled, opened, rivals, decided, told, excused>>
  <2>1. CASE c = "remote" /\ (contested \/ head > s.flight.expected)
    BY <1>3, <2>1
  <2>2. CASE ~(c = "remote" /\ (contested \/ head > s.flight.expected))
    BY <1>3, <2>2
  <2> QED BY <2>1, <2>2
<1>5. PICK n : n = Reached(s, x)
  OBVIOUS
<1>6. Types /\ Serves(s)
  BY <1>2 DEF EditorInv, Holds, Ready
<1>7. /\ s.flight.expected \in NoVersion..head /\ head \in Nat
      /\ s.flight.revision \in Int /\ s.flight.revision \in 0..MaxRevision
  BY <1>2, <1>4, <1>6, FlightFields DEF Types
<1>8. x = "landed" => Takes(c, s.flight)
  BY <1>4, <1>7 DEF Takes, NoVersion
<1>9. PICK w \in Int : w = IF x = "landed" /\ Own(s) THEN s.flight.revision ELSE st
  BY <1>2, <1>7
<1>10. /\ n \in Scheduler /\ Holds(c, n, m, w) /\ st <= w
       /\ n.began = s.began /\ n.says = s.says
       /\ Own(n) => Own(s) /\ n.flight.expected = s.flight.expected
  BY <1>2, <1>4, <1>5, <1>8, <1>9, LandedHolds
<1>11. scheduler' = [scheduler EXCEPT ![c] = n]
  BY <1>1, <1>4, <1>5 DEF Reached
<1>12. stored' = [stored EXCEPT ![c] = w]
  <2>1. stored = [stored EXCEPT ![c] = stored[c]]
    BY <1>6 DEF Types
  <2> QED BY <1>1, <1>3, <1>4, <1>9, <2>1 DEF Own
<1>13. w \in NothingDurable..MaxRevision
  BY <1>1, <1>6, <1>7, <1>9, EditorAssumption DEF Types, NothingDurable
<1>14. Types'
  BY <1>4, <1>6, <1>10, <1>11, <1>12, <1>13 DEF Types
<1>15. /\ scheduler'[c] = n /\ stored'[c] = w
       /\ \A d \in Channels \ {c} : scheduler'[d] = scheduler[d] /\ stored'[d] = stored[d]
  BY <1>6, <1>11, <1>12 DEF Types
<1>16. ASSUME NEW d \in Channels PROVE ChannelInv(d)'
  <2>1. CASE d = c
    <3>1. Holds(c, n, m, w)'
      BY <1>2, <1>4, <1>7, <1>10, HoldsRests
    <3>2. m = machine'[c]
      BY <1>1, <1>4
    <3> QED BY <1>2, <1>10, <1>15, <2>1, <3>1, <3>2 DEF ChannelInv
  <2>2. CASE d # c
    <3>1. scheduler'[d] = scheduler[d] /\ stored'[d] = stored[d] /\ machine'[d] = machine[d] /\ head <= head'
      BY <1>4, <1>7, <1>15, <2>2
    <3> QED BY <1>4, <1>6, <1>14, <3>1, ChannelRests DEF EditorInv
  <2> QED BY <2>1, <2>2
<1>17. Published'
  <2>1. stored["remote"] <= stored'["remote"] /\ stored["remote"] \in Int /\ stored'["remote"] \in Int
    <3>1. "remote" \in Channels
      BY DEF Channels
    <3>2. \A d \in Channels : stored[d] \in Int /\ stored'[d] \in Int
      BY <1>6, <1>14 DEF Types, NothingDurable
    <3> QED BY <1>1, <1>10, <1>15, <3>1, <3>2
  <2>2. publish # NoPublish => publish.revision \in Int
    BY <1>6, EditorAssumption DEF Types, Publication
  <2> QED BY <1>4, <2>1, <2>2 DEF EditorInv, Published
<1>18. Informed'
  <2>1. open' = open /\ (\A v : Knows(v)' <=> Knows(v))
    BY <1>4 DEF open, Knows
  <2>2. ASSUME Own(scheduler["remote"])' PROVE Knows(scheduler["remote"].flight.expected)'
    <3>1. CASE c = "remote"
      <4>1. Own(n)
        BY <1>4, <1>15, <2>2, <3>1 DEF Own
      <4>2. Knows(s.flight.expected)
        BY <1>1, <1>10, <3>1, <4>1 DEF EditorInv, Informed
      <4> QED BY <1>4, <1>10, <1>15, <3>1, <4>1, <4>2 DEF Knows
    <3>2. CASE c # "remote"
      <4>1. scheduler'["remote"] = scheduler["remote"]
        BY <1>15, <3>2 DEF Channels
      <4> QED BY <1>4, <2>1, <2>2, <4>1 DEF EditorInv, Informed, Own, Knows
    <3> QED BY <3>1, <3>2
  <2> QED BY <1>4, <2>1, <2>2 DEF EditorInv, Informed
<1> QED BY <1>4, <1>14, <1>16, <1>17, <1>18, RestsElsewhere, RestsHere

\* The cloud save replaces no version the user was not told of.
LEMMA LandsOnTheKnown ==
    ASSUME EditorInv
    PROVE  \A c \in Channels : Lands(c) /\ c = "remote" /\ scheduler[c].flight.session = session.id
             /\ scheduler'[c].flight.stage = "landed" => rivals \subseteq told
<1>1. SUFFICES ASSUME Lands("remote"), scheduler["remote"].flight.session = session.id,
                      scheduler'["remote"].flight.stage = "landed"
               PROVE  rivals \subseteq told
  OBVIOUS
<1>2. PICK s : s = scheduler["remote"]
  OBVIOUS
<1>3. s \in Scheduler /\ Serves(s) /\ "remote" \in Channels /\ Types
  <2>1. "remote" \in Channels
    BY DEF Channels
  <2> QED BY <1>2, <2>1 DEF EditorInv, Types, ChannelInv, Holds, Ready
<1>4. PICK x \in {"refused", "landed"} :
             /\ x = "landed" => ~(head > s.flight.expected)
             /\ scheduler' = [scheduler EXCEPT !["remote"].flight.stage = x]
             /\ Busy(s)
  <2>1. PICK contested \in BOOLEAN :
          LET refused == contested \/ head > s.flight.expected
          IN  /\ Busy(s)
              /\ scheduler' = [scheduler EXCEPT !["remote"].flight.stage = IF refused THEN "refused" ELSE "landed"]
    BY <1>1, <1>2 DEF Lands
  <2>2. CASE contested \/ head > s.flight.expected
    BY <2>1, <2>2
  <2>3. CASE ~(contested \/ head > s.flight.expected)
    BY <2>1, <2>3
  <2> QED BY <2>2, <2>3
<1>5. /\ s.flight \in Flying /\ s.flight.expected \in NoVersion..head /\ head \in Nat
  BY <1>3, <1>4, FlightFields DEF Types
<1>6. scheduler'["remote"].flight.stage = x
  BY <1>2, <1>3, <1>4, <1>5 DEF Types, Scheduler, Flying
<1>7. head <= s.flight.expected
  BY <1>1, <1>4, <1>5, <1>6 DEF NoVersion
<1>8. Own(s) /\ Knows(s.flight.expected)
  BY <1>1, <1>2, <1>4 DEF Own, EditorInv, Informed
<1>9. \A v \in rivals : v \in Int /\ v <= head
  BY <1>3 DEF Types
<1> QED BY <1>5, <1>7, <1>8, <1>9 DEF Knows, NoVersion

--------------------------------------------------------------------------------
(* Queueing, resuming and retrying.                                           *)

LEMMA ResumedHolds ==
    ASSUME NEW c \in Channels, NEW s \in Scheduler, NEW m \in Watermark, NEW st \in Int, Holds(c, s, m, st)',
           c = "remote" /\ c \notin excused' => online', NEW u, u = Resumed(s)
    PROVE  /\ u \in Scheduler /\ u.began = s.began /\ u.says = s.says /\ u.flight = s.flight /\ ~u.paused
           /\ Holds(c, u, m, st)'
<1>1. /\ u \in Scheduler /\ ~u.paused /\ u.pending = s.pending
      /\ u.flight = s.flight /\ u.retries \in 0..s.retries /\ u.owner = s.owner
      /\ u.began = s.began /\ u.says = s.says
      /\ ~s.paused => u = s
      /\ s.paused /\ Queued(s) => u.timer = "debounce"
  BY ResumedFields
<1>2. Ready(c, s, m, st)' /\ Moving(c, s, m)'
  BY DEF Holds
<1>3. Ready(c, u, m, st)'
  BY <1>1, <1>2, WokenReady
<1>4. CASE s.paused
  <2>1. ~Stuck(u)
    BY <1>1, <1>4 DEF Stuck, Queued
  <2> QED BY <1>1, <1>3, <2>1 DEF Holds, Ready, Moving
<1>5. CASE ~s.paused
  BY <1>1, <1>5
<1> QED BY <1>1, <1>4, <1>5

LEMMA ScheduledHolds ==
    ASSUME session'.id \in Sessions, current' \in 0..MaxRevision,
           NEW c \in Channels, NEW s \in Scheduler, NEW m \in Watermark, NEW st,
           Serves(s)', Stored(c, s, m, st)', Moving(c, s, m)',
           c = "local" => ~s.paused /\ (m.active => m.status = "writing"),
           NEW n, n = Scheduled(s, session'.id, current')
    PROVE  /\ n \in Scheduler /\ n.began = s.began /\ n.says = s.says /\ n.flight = s.flight
           /\ n.paused = s.paused /\ n.owner = session'.id /\ Queued(n) /\ Holds(c, n, m, st)'
<1>1. s.owner \in {0, session'.id} /\ open' /\ current' \in Int /\ s.pending \in Int
  BY EditorAssumption, Fields DEF Serves, open, Sessions
<1>2. /\ n \in Scheduler /\ n.paused = s.paused /\ n.flight = s.flight
      /\ n.retries = s.retries /\ n.owner = session'.id /\ n.began = s.began /\ n.says = s.says
      /\ n.pending = IF s.pending >= current' THEN s.pending ELSE current'
      /\ s.pending >= current' => n.timer = s.timer
      /\ s.pending < current' => n.timer = "debounce" \/ n.paused \/ Busy(n)
  BY <1>1, ScheduledFields
<1>3. /\ Own(n)' <=> Own(s)'
      /\ Busy(n) <=> Busy(s)
      /\ Queued(n)
      /\ s.pending >= current' => Queued(s)
  BY <1>1, <1>2 DEF Own, Busy, Queued, NoRevision
<1>4. Serves(n)'
  BY <1>1, <1>2, <1>3 DEF Serves
<1>5. Stored(c, n, m, st)'
  BY <1>2, <1>3 DEF Stored
<1>6. Aboard(c, n, m)'
  BY <1>2, <1>3 DEF Moving, Aboard
<1>7. Stuck(n) => Stuck(s)
  BY <1>1, <1>2, <1>3 DEF Stuck
<1>8. Moving(c, n, m)'
  BY <1>6, <1>7 DEF Moving
<1>9. c = "local" => Newest(n, m, st)'
  BY <1>2, <1>3 DEF Newest
<1> QED BY <1>2, <1>3, <1>4, <1>5, <1>6, <1>8, <1>9 DEF Holds, Ready

LEMMA RetriedHolds ==
    ASSUME NEW c \in Channels, NEW s \in Scheduler, NEW m \in Watermark, NEW st \in Int, Ready(c, s, m, st)',
           ~s.paused, NEW n, n = Retried(s)
    PROVE  /\ n \in Scheduler /\ n.began = s.began /\ n.says = s.says /\ n.flight = s.flight
           /\ Holds(c, n, m, st)'
<1>1. /\ n \in Scheduler /\ n.pending = s.pending /\ n.flight = s.flight
      /\ n.retries \in 0..s.retries /\ n.owner = s.owner
      /\ n.began = s.began /\ n.says = s.says /\ ~n.paused
      /\ Queued(s) => Busy(s) \/ n.timer = "debounce"
  BY RetriedFields
<1>2. Ready(c, n, m, st)'
  <2>1. n.paused = s.paused
    BY <1>1, Fields
  <2> QED BY <1>1, <2>1, WokenReady
<1>3. ~Stuck(n)
  BY <1>1 DEF Stuck, Queued, Busy
<1> QED BY <1>1, <1>2, <1>3 DEF Holds, Ready, Moving

\* Waking the remote channel is excused while the machine believes it is offline.
LEMMA WakesFields ==
    ASSUME EditorInv, excused' = Wakes, online' = online
    PROVE  /\ excused \subseteq excused' /\ excused' \subseteq Channels
           /\ "remote" \notin excused' => online'
<1>1. excused \subseteq Channels /\ "remote" \in Channels
  BY DEF EditorInv, Types, Channels
<1> QED BY <1>1 DEF Wakes

\* A channel's condition after a step that leaves it, its document and the server alone.
LEMMA HoldsNow ==
    ASSUME EditorInv, NEW c \in Channels, NEW s, s = scheduler[c], NEW m, m = machine[c], NEW st, st = stored[c],
           UNCHANGED <<session, current, opened, head, online>>, excused \subseteq excused'
    PROVE  Holds(c, s, m, st)'
<1>1. s \in Scheduler /\ m \in Watermark /\ Holds(c, s, m, st)
  BY AtChannel
<1>2. head \in Nat
  BY TypedRest
<1> QED BY <1>1, <1>2, HoldsRests

LEMMA ReconcilesKeeps ==
    ASSUME EditorInv, NEW rd, NEW version, Reconciles(rd, version)
    PROVE  EditorInv'
<1> DEFINE c == "remote"
<1>1. PICK s, m, st : s = scheduler[c] /\ m = machine[c] /\ st = stored[c]
  OBVIOUS
<1>2. /\ s \in Scheduler /\ m \in Watermark /\ st \in Int
      /\ ~s.began /\ s.says = "none" /\ c \in Channels
  BY <1>1, AtChannel DEF Channels
<1>3. /\ current \in 0..MaxRevision /\ head \in Nat
      /\ {uncommitted, link, conflict, probing, decided} \subseteq BOOLEAN /\ reads \subseteq Readings
      /\ token \in NoVersion..head /\ told \subseteq rivals /\ excused \subseteq Channels
      /\ ask \in (0..MaxRevision) \cup {NoAsk} /\ (ask # NoAsk => ask <= current)
      /\ open => Knows(token)
  BY TypedRest
<1>4. /\ UNCHANGED <<session, current, uncommitted, online, link, conflict, token, probing, publish, head, stored,
                     opened, events, rivals, decided, told>>
      /\ reads' \subseteq Readings /\ (open => Knows(token)')
  BY <1>3 DEF Reconciles, Knows
<1>5. CASE rd.session # session.id
  <2>1. UNCHANGED <<scheduler, machine, forced, ask, misled, excused>>
    BY <1>5 DEF Reconciles
  <2>2. Types' /\ Published'
    BY <1>4, <2>1 DEF EditorInv, Types, Published
  <2>3. Informed'
    BY <1>4, <2>1 DEF EditorInv, Informed, open, Knows, Own
  <2>4. ASSUME NEW d \in Channels PROVE ChannelInv(d)'
    <3>1. head <= head' /\ Types
      BY <1>3, <1>4 DEF EditorInv
    <3> QED BY <1>4, <2>1, <2>2, <3>1, ChannelRests DEF EditorInv
  <2> QED BY <1>4, <2>1, <2>2, <2>3, <2>4, RestsElsewhere, RestsHere
<1>6. CASE rd.session = session.id
  <2>1. session.id \in Sessions /\ session'.id = session.id
    BY <1>4, <1>6 DEF Reconciles, EditorInv, Types, Readings
  <2>2. PICK u : u = Resumed(s)
    OBVIOUS
  <2>3. PICK n : n = IF NothingToSend(version) THEN u ELSE Scheduled(u, session.id, current)
    OBVIOUS
  <2>4. excused' = Wakes /\ Steps(c, n, m, ask)
    BY <1>1, <1>6, <2>2, <2>3 DEF Reconciles, remotely
  <2>5. /\ excused \subseteq excused' /\ excused' \subseteq Channels
        /\ c \notin excused' => online'
    BY <1>4, <2>4, WakesFields
  <2>6. Holds(c, s, m, st)'
    BY <1>1, <1>2, <1>4, <2>5, HoldsNow
  <2>7. /\ u \in Scheduler /\ u.began = s.began /\ u.says = s.says /\ u.flight = s.flight /\ ~u.paused
        /\ Holds(c, u, m, st)'
    BY <1>2, <2>2, <2>5, <2>6, ResumedHolds
  <2>8. n \in Scheduler /\ ~n.began /\ n.says = "none" /\ n.flight = s.flight /\ Holds(c, n, m, st)'
    <3>1. CASE NothingToSend(version)
      BY <1>2, <2>3, <2>7, <3>1
    <3>2. CASE ~NothingToSend(version)
      <4>1. n = Scheduled(u, session'.id, current') /\ session'.id \in Sessions /\ current' \in 0..MaxRevision
        BY <1>3, <1>4, <2>1, <2>3, <3>2
      <4>2. Serves(u)' /\ Stored(c, u, m, st)' /\ Moving(c, u, m)'
        BY <2>7 DEF Holds, Ready
      <4> QED BY <1>2, <2>7, <4>1, <4>2, ScheduledHolds
    <3> QED BY <3>1, <3>2
  <2>9. /\ scheduler' = [scheduler EXCEPT ![c] = Quiet(n)]
        /\ machine' = [machine EXCEPT ![c] = Marked(c, n, m)]
        /\ forced' \in NoVersion..head /\ (open => Knows(forced)')
        /\ Answers(c, ask, n.says)
    BY <1>4, <2>4, StepsParts
  <2>10. Holds(c, n, Marked(c, n, m), stored[c])'
    <3>1. Marked(c, n, m) = m /\ st = stored'[c]
      BY <1>1, <1>4, <2>8 DEF Marked
    <3> QED BY <2>8, <3>1
  <2>11. Own(n) => Knows(n.flight.expected)'
    BY <1>1, <1>4, <2>8 DEF EditorInv, Informed, Own, Busy, Knows
  <2>12. /\ {uncommitted', link', conflict', probing', decided'} \subseteq BOOLEAN
         /\ told \subseteq told' /\ told' \subseteq rivals /\ token' \in NoVersion..head
    BY <1>3, <1>4
  <2> QED BY <1>2, <1>3, <1>4, <2>5, <2>8, <2>9, <2>10, <2>11, <2>12, StepsKeep
<1> QED BY <1>5, <1>6

LEMMA ReplacesKeeps ==
    ASSUME EditorInv, NEW rd, NEW version, Replaces(rd, version)
    PROVE  EditorInv'
<1> DEFINE c == "remote"
<1>1. PICK s, m, st : s = scheduler[c] /\ m = machine[c] /\ st = stored[c]
  OBVIOUS
<1>2. /\ s \in Scheduler /\ m \in Watermark /\ st \in Int
      /\ ~s.began /\ s.says = "none" /\ c \in Channels
  BY <1>1, AtChannel DEF Channels
<1>3. /\ current \in 0..MaxRevision /\ head \in Nat
      /\ {uncommitted, link, conflict, probing, decided} \subseteq BOOLEAN /\ reads \subseteq Readings
      /\ token \in NoVersion..head /\ told \subseteq rivals /\ excused \subseteq Channels
      /\ ask \in (0..MaxRevision) \cup {NoAsk} /\ (ask # NoAsk => ask <= current)
      /\ open => Knows(token)
  BY TypedRest
<1>4. /\ UNCHANGED <<session, current, uncommitted, online, link, conflict, token, probing, publish, head, stored,
                     opened, events, rivals>>
      /\ reads' \subseteq Readings /\ rd \in Readings /\ version \in rd.from..head
  BY <1>3 DEF Replaces
<1>5. version \in 0..head /\ rd.session \in Sessions
  BY <1>3, <1>4 DEF Readings
<1>6. CASE rd.session # session.id
  <2>1. UNCHANGED <<scheduler, machine, forced, ask, misled, told, decided, excused>>
    BY <1>6 DEF Replaces
  <2>2. Types' /\ Published'
    BY <1>4, <2>1 DEF EditorInv, Types, Published
  <2>3. Informed'
    BY <1>4, <2>1 DEF EditorInv, Informed, open, Knows, Own
  <2>4. ASSUME NEW d \in Channels PROVE ChannelInv(d)'
    <3>1. head <= head' /\ Types
      BY <1>3, <1>4 DEF EditorInv
    <3> QED BY <1>4, <2>1, <2>2, <3>1, ChannelRests DEF EditorInv
  <2> QED BY <1>4, <2>1, <2>2, <2>3, <2>4, RestsElsewhere, RestsHere
<1>7. CASE rd.session = session.id
  <2>1. session.id \in Sessions /\ session'.id = session.id
    BY <1>4, <1>5, <1>7
  <2>2. PICK u : u = Resumed(s)
    OBVIOUS
  <2>3. PICK v : v = Scheduled(u, session.id, current)
    OBVIOUS
  <2>4. PICK cap : cap = [revision |-> current, expected |-> version]
    OBVIOUS
  <2>5. PICK n : n = Flushed(v, cap)
    OBVIOUS
  <2>6. /\ excused' = Wakes /\ decided' = conflict
        /\ told' = told \cup {r \in rivals : r <= version}
        /\ scheduler' = [scheduler EXCEPT ![c] = Quiet(n)]
        /\ machine' = IF n.began THEN [machine EXCEPT ![c] = Began(c, @)] ELSE machine
        /\ forced' = IF n.began THEN NoVersion ELSE version
        /\ Answers(c, ask, n.says)
    BY <1>1, <1>7, <2>2, <2>3, <2>4, <2>5 DEF Replaces, Capture
  <2>7. /\ excused \subseteq excused' /\ excused' \subseteq Channels
        /\ c \notin excused' => online'
    BY <1>4, <2>6, WakesFields
  <2>8. Holds(c, s, m, st)'
    BY <1>1, <1>2, <1>4, <2>7, HoldsNow
  <2>9. /\ u \in Scheduler /\ u.began = s.began /\ u.says = s.says /\ u.flight = s.flight /\ ~u.paused
        /\ Holds(c, u, m, st)'
    BY <1>2, <2>2, <2>7, <2>8, ResumedHolds
  <2>10. /\ v \in Scheduler /\ v.began = u.began /\ v.says = u.says /\ v.flight = u.flight
         /\ v.paused = u.paused /\ v.owner = session'.id /\ Holds(c, v, m, st)'
    <3>1. v = Scheduled(u, session'.id, current') /\ session'.id \in Sessions /\ current' \in 0..MaxRevision
      BY <1>3, <1>4, <2>1, <2>3
    <3>2. Serves(u)' /\ Stored(c, u, m, st)' /\ Moving(c, u, m)'
      BY <2>9 DEF Holds, Ready
    <3> QED BY <1>2, <2>9, <3>1, <3>2, ScheduledHolds
  <2>11. v.owner \in Sessions /\ version \in Versions
    BY <1>5, <2>1, <2>10 DEF Versions
  <2>12. PICK w \in Scheduler :
             /\ w.pending = v.pending /\ w.flight = v.flight /\ w.owner = v.owner /\ ~w.paused
             /\ w.began = v.began /\ w.says = v.says /\ w.retries \in 0..v.retries
             /\ n \in Scheduler /\ ~n.paused /\ n.timer = "none"
             /\ n.retries = w.retries /\ n.owner = v.owner /\ StartsAs(w, cap, n)
    BY <1>3, <2>4, <2>5, <2>10, <2>11, FlushedFields
  <2>13. Ready(c, w, m, stored[c])'
    <3>1. Ready(c, v, m, st)'
      BY <2>10 DEF Holds
    <3>2. Ready(c, w, m, st)'
      BY <1>2, <2>7, <2>10, <2>12, <3>1, WokenReady
    <3>3. st = stored'[c]
      BY <1>1, <1>4
    <3> QED BY <3>2, <3>3
  <2>14. machine' = [machine EXCEPT ![c] = Marked(c, n, m)]
    <3>1. machine = [machine EXCEPT ![c] = machine[c]]
      BY DEF EditorInv, Types
    <3> QED BY <1>1, <2>6, <3>1 DEF Marked
  <2>15. Knows(version)' /\ (\A x : Knows(x) => Knows(x)')
    BY <1>4, <2>6 DEF Knows
  <2>16. forced' \in NoVersion..head /\ (open => Knows(forced)')
    <3>1. CASE n.began
      <4>1. ~(\E r \in rivals : r <= NoVersion)
        BY DEF EditorInv, Types, NoVersion
      <4> QED BY <1>3, <1>4, <2>6, <3>1, <4>1 DEF Knows, NoVersion
    <3>2. CASE ~n.began
      <4>1. forced' = version
        BY <2>6, <3>2
      <4>2. version \in NoVersion..head
        BY <1>3, <1>5 DEF NoVersion
      <4>3. Knows(forced)'
        BY <2>15, <4>1 DEF Knows
      <4> QED BY <4>1, <4>2, <4>3
    <3> QED BY <3>1, <3>2
  <2>17. /\ {uncommitted', link', conflict', probing', decided'} \subseteq BOOLEAN
         /\ told \subseteq told' /\ told' \subseteq rivals /\ token' \in NoVersion..head /\ version <= head
    BY <1>3, <1>4, <1>5, <2>6
  <2>18. c = "remote" /\ Own(w) => Knows(w.flight.expected)'
    BY <1>1, <1>4, <2>9, <2>10, <2>12, <2>15 DEF EditorInv, Informed, Own, Busy, Knows
  <2>19. open => Knows(token)'
    BY <1>3, <1>4, <2>15 DEF Knows
  <2>20. ~w.began /\ w.says = "none" /\ n.paused = w.paused /\ n.owner = w.owner
    BY <1>2, <2>9, <2>10, <2>12, Fields
  <2> QED BY <1>2, <1>3, <1>4, <2>4, <2>6, <2>7, <2>11, <2>12, <2>13, <2>14, <2>15, <2>16, <2>17, <2>18, <2>19,
             <2>20, StartKeeps
<1> QED BY <1>6, <1>7

LEMMA RetryKeeps ==
    ASSUME EditorInv, NEW c \in Channels, Retry(c)
    PROVE  EditorInv'
<1>1. PICK s, m, st : s = scheduler[c] /\ m = machine[c] /\ st = stored[c]
  OBVIOUS
<1>2. /\ s \in Scheduler /\ m \in Watermark /\ st \in Int
      /\ ~s.began /\ s.says = "none"
  BY <1>1, AtChannel
<1>3. /\ current \in 0..MaxRevision /\ head \in Nat
      /\ {uncommitted, link, conflict, probing, decided} \subseteq BOOLEAN /\ reads \subseteq Readings
      /\ token \in NoVersion..head /\ forced \in NoVersion..head /\ told \subseteq rivals /\ excused \subseteq Channels
      /\ ask \in (0..MaxRevision) \cup {NoAsk} /\ (ask # NoAsk => ask <= current)
      /\ open => Knows(token) /\ Knows(forced)
  BY TypedRest DEF EditorInv, Types, Informed
<1>4. PICK u : u = Resumed(s)
  OBVIOUS
<1>5. PICK n : n = Retried(u)
  OBVIOUS
<1>6. /\ scheduler' = [scheduler EXCEPT ![c] = n]
      /\ excused' = IF c = "remote" THEN Wakes ELSE excused
      /\ UNCHANGED <<opened, session, current, uncommitted, online, link, machine, token, forced, conflict, probing,
                     reads, publish, head, stored, ask, misled, rivals, decided, told>>
  BY <1>1, <1>4, <1>5 DEF Retry
<1>7. /\ excused \subseteq excused' /\ excused' \subseteq Channels
      /\ c = "remote" /\ c \notin excused' => online'
  <2>1. CASE c = "remote"
    BY <1>6, <2>1, WakesFields
  <2>2. CASE c # "remote"
    BY <1>3, <1>6, <2>2
  <2> QED BY <2>1, <2>2
<1>8. Holds(c, s, m, st)'
  BY <1>1, <1>2, <1>6, <1>7, HoldsNow
<1>9. /\ u \in Scheduler /\ u.began = s.began /\ u.says = s.says /\ u.flight = s.flight /\ ~u.paused
      /\ Holds(c, u, m, st)'
  BY <1>2, <1>4, <1>7, <1>8, ResumedHolds
<1>10. n \in Scheduler /\ n.began = u.began /\ n.says = u.says /\ n.flight = u.flight /\ Holds(c, n, m, st)'
  <2>1. Ready(c, u, m, st)'
    BY <1>9 DEF Holds
  <2> QED BY <1>2, <1>5, <1>9, <2>1, RetriedHolds
<1>11. ~n.began /\ n.says = "none" /\ n.flight = s.flight
  BY <1>2, <1>9, <1>10
<1>12. /\ scheduler' = [scheduler EXCEPT ![c] = Quiet(n)]
       /\ machine' = [machine EXCEPT ![c] = Marked(c, n, m)]
  <2>1. Quiet(n) = n
    BY <1>10, <1>11 DEF Quiet, Scheduler
  <2>2. machine = [machine EXCEPT ![c] = machine[c]]
    BY DEF EditorInv, Types
  <2> QED BY <1>1, <1>6, <1>11, <2>1, <2>2 DEF Marked
<1>13. Answers(c, ask, n.says)
  BY <1>6, <1>11 DEF Answers
<1>14. Holds(c, n, Marked(c, n, m), stored[c])'
  <2>1. Marked(c, n, m) = m /\ st = stored'[c]
    BY <1>1, <1>6, <1>11 DEF Marked
  <2> QED BY <1>10, <2>1
<1>15. c = "remote" /\ Own(n) => Knows(n.flight.expected)'
  BY <1>1, <1>6, <1>11 DEF EditorInv, Informed, Own, Busy, Knows
<1>16. /\ (open => Knows(token)' /\ Knows(forced)')
       /\ {uncommitted', link', conflict', probing', decided'} \subseteq BOOLEAN
       /\ told \subseteq told' /\ told' \subseteq rivals /\ token' \in NoVersion..head /\ forced' \in NoVersion..head
       /\ reads' \subseteq Readings
  BY <1>3, <1>6 DEF Knows
<1> QED BY <1>2, <1>3, <1>6, <1>7, <1>10, <1>11, <1>12, <1>13, <1>14, <1>15, <1>16, StepsKeep

--------------------------------------------------------------------------------
(* Opening, editing and closing.                                              *)

LEMMA OpenKeeps ==
    ASSUME EditorInv, NEW kind \in Kinds, OpenDocument(kind)
    PROVE  EditorInv'
<1>1. Types /\ current = 0 /\ ~open /\ session.id = 0
  BY DEF OpenDocument, EditorInv, open
<1>2. PICK n : n = opened + 1
  OBVIOUS
<1>3. /\ n \in 1..MaxSessions /\ n \in Nat /\ opened \in Nat /\ opened < n
      /\ kind \in {"guest", "workspace"} /\ head \in Nat /\ link \in BOOLEAN
  BY <1>1, <1>2, EditorAssumption DEF OpenDocument, Types
<1>4. /\ opened' = n /\ session' = [id |-> n, kind |-> kind] /\ online' = link
      /\ token' = IF kind = "workspace" THEN head ELSE NoVersion
      /\ forced' = NoVersion /\ probing' = TRUE /\ told' = rivals
      /\ excused' = {c \in Channels : Busy(scheduler[c])}
      /\ UNCHANGED <<current, uncommitted, link, conflict, reads, publish, head, ask, misled, events, rivals, decided>>
  BY <1>2 DEF OpenDocument
<1>5. session'.id = n /\ session'.kind = kind /\ session' \in [id: 0..MaxSessions, kind: {"guest", "workspace"}]
  BY <1>3, <1>4
<1>6. open' /\ (remoteEnabled' <=> kind = "workspace")
  BY <1>3, <1>5 DEF open, remoteEnabled
<1>7. PICK s, m, r, w : s = scheduler["local"] /\ m = machine["local"] /\ r = scheduler["remote"] /\ w = machine["remote"]
  OBVIOUS
<1>8. /\ "local" \in Channels /\ "remote" \in Channels /\ Channels = {"local", "remote"}
      /\ s \in Scheduler /\ m \in Watermark /\ r \in Scheduler /\ w \in Watermark
  BY <1>1, <1>7 DEF Channels, Types
<1>9. /\ Holds("local", s, m, stored["local"]) /\ Holds("remote", r, w, stored["remote"])
      /\ ~s.began /\ s.says = "none" /\ ~r.began /\ r.says = "none"
  BY <1>7, <1>8 DEF EditorInv, ChannelInv
<1>10. PICK x : x = IF link THEN r ELSE Paused(r)
  OBVIOUS
<1>11. /\ x \in Scheduler /\ x.pending = r.pending /\ x.flight = r.flight /\ x.owner = r.owner
       /\ ~link => x.paused
       /\ ~x.began /\ x.says = "none" /\ x.retries = r.retries
  BY <1>8, <1>9, <1>10, PausedFields
<1>12. PICK b : b = IF kind = "guest" THEN w
                    ELSE [durable |-> 0, active |-> FALSE, status |-> IF link THEN "idle" ELSE "offline"]
  OBVIOUS
<1>13. b \in Watermark /\ (IF kind = "guest" THEN b = w ELSE b.durable = 0)
  <2>1. CASE kind = "guest"
    BY <1>8, <1>12, <2>1
  <2>2. CASE kind # "guest"
    <3>1. PICK y \in Statuses : y = IF link THEN "idle" ELSE "offline"
      BY DEF Statuses
    <3>0. 0 \in NothingDurable..MaxRevision /\ FALSE \in BOOLEAN
      BY EditorAssumption DEF NothingDurable
    <3>2. PICK a \in BOOLEAN, z \in NothingDurable..MaxRevision : a = FALSE /\ z = 0
      BY <3>0
    <3>3. b = [durable |-> z, active |-> a, status |-> y]
      BY <1>12, <2>2, <3>1, <3>2
    <3>4. b \in Watermark /\ b.durable = z
      BY <3>3, WatermarkFields
    <3> QED BY <2>2, <3>2, <3>4
  <2> QED BY <2>1, <2>2
<1>14. /\ scheduler' = [scheduler EXCEPT !["remote"] = x]
       /\ machine' = [c \in Channels |-> IF c = "local" THEN m ELSE b]
       /\ stored' = IF kind = "workspace" THEN [stored EXCEPT !["remote"] = 0] ELSE stored
  BY <1>7, <1>10, <1>12 DEF OpenDocument, locally, remotely
<1>15. /\ scheduler'["local"] = s /\ scheduler'["remote"] = x /\ machine'["local"] = m /\ machine'["remote"] = b
       /\ stored'["local"] = stored["local"]
       /\ stored'["remote"] = IF kind = "workspace" THEN 0 ELSE stored["remote"]
  BY <1>1, <1>7, <1>8, <1>14 DEF Types
<1>16. Types'
  <2>1. /\ scheduler' \in [Channels -> Scheduler] /\ machine' \in [Channels -> Watermark]
        /\ stored' \in [Channels -> NothingDurable..MaxRevision]
    <3>1. 0 \in NothingDurable..MaxRevision
      BY EditorAssumption DEF NothingDurable
    <3> QED BY <1>1, <1>8, <1>11, <1>13, <1>14, <3>1 DEF Types
  <2>2. token' \in NoVersion..head' /\ forced' \in NoVersion..head' /\ excused' \subseteq Channels
    BY <1>3, <1>4 DEF NoVersion
  <2> QED BY <1>1, <1>3, <1>4, <1>5, <2>1, <2>2 DEF Types
<1>17. ASSUME NEW c \in Channels, NEW t \in Scheduler, t.owner = 0, t.pending = NoRevision,
              Busy(t) => /\ t.flight.session <= opened /\ t.flight.expected <= head /\ t.retries <= t.flight.attempt
       PROVE  Serves(t)' /\ ~Own(t)' /\ ~Stuck(t)
  <2>1. Busy(t) => t.flight.session \in Int
    BY Fields, EditorAssumption DEF Flying, Sessions
  <2>2. ~Own(t)'
    BY <1>3, <1>5, <1>17, <2>1 DEF Own
  <2> QED BY <1>3, <1>4, <1>5, <1>17, <2>1, <2>2 DEF Serves, Stuck, Queued
<1>18. ChannelInv("local")'
  <2>1. /\ s.owner = 0 /\ s.pending = NoRevision /\ m.durable = NothingDurable /\ stored["local"] = NothingDurable
        /\ Busy(s) => /\ s.flight.session <= opened /\ s.flight.expected <= head /\ s.retries <= s.flight.attempt
        /\ ~s.paused /\ (m.active => m.status = "writing")
    BY <1>1, <1>9 DEF Holds, Ready, Serves, Stored, Newest, Queued
  <2>2. Serves(s)' /\ ~Own(s)' /\ ~Stuck(s)
    BY <1>8, <1>17, <2>1
  <2>3. "local" \notin excused' => ~Busy(s)
    BY <1>4, <1>7, <1>8
  <2>4. Stored("local", s, m, stored["local"])'
    <3>1. NothingDurable <= NothingDurable /\ NothingDurable <= 0
      BY DEF NothingDurable
    <3> QED BY <1>1, <1>4, <1>6, <1>15, <2>1, <2>2, <3>1 DEF Stored
  <2>5. Moving("local", s, m)'
    BY <2>2, <2>3 DEF Moving, Aboard
  <2>6. Newest(s, m, stored["local"])'
    BY <1>1, <1>4, <2>1 DEF Newest
  <2> QED BY <1>9, <1>15, <2>2, <2>4, <2>5, <2>6 DEF ChannelInv, Holds, Ready, Moving
<1>19. ChannelInv("remote")'
  <2>1. /\ x.owner = 0 /\ x.pending = NoRevision /\ w.durable = NothingDurable /\ stored["remote"] = NothingDurable
        /\ Busy(x) => /\ x.flight.session <= opened /\ x.flight.expected <= head /\ x.retries <= x.flight.attempt
    BY <1>1, <1>9, <1>11 DEF Holds, Ready, Serves, Stored, Queued, Busy
  <2>2. Serves(x)' /\ ~Own(x)' /\ ~Stuck(x)
    BY <1>8, <1>11, <1>17, <2>1
  <2>3. "remote" \notin excused' => ~Busy(x)
    BY <1>4, <1>7, <1>8, <1>11 DEF Busy
  <2>4. Stored("remote", x, b, stored["remote"])'
    <3>1. NothingDurable <= NothingDurable /\ NothingDurable <= 0 /\ 0 <= 0 /\ 0 >= 0
      BY DEF NothingDurable
    <3> QED BY <1>1, <1>3, <1>4, <1>6, <1>13, <1>15, <2>1, <2>2, <3>1 DEF Stored
  <2>5. Moving("remote", x, b)'
    BY <1>4, <1>11, <2>2, <2>3 DEF Moving, Aboard
  <2> QED BY <1>11, <1>15, <2>2, <2>4, <2>5 DEF ChannelInv, Holds, Ready, Moving
<1>20. Published'
  <2>1. publish # NoPublish => publish.session <= opened /\ publish.version <= head /\ publish.version \notin rivals
                               /\ publish.session \in Nat
    BY <1>1, EditorAssumption DEF EditorInv, Published, Types, Publication, Sessions
  <2>2. publish # NoPublish => publish.session <= n /\ publish.session # n
    BY <1>3, <2>1
  <2> QED BY <1>4, <1>5, <2>1, <2>2 DEF Published
<1>21. Informed'
  <2>1. ~Own(scheduler["remote"])'
    <3>1. Busy(x) => x.flight.session <= opened /\ x.flight.session \in Int
      BY <1>9, <1>11, Fields, EditorAssumption DEF Holds, Ready, Serves, Busy, Flying, Sessions
    <3> QED BY <1>3, <1>5, <1>15, <3>1 DEF Own
  <2> QED BY <1>4, <2>1 DEF Informed, Knows
<1>22. current <= current' /\ current' = 0
  BY <1>1, <1>4
<1> QED BY <1>4, <1>8, <1>16, <1>18, <1>19, <1>20, <1>21, <1>22, RestsElsewhere

\* A queue takes the new revision, or is not given it.
LEMMA EditHolds ==
    ASSUME EditorInv, open, current < MaxRevision, current' = current + 1,
           UNCHANGED <<session, opened, head, online, excused>>,
           NEW c \in Channels, NEW s, s = scheduler[c], NEW m, m = machine[c], NEW st, st = stored[c],
           NEW given \in BOOLEAN, ~given => (IF c = "local" THEN m.status = "unavailable" ELSE TRUE),
           NEW n, n = IF given THEN Scheduled(s, session.id, current + 1) ELSE s
    PROVE  n \in Scheduler /\ ~n.began /\ n.says = "none" /\ Holds(c, n, m, st)' /\ n.flight = s.flight
<1>1. /\ s \in Scheduler /\ m \in Watermark /\ st \in Int /\ Holds(c, s, m, st)
      /\ ~s.began /\ s.says = "none"
  BY AtChannel
<1>2. /\ session.id \in Sessions /\ current \in Int /\ current' \in 0..MaxRevision /\ current < current'
      /\ current' \in Int
  BY EditorAssumption DEF EditorInv, Types, open, Sessions
<1>3. open' = open /\ remoteEnabled' = remoteEnabled /\ (Own(s)' <=> Own(s))
  BY DEF open, remoteEnabled, Own
<1>4. /\ Serves(s) /\ Stored(c, s, m, st) /\ Moving(c, s, m)
      /\ c = "local" => Newest(s, m, st)
  BY <1>1 DEF Holds, Ready
<1>5. /\ s.pending \in Int
      /\ Busy(s) => s.flight.revision \in Int
  BY <1>1, Fields, EditorAssumption DEF Flying
<1>6. Serves(s)'
  BY <1>2, <1>3, <1>4, <1>5 DEF Serves, Own
<1>7. Stored(c, s, m, st)'
  BY <1>1, <1>2, <1>3, <1>4 DEF Stored, Takes
<1>8. Moving(c, s, m)'
  BY <1>3, <1>4 DEF Moving, Aboard
<1>9. CASE given
  <2>1. n = Scheduled(s, session'.id, current') /\ session'.id \in Sessions
    BY <1>2, <1>9
  <2>2. c = "local" => ~s.paused /\ (m.active => m.status = "writing")
    BY <1>4 DEF Newest
  <2> QED BY <1>1, <1>2, <1>6, <1>7, <1>8, <2>1, <2>2, ScheduledHolds
<1>10. CASE ~given
  <2>1. c = "local" => ~s.paused /\ ~m.active /\ m.status = "unavailable"
    BY <1>4, <1>10 DEF Newest
  <2>2. c = "local" => Newest(s, m, st)'
    BY <2>1 DEF Newest
  <2>3. Aboard(c, s, m)'
    BY <1>8 DEF Moving
  <2> QED BY <1>1, <1>6, <1>7, <1>8, <1>10, <2>2, <2>3 DEF Holds, Ready
<1> QED BY <1>9, <1>10

LEMMA NoteMutationKeeps ==
    ASSUME EditorInv, NoteMutation
    PROVE  EditorInv'
<1> DEFINE given(c) == IF c = "local" THEN machine["local"].status # "unavailable" ELSE remoteEnabled
           new == [c \in Channels |->
                     IF given(c) THEN Scheduled(scheduler[c], session.id, current + 1) ELSE scheduler[c]]
<1>1. /\ open /\ current < MaxRevision /\ current' = current + 1
      /\ scheduler' = [c \in Channels |-> Quiet(new[c])]
      /\ UNCHANGED <<session, uncommitted, online, link, machine, token, forced, conflict, probing, reads,
                     publish, head, stored, opened, events, rivals, decided, told, excused>>
      /\ Answers("local", ask, new["local"].says)
  BY DEF NoteMutation, locally
<1>2. PICK q : q = new
  OBVIOUS
<1>3. ASSUME NEW c \in Channels
      PROVE  /\ q[c] \in Scheduler /\ ~q[c].began /\ q[c].says = "none" /\ q[c].flight = scheduler[c].flight
             /\ Holds(c, q[c], machine[c], stored[c])'
  <2>1. PICK s, m, st : s = scheduler[c] /\ m = machine[c] /\ st = stored[c]
    OBVIOUS
  <2>2. \E g \in BOOLEAN : g <=> given(c)
    OBVIOUS
  <2>3. PICK g \in BOOLEAN : g <=> given(c)
    BY <2>2
  <2>4. PICK n : n = IF g THEN Scheduled(s, session.id, current + 1) ELSE s
    OBVIOUS
  <2>5. q[c] = n
    BY <1>2, <2>1, <2>3, <2>4
  <2>6. ~g => (IF c = "local" THEN m.status = "unavailable" ELSE TRUE)
    BY <2>1, <2>3
  <2>7. n \in Scheduler /\ ~n.began /\ n.says = "none" /\ Holds(c, n, m, st)' /\ n.flight = s.flight
    BY <1>1, <2>1, <2>4, <2>6, EditHolds
  <2>8. m = machine'[c] /\ st = stored'[c]
    BY <1>1, <2>1
  <2> QED BY <2>1, <2>5, <2>7, <2>8
<1>4. /\ scheduler' = [c \in Channels |-> Quiet(q[c])]
      /\ Answers("local", ask, q["local"].says)
  BY <1>1, <1>2
<1> HIDE DEF new, given
<1>5. ASSUME NEW c \in Channels
      PROVE  /\ scheduler'[c] \in Scheduler /\ ~scheduler'[c].began /\ scheduler'[c].says = "none"
             /\ scheduler'[c].flight = scheduler[c].flight
             /\ Holds(c, scheduler[c], machine[c], stored[c])'
  <2>1. PICK n, t : n = q[c] /\ t = Quiet(n)
    OBVIOUS
  <2>2. PICK m, st : m = machine'[c] /\ st = stored'[c]
    OBVIOUS
  <2>3. n \in Scheduler /\ ~n.began /\ n.says = "none" /\ n.flight = scheduler[c].flight /\ Holds(c, n, m, st)'
    BY <1>3, <2>1, <2>2
  <2>4. t \in Scheduler /\ Like(t, n) /\ t.began = FALSE /\ t.says = "none"
    BY <2>1, <2>3, QuietFields
  <2>5. Holds(c, t, m, st)'
    BY <2>3, <2>4, LikeHolds
  <2>6. scheduler'[c] = t
    BY <1>4, <2>1
  <2> QED BY <2>2, <2>3, <2>4, <2>5, <2>6 DEF Like
<1>6. ask' = ask /\ misled' = misled
  <2>1. q["local"].says = "none"
    BY <1>3 DEF Channels
  <2> QED BY <1>4, <2>1 DEF Answers
<1>7. scheduler' \in [Channels -> Scheduler]
  BY <1>4, <1>5
<1>8. current' \in 0..MaxRevision /\ current <= current' /\ current \in Int /\ current' \in Int
  BY <1>1, EditorAssumption DEF EditorInv, Types
<1>9. Types'
  BY <1>1, <1>6, <1>7, <1>8 DEF EditorInv, Types
<1>10. \A c \in Channels : ChannelInv(c)'
  BY <1>5 DEF ChannelInv
<1>11. open' = open /\ remoteEnabled' = remoteEnabled
  BY <1>1 DEF open, remoteEnabled
<1>12. Published'
  <2>1. publish # NoPublish => publish.revision \in Int
    BY EditorAssumption DEF EditorInv, Types, Publication
  <2> QED BY <1>1, <1>8, <2>1 DEF EditorInv, Published
<1>13. Informed'
  <2>1. scheduler'["remote"].flight = scheduler["remote"].flight
    BY <1>5 DEF Channels
  <2> QED BY <1>1, <1>11, <2>1 DEF EditorInv, Informed, Own, Busy, Knows
<1> QED BY <1>1, <1>6, <1>8, <1>9, <1>10, <1>11, <1>12, <1>13, RestsElsewhere

LEMMA CloseKeeps ==
    ASSUME EditorInv, CloseDocument
    PROVE  EditorInv'
<1>1. Types
  BY DEF EditorInv
<1>2. /\ session' = [id |-> 0, kind |-> "guest"] /\ current' = 0 /\ uncommitted' = FALSE /\ online' = TRUE
      /\ scheduler' = [c \in Channels |-> Quiet(Cancelled(scheduler[c]))]
      /\ token' = NoVersion /\ conflict' = FALSE /\ decided' = FALSE /\ probing' = FALSE
      /\ stored' = [c \in Channels |-> NothingDurable]
      /\ UNCHANGED <<link, forced, reads, publish, head, opened, events, rivals, told, excused>>
      /\ Answers("local", ask, "cancelled")
  BY DEF CloseDocument
<1>3. ASSUME NEW c \in Channels
      PROVE  /\ machine'[c] \in Watermark /\ machine'[c].durable = NothingDurable /\ ~machine'[c].active
  <2>1. PICK x \in Statuses : x = IF c = "remote" THEN "not_applicable"
                      ELSE IF locally.status = "unavailable" THEN "unavailable" ELSE "idle"
    BY DEF Statuses
  <2>2. machine'[c] = [durable |-> NothingDurable, active |-> FALSE, status |-> x]
    BY <2>1 DEF CloseDocument
  <2>3. PICK d \in NothingDurable..MaxRevision, a \in BOOLEAN : d = NothingDurable /\ a = FALSE
    <3>1. NothingDurable \in NothingDurable..MaxRevision /\ FALSE \in BOOLEAN
      BY EditorAssumption DEF NothingDurable
    <3> QED BY <3>1
  <2>4. PICK b : b = machine'[c]
    OBVIOUS
  <2>5. b = [durable |-> d, active |-> a, status |-> x]
    BY <2>2, <2>3, <2>4
  <2>6. b \in Watermark /\ b.durable = d /\ b.active = a
    BY <2>5, WatermarkFields
  <2> QED BY <2>3, <2>4, <2>6
<1>4. session' \in [id: 0..MaxSessions, kind: {"guest", "workspace"}] /\ session'.id = 0 /\ ~open'
  BY <1>2, EditorAssumption DEF open
<1>5. ASSUME NEW c \in Channels
      PROVE  /\ scheduler'[c] \in Scheduler /\ ~Own(scheduler[c])' /\ ChannelInv(c)'
  <2>1. PICK s, k, t : s = scheduler[c] /\ k = Cancelled(s) /\ t = Quiet(k)
    OBVIOUS
  <2>2. s \in Scheduler /\ Serves(s) /\ (c = "local" => ~s.paused)
    BY <2>1, AtChannel DEF Holds, Ready, Newest
  <2>3. /\ k \in Scheduler /\ k.paused = s.paused /\ k.pending = NoRevision
        /\ k.flight = s.flight /\ k.retries = 0 /\ k.owner = 0
    BY <2>1, <2>2, CancelledFields
  <2>4. t \in Scheduler /\ Like(t, k) /\ t.began = FALSE /\ t.says = "none"
    BY <2>1, <2>3, QuietFields
  <2>5. scheduler'[c] = t
    BY <1>2, <2>1
  <2>6. Busy(t) => /\ t.flight = s.flight /\ Busy(s) /\ s.flight \in Flying
    BY <2>2, <2>3, <2>4, Fields DEF Like, Busy
  <2>7. Busy(t) => 0 <= t.flight.attempt /\ t.flight.session # 0
    BY <2>6, SchedulerAssumption DEF Flying, Sessions
  <2>8. ~Own(t)' /\ ~Queued(t)
    BY <1>4, <2>3, <2>4, <2>7 DEF Own, Queued, Like
  <2>9. Serves(t)'
    BY <1>2, <1>4, <2>2, <2>3, <2>4, <2>6, <2>7, <2>8 DEF Serves, Like
  <2>10. PICK m, st : m = machine'[c] /\ st = stored'[c]
    OBVIOUS
  <2>11. m.durable = NothingDurable /\ ~m.active /\ st = NothingDurable
    BY <1>2, <1>3, <2>10
  <2>12. Stored(c, t, m, st)'
    BY <1>4, <2>8, <2>11 DEF Stored
  <2>13. Moving(c, t, m)'
    BY <1>4, <2>8 DEF Moving, Aboard
  <2>14. c = "local" => Newest(t, m, st)'
    BY <1>4, <2>2, <2>3, <2>4, <2>11 DEF Newest, Like
  <2> QED BY <2>4, <2>5, <2>8, <2>9, <2>10, <2>12, <2>13, <2>14 DEF ChannelInv, Holds, Ready, Moving
<1>6. /\ scheduler' \in [Channels -> Scheduler] /\ machine' \in [Channels -> Watermark]
      /\ stored' \in [Channels -> NothingDurable..MaxRevision]
  <2>1. NothingDurable \in NothingDurable..MaxRevision
    BY EditorAssumption DEF NothingDurable
  <2>2. \E f : machine' = [c \in Channels |-> f[c]]
    <3>1. machine' = [c \in Channels |->
                [durable |-> NothingDurable, active |-> FALSE,
                 status |-> IF c = "remote" THEN "not_applicable"
                            ELSE IF locally.status = "unavailable" THEN "unavailable" ELSE "idle"]]
      BY DEF CloseDocument
    <3>2. machine' = [c \in Channels |-> machine'[c]]
      BY <3>1
    <3> QED BY <3>2
  <2> QED BY <1>2, <1>3, <1>5, <2>1, <2>2
<1>7. ask' = NoAsk /\ misled' = misled
  BY <1>1, <1>2 DEF Answers, EditorInv, Types
<1>8. Types'
  <2>1. token' \in NoVersion..head /\ current' \in 0..MaxRevision
    BY <1>1, <1>2, EditorAssumption DEF Types, NoVersion
  <2> QED BY <1>1, <1>2, <1>4, <1>6, <1>7, <2>1 DEF Types
<1>9. Published'
  <2>1. publish # NoPublish => publish.session # 0
    BY <1>1, EditorAssumption DEF Types, Publication, Sessions
  <2> QED BY <1>2, <1>4, <2>1 DEF EditorInv, Published
<1>10. Informed'
  BY <1>4, <1>5 DEF Informed, Channels
<1>11. Asked'
  BY <1>7 DEF Asked
<1> QED BY <1>2, <1>5, <1>7, <1>8, <1>9, <1>10, <1>11 DEF EditorInv

--------------------------------------------------------------------------------
(* The network, the user's commands and the other people of the workspace.    *)

\* A step that touches no channel.
LEMMA AsideKeeps ==
    ASSUME EditorInv, Types', Published', head <= head',
           UNCHANGED <<session, current, opened, ask, misled, scheduler, machine, stored, online, excused, token, forced>>,
           \A v \in Int : v <= head /\ Knows(v) => Knows(v)'
    PROVE  EditorInv'
<1>1. Types /\ open' = open
  BY DEF EditorInv, open
<1>2. \A c \in Channels : ChannelInv(c)'
  BY <1>1, ChannelRests DEF EditorInv
<1>3. open => Knows(token)' /\ Knows(forced)'
  <2>1. token \in Int /\ forced \in Int /\ token <= head /\ forced <= head
    BY <1>1 DEF Types, NoVersion
  <2>2. open => Knows(token) /\ Knows(forced)
    BY DEF EditorInv, Informed
  <2> QED BY <2>1, <2>2 DEF Knows
<1>4. Own(scheduler["remote"])' => Knows(scheduler["remote"].flight.expected)'
  <2>1. "remote" \in Channels
    BY DEF Channels
  <2>2. PICK s : s = scheduler["remote"]
    OBVIOUS
  <2>3. s \in Scheduler /\ Serves(s)
    BY <2>1, <2>2, AtChannel DEF Holds, Ready
  <2>4. SUFFICES ASSUME Own(s) PROVE Knows(s.flight.expected)'
    BY <2>2 DEF Own, Knows
  <2>5. s.flight.expected \in Int /\ s.flight.expected <= head
    BY <1>1, <2>3, <2>4, FlightFields DEF Own, Types, NoVersion
  <2> QED BY <2>2, <2>4, <2>5 DEF EditorInv, Informed
<1> QED BY <1>1, <1>2, <1>3, <1>4, RestsElsewhere, RestsHere DEF Informed

LEMMA AsideSteps ==
    ASSUME EditorInv, NoteUncommittedInput \/ ReplaceWorkspace \/ Publish \/ RivalCommits \/ \E rd \in reads : ReadFails(rd)
    PROVE  EditorInv'
<1>1. Types /\ Published
  BY DEF EditorInv
<1>2. CASE NoteUncommittedInput
  <2>1. Types' /\ Published'
    <3>1. uncommitted' \in BOOLEAN
      BY <1>1, <1>2 DEF NoteUncommittedInput, Types
    <3> QED BY <1>1, <1>2, <3>1 DEF NoteUncommittedInput, Types, Published
  <2> QED BY <1>1, <1>2, <2>1, AsideKeeps DEF NoteUncommittedInput, Knows, Types
<1>3. CASE ReplaceWorkspace
  <2>1. [for |-> "replace", session |-> session.id, from |-> head] \in Readings
    BY <1>1, <1>3, EditorAssumption DEF ReplaceWorkspace, Types, open, Readings, Sessions
  <2>2. reads' \subseteq Readings
    BY <1>1, <1>3, <2>1 DEF ReplaceWorkspace, Types
  <2>3. Types' /\ Published'
    BY <1>1, <1>3, <2>2 DEF ReplaceWorkspace, Types, Published
  <2> QED BY <1>1, <1>3, <2>3, AsideKeeps DEF ReplaceWorkspace, Knows, Types
<1>4. CASE Publish
  <2>1. publish' \in Publication /\ publish'.session = session.id /\ publish'.revision = current /\ publish'.version = NoVersion
    BY <1>1, <1>4, EditorAssumption DEF Publish, Types, open, Publication, Sessions, Versions, NoVersion
  <2>2. Types'
    BY <1>1, <1>4, <2>1 DEF Publish, Types
  <2>3. Published'
    <3>1. session.id <= opened /\ current <= current /\ NoVersion <= head /\ NoVersion \notin rivals
      BY <1>1, <1>4, EditorAssumption DEF Types, Publish, open, NoVersion
    <3> QED BY <1>4, <2>1, <3>1 DEF Publish, Published
  <2> QED BY <1>1, <1>4, <2>2, <2>3, AsideKeeps DEF Publish, Knows, Types
<1>5. CASE RivalCommits
  <2>1. head \in Nat /\ head' = head + 1 /\ rivals' = rivals \cup {head + 1} /\ told' = told
    BY <1>1, <1>5 DEF RivalCommits, Types
  <2>2. Types'
    <3>1. rivals' \subseteq 1..head' /\ told' \subseteq rivals' /\ head' \in Nat
      <4>1. rivals \subseteq 1..head /\ told \subseteq rivals
        BY <1>1 DEF Types
      <4>2. 1..head \subseteq 1..(head + 1) /\ head + 1 \in 1..(head + 1) /\ head + 1 \in Nat
        BY <2>1
      <4> QED BY <2>1, <4>1, <4>2
    <3>2. token' \in NoVersion..head' /\ forced' \in NoVersion..head'
      BY <1>1, <1>5, <2>1 DEF RivalCommits, Types, NoVersion
    <3> QED BY <1>1, <1>5, <3>1, <3>2 DEF RivalCommits, Types
  <2>3. Published'
    <3>1. publish # NoPublish => publish.version \in Int
      BY <1>1 DEF Types, Publication, Versions, NoVersion
    <3> QED BY <1>1, <1>5, <2>1, <3>1 DEF RivalCommits, Published
  <2>4. head <= head' /\ (\A v \in Int : v <= head /\ Knows(v) => Knows(v)')
    BY <2>1 DEF Knows
  <2> QED BY <1>5, <2>2, <2>3, <2>4, AsideKeeps DEF RivalCommits
<1>6. CASE \E rd \in reads : ReadFails(rd)
  <2>1. PICK rd : ReadFails(rd)
    BY <1>6
  <2>2. reads' \subseteq Readings
    BY <1>1, <2>1 DEF ReadFails, Types
  <2>3. Types' /\ Published'
    BY <1>1, <2>1, <2>2 DEF ReadFails, Types, Published
  <2> QED BY <1>1, <2>1, <2>3, AsideKeeps DEF ReadFails, Knows, Types
<1> QED BY <1>2, <1>3, <1>4, <1>5, <1>6

LEMMA StoreRefusesKeeps ==
    ASSUME EditorInv, StoreRefuses
    PROVE  EditorInv'
<1>1. Types /\ "local" \in Channels
  BY DEF EditorInv, Channels
<1>2. PICK s, m, st : s = scheduler["local"] /\ m = machine["local"] /\ st = stored["local"]
  OBVIOUS
<1>3. s \in Scheduler /\ m \in Watermark /\ st \in Int /\ ~s.began /\ s.says = "none"
  BY <1>1, <1>2, AtChannel
<1>4. PICK b : b = IF m.status = "unavailable" THEN m ELSE [m EXCEPT !.status = "unavailable", !.active = FALSE]
  OBVIOUS
<1>5. b \in Watermark /\ b.durable = m.durable /\ b.status = "unavailable" /\ (b = m \/ ~b.active)
  BY <1>3, <1>4 DEF Watermark, Statuses
<1>6. /\ UNCHANGED <<opened, session, current, uncommitted, online, link, scheduler, token, forced, conflict, reads,
                     publish, head, stored, ask, rivals, decided, told, misled, excused>>
      /\ probing' = FALSE /\ machine' = [machine EXCEPT !["local"] = b]
  <2>1. machine = [machine EXCEPT !["local"] = machine["local"]]
    BY <1>1 DEF Types
  <2> QED BY <1>2, <1>4, <2>1 DEF StoreRefuses, locally
<1>7. Types'
  BY <1>1, <1>5, <1>6 DEF Types
<1>8. Holds("local", s, m, st)'
  BY <1>1, <1>2, <1>6, HoldsNow
<1>9. Holds("local", s, b, st)'
  <2>1. Serves(s)' /\ Stored("local", s, m, st)' /\ Aboard("local", s, m)' /\ Newest(s, m, st)'
    BY <1>8 DEF Holds, Ready
  <2>2. ~b.active \/ b = m
    BY <1>5
  <2>3. Stored("local", s, b, st)'
    BY <1>5, <2>1 DEF Stored
  <2>4. Moving("local", s, b)'
    BY <1>5, <2>1 DEF Moving, Aboard, Shows
  <2>5. Newest(s, b, st)'
    BY <1>5, <2>1, <2>2 DEF Newest
  <2> QED BY <2>1, <2>3, <2>4, <2>5 DEF Holds, Ready, Moving
<1>10. ASSUME NEW c \in Channels PROVE ChannelInv(c)'
  <2>1. CASE c = "local"
    <3>1. scheduler'[c] = s /\ machine'[c] = b /\ stored'[c] = st
      BY <1>1, <1>2, <1>6, <2>1 DEF Types
    <3> QED BY <1>3, <1>9, <2>1, <3>1 DEF ChannelInv
  <2>2. CASE c # "local"
    <3>1. machine'[c] = machine[c] /\ head <= head'
      BY <1>1, <1>6, <2>2 DEF Types
    <3> QED BY <1>1, <1>6, <1>7, <3>1, ChannelRests DEF EditorInv
  <2> QED BY <2>1, <2>2
<1>11. Published' /\ Informed'
  BY <1>6 DEF EditorInv, Published, Informed, open, Own, Knows
<1> QED BY <1>6, <1>7, <1>10, <1>11, RestsElsewhere, RestsHere

LEMMA LinkDropsKeeps ==
    ASSUME EditorInv, LinkDrops
    PROVE  EditorInv'
<1> DEFINE c == "remote"
<1>1. Types /\ c \in Channels
  BY DEF EditorInv, Channels
<1>2. /\ link' = FALSE
      /\ UNCHANGED <<opened, session, current, uncommitted, token, forced, conflict, probing, reads, publish, head,
                     stored, ask, misled, rivals, decided, told, excused>>
  BY DEF LinkDrops
<1>3. CASE ~online
  <2>1. UNCHANGED <<online, machine, scheduler>>
    BY <1>3 DEF LinkDrops
  <2>2. Types' /\ Published'
    BY <1>1, <1>2, <2>1 DEF EditorInv, Types, Published
  <2>3. head <= head'
    BY <1>1, <1>2 DEF Types
  <2>4. \A v : Knows(v) => Knows(v)'
    BY <1>2 DEF Knows
  <2> QED BY <1>2, <2>1, <2>2, <2>3, <2>4, AsideKeeps
<1>4. CASE online
  <2>1. PICK s, m, st : s = scheduler[c] /\ m = machine[c] /\ st = stored[c]
    OBVIOUS
  <2>2. s \in Scheduler /\ m \in Watermark /\ st \in Int /\ ~s.began /\ s.says = "none" /\ Holds(c, s, m, st)
    BY <1>1, <2>1, AtChannel
  <2>3. PICK n : n = Paused(s)
    OBVIOUS
  <2>4. /\ n \in Scheduler /\ n.paused /\ n.pending = s.pending /\ n.flight = s.flight /\ n.retries = s.retries
        /\ n.owner = s.owner /\ n.began = s.began /\ n.says = s.says
    BY <2>2, <2>3, PausedFields
  <2>5. PICK b : b = IF remoteEnabled /\ m.status # "conflict" THEN [m EXCEPT !.status = "offline"] ELSE m
    OBVIOUS
  <2>6. b \in Watermark /\ b.durable = m.durable /\ b.active = m.active
    BY <2>2, <2>5 DEF Watermark, Statuses
  <2>7. online' = FALSE /\ scheduler' = [scheduler EXCEPT ![c] = n] /\ machine' = [machine EXCEPT ![c] = b]
    <3>1. machine = [machine EXCEPT ![c] = machine[c]]
      BY <1>1 DEF Types
    <3> QED BY <1>4, <2>1, <2>3, <2>5, <3>1 DEF LinkDrops, remotely
  <2>8. Types'
    BY <1>1, <1>2, <2>4, <2>6, <2>7 DEF Types
  <2>9. Holds(c, n, b, st)'
    <3>1. open' = open /\ remoteEnabled' = remoteEnabled /\ (Own(n)' <=> Own(s)) /\ (Busy(n) <=> Busy(s))
          /\ (Queued(n) <=> Queued(s))
      BY <1>2, <2>4 DEF open, remoteEnabled, Own, Busy, Queued
    <3>2. Serves(s) /\ Stored(c, s, m, st) /\ Aboard(c, s, m)
      BY <2>2 DEF Holds, Ready
    <3>3. Serves(n)'
      BY <1>2, <2>4, <3>1, <3>2 DEF Serves
    <3>4. Stored(c, n, b, st)'
      BY <1>2, <2>4, <2>6, <3>1, <3>2 DEF Stored, Takes
    <3>5. Moving(c, n, b)'
      BY <1>2, <2>4, <2>6, <3>1, <3>2 DEF Moving, Aboard, Stuck
    <3> QED BY <3>3, <3>4, <3>5 DEF Holds, Ready, Moving
  <2>10. ASSUME NEW d \in Channels PROVE ChannelInv(d)'
    <3>1. CASE d = c
      <4>1. scheduler'[c] = n /\ machine'[c] = b /\ stored'[c] = st
        BY <1>1, <1>2, <2>1, <2>7 DEF Types
      <4> QED BY <2>2, <2>4, <2>9, <3>1, <4>1 DEF ChannelInv
    <3>2. CASE d # c
      <4>1. machine'[d] = machine[d] /\ scheduler'[d] = scheduler[d] /\ head <= head'
        BY <1>1, <1>2, <2>7, <3>2 DEF Types
      <4> QED BY <1>1, <1>2, <2>8, <3>2, <4>1, ChannelRests DEF EditorInv
    <3> QED BY <3>1, <3>2
  <2>11. Published' /\ Informed'
    <3>1. scheduler'[c].flight = scheduler[c].flight
      BY <1>1, <2>1, <2>4, <2>7 DEF Types
    <3> QED BY <1>2, <3>1 DEF EditorInv, Published, Informed, open, Own, Busy, Knows
  <2> QED BY <1>2, <2>8, <2>10, <2>11, RestsElsewhere, RestsHere
<1>5. online \in BOOLEAN
  BY <1>1 DEF Types
<1> QED BY <1>3, <1>4, <1>5

LEMMA LinkReturnsKeeps ==
    ASSUME EditorInv, LinkReturns
    PROVE  EditorInv'
<1> DEFINE c == "remote"
<1>1. Types /\ c \in Channels
  BY DEF EditorInv, Channels
<1>2. /\ link' = TRUE
      /\ UNCHANGED <<session, current, uncommitted, scheduler, token, forced, conflict, probing, publish, head,
                     stored, ask, misled, opened, events, rivals, decided, told, excused>>
  BY DEF LinkReturns
<1>3. CASE online
  <2>1. UNCHANGED <<online, machine, reads>>
    BY <1>3 DEF LinkReturns
  <2>2. Types' /\ Published'
    BY <1>1, <1>2, <2>1 DEF EditorInv, Types, Published
  <2>3. head <= head'
    BY <1>1, <1>2 DEF Types
  <2>4. \A v : Knows(v) => Knows(v)'
    BY <1>2 DEF Knows
  <2> QED BY <1>2, <2>1, <2>2, <2>3, <2>4, AsideKeeps
<1>4. CASE ~online
  <2>1. PICK s, m, st : s = scheduler[c] /\ m = machine[c] /\ st = stored[c]
    OBVIOUS
  <2>2. s \in Scheduler /\ m \in Watermark /\ st \in Int /\ ~s.began /\ s.says = "none" /\ Holds(c, s, m, st)
    BY <1>1, <2>1, AtChannel
  <2>3. PICK b : b = IF m.status = "offline" THEN [m EXCEPT !.status = "idle"] ELSE m
    OBVIOUS
  <2>4. b \in Watermark /\ b.durable = m.durable /\ b.active = m.active /\ (Shows(m) => Shows(b))
    BY <2>2, <2>3 DEF Watermark, Statuses, Shows
  <2>5. /\ online' = TRUE /\ machine' = [machine EXCEPT ![c] = b]
        /\ reads' = IF open /\ remoteEnabled
                    THEN reads \cup {[for |-> "reconnect", session |-> session.id, from |-> head]} ELSE reads
    <3>1. machine = [machine EXCEPT ![c] = machine[c]]
      BY <1>1 DEF Types
    <3> QED BY <1>4, <2>1, <2>3, <3>1 DEF LinkReturns, remotely
  <2>6. reads' \subseteq Readings
    <3>1. open => [for |-> "reconnect", session |-> session.id, from |-> head] \in Readings
      BY <1>1, EditorAssumption DEF Types, open, Readings, Sessions
    <3> QED BY <1>1, <2>5, <3>1 DEF Types
  <2>7. Types'
    BY <1>1, <1>2, <2>4, <2>5, <2>6 DEF Types
  <2>8. Holds(c, s, b, st)'
    <3>1. open' = open /\ remoteEnabled' = remoteEnabled /\ (Own(s)' <=> Own(s))
      BY <1>2 DEF open, remoteEnabled, Own
    <3>2. Serves(s) /\ Stored(c, s, m, st) /\ Moving(c, s, m)
      BY <2>2 DEF Holds, Ready
    <3>3. Serves(s)'
      BY <1>2, <3>1, <3>2 DEF Serves
    <3>4. Stored(c, s, b, st)'
      BY <1>2, <2>4, <3>1, <3>2 DEF Stored, Takes
    <3>5. Moving(c, s, b)'
      BY <1>2, <2>4, <2>5, <3>1, <3>2 DEF Moving, Aboard
    <3> QED BY <3>3, <3>4, <3>5 DEF Holds, Ready, Moving
  <2>9. ASSUME NEW d \in Channels PROVE ChannelInv(d)'
    <3>1. CASE d = c
      <4>1. scheduler'[c] = s /\ machine'[c] = b /\ stored'[c] = st
        BY <1>1, <1>2, <2>1, <2>5 DEF Types
      <4> QED BY <2>2, <2>8, <3>1, <4>1 DEF ChannelInv
    <3>2. CASE d # c
      <4>1. machine'[d] = machine[d] /\ head <= head'
        BY <1>1, <1>2, <2>5, <3>2 DEF Types
      <4> QED BY <1>1, <1>2, <2>7, <3>2, <4>1, ChannelRests DEF EditorInv
    <3> QED BY <3>1, <3>2
  <2>10. Published' /\ Informed'
    BY <1>2 DEF EditorInv, Published, Informed, open, Own, Knows
  <2> QED BY <1>2, <2>7, <2>9, <2>10, RestsElsewhere, RestsHere
<1>5. online \in BOOLEAN
  BY <1>1 DEF Types
<1> QED BY <1>3, <1>4, <1>5

LEMMA PublishLandsKeeps ==
    ASSUME EditorInv, PublishLands
    PROVE  EditorInv'
<1> DEFINE c == "remote"
<1>1. Types /\ c \in Channels
  BY DEF EditorInv, Channels
<1>2. PICK s, m, st, p : s = scheduler[c] /\ m = machine[c] /\ st = stored[c] /\ p = publish
  OBVIOUS
<1>3. s \in Scheduler /\ m \in Watermark /\ st \in Int /\ ~s.began /\ s.says = "none" /\ Holds(c, s, m, st)
  BY <1>1, <1>2, AtChannel
<1>4. /\ p # NoPublish /\ p.version = NoVersion
      /\ head' = head + 1 /\ publish' = [p EXCEPT !.version = head + 1]
      /\ stored' = IF p.session # session.id \/ st > p.revision THEN stored ELSE [stored EXCEPT ![c] = p.revision]
      /\ UNCHANGED <<session, current, uncommitted, online, link, scheduler, machine, token, forced, conflict,
                     probing, reads, ask, misled, opened, events, rivals, decided, told, excused>>
  BY <1>2 DEF PublishLands
<1>5. /\ p \in Publication /\ p.session \in Sessions /\ p.revision \in 0..MaxRevision /\ p.revision \in Int
      /\ p.session # 0 /\ head \in Nat /\ head + 1 \in Nat
  BY <1>1, <1>2, <1>4, EditorAssumption DEF Types, Publication, Sessions
<1>6. publish' \in Publication /\ publish'.session = p.session /\ publish'.revision = p.revision
      /\ publish'.version = head + 1
  BY <1>4, <1>5 DEF Publication, Versions
<1>7. PICK w \in Int : /\ w = IF p.session # session.id \/ st > p.revision THEN st ELSE p.revision
  BY <1>3, <1>5
<1>8. stored' = [stored EXCEPT ![c] = w]
  <2>1. stored = [stored EXCEPT ![c] = stored[c]]
    BY <1>1 DEF Types
  <2> QED BY <1>2, <1>4, <1>7, <2>1
<1>9. /\ w \in NothingDurable..MaxRevision /\ st <= w
      /\ p.session = session.id => p.revision <= w /\ open
      /\ open => w <= current
      /\ ~open => w = st
  <2>1. p.session = session.id => p.revision <= current /\ open
    BY <1>2, <1>4, <1>5 DEF EditorInv, Published, open
  <2>2. open => st <= current
    BY <1>3 DEF Holds, Ready, Stored
  <2>3. st \in NothingDurable..MaxRevision /\ p.revision \in NothingDurable..MaxRevision
    BY <1>1, <1>2, <1>5, EditorAssumption DEF Types, NothingDurable
  <2> QED BY <1>3, <1>5, <1>7, <2>1, <2>2, <2>3
<1>10. Types'
  <2>1. token' \in NoVersion..head' /\ forced' \in NoVersion..head' /\ rivals' \subseteq 1..head' /\ head' \in Nat
    <3>1. /\ token \in NoVersion..head /\ forced \in NoVersion..head /\ rivals \subseteq 1..head
      BY <1>1 DEF Types
    <3>2. NoVersion..head \subseteq NoVersion..(head + 1) /\ 1..head \subseteq 1..(head + 1)
      BY <1>5 DEF NoVersion
    <3> QED BY <1>4, <1>5, <3>1, <3>2
  <2> QED BY <1>1, <1>4, <1>6, <1>8, <1>9, <2>1 DEF Types
<1>11. Holds(c, s, m, w)'
  <2>1. open' = open /\ remoteEnabled' = remoteEnabled /\ (Own(s)' <=> Own(s))
    BY <1>4 DEF open, remoteEnabled, Own
  <2>2. Serves(s) /\ Stored(c, s, m, st) /\ Moving(c, s, m)
    BY <1>3 DEF Holds, Ready
  <2>3. Own(s) => s.flight.expected \in NoVersion..head /\ s.flight.revision \in Int
    BY <1>3, <2>2, FlightFields DEF Own
  <2>4. Busy(s) => s.flight.expected \in Int
    BY <1>3, Fields DEF Flying, Versions, NoVersion
  <2>5. m.durable \in Int
    BY <1>3, EditorAssumption DEF Watermark, NothingDurable
  <2>6. Serves(s)'
    BY <1>4, <1>5, <2>1, <2>2, <2>4 DEF Serves
  <2>7. Stored(c, s, m, w)'
    BY <1>3, <1>4, <1>5, <1>9, <2>1, <2>2, <2>3, <2>5 DEF Stored, Takes, NoVersion
  <2>8. Moving(c, s, m)'
    BY <1>4, <2>1, <2>2 DEF Moving, Aboard
  <2> QED BY <2>6, <2>7, <2>8 DEF Holds, Ready, Moving
<1>12. ASSUME NEW d \in Channels PROVE ChannelInv(d)'
  <2>1. CASE d = c
    <3>1. scheduler'[c] = s /\ machine'[c] = m /\ stored'[c] = w
      BY <1>1, <1>2, <1>4, <1>8 DEF Types
    <3> QED BY <1>3, <1>11, <2>1, <3>1 DEF ChannelInv
  <2>2. CASE d # c
    <3>1. stored'[d] = stored[d] /\ head <= head'
      BY <1>1, <1>4, <1>5, <1>8, <2>2 DEF Types
    <3> QED BY <1>1, <1>4, <1>10, <2>2, <3>1, ChannelRests DEF EditorInv
  <2> QED BY <2>1, <2>2
<1>13. Published'
  <2>1. stored'[c] = w /\ head + 1 \notin rivals /\ head + 1 <= head + 1
    BY <1>1, <1>5, <1>8 DEF Types
  <2> QED BY <1>2, <1>4, <1>6, <1>9, <2>1 DEF EditorInv, Published
<1>14. Informed'
  BY <1>4 DEF EditorInv, Informed, open, Own, Knows
<1> QED BY <1>4, <1>10, <1>12, <1>13, <1>14, RestsElsewhere, RestsHere

LEMMA NoteVersionCommittedKeeps ==
    ASSUME EditorInv, NoteVersionCommitted
    PROVE  EditorInv'
<1> DEFINE c == "remote"
<1>1. Types /\ c \in Channels
  BY DEF EditorInv, Channels
<1>2. PICK s, m, st, p : s = scheduler[c] /\ m = machine[c] /\ st = stored[c] /\ p = publish
  OBVIOUS
<1>3. s \in Scheduler /\ m \in Watermark /\ st \in Int /\ ~s.began /\ s.says = "none" /\ Holds(c, s, m, st)
  BY <1>1, <1>2, AtChannel
<1>4. /\ p # NoPublish /\ p.version # NoVersion /\ publish' = NoPublish
      /\ UNCHANGED <<session, current, uncommitted, online, link, scheduler, forced, conflict, probing, reads,
                     head, stored, ask, misled, opened, rivals, decided, excused>>
      /\ \/ p.session # session.id /\ UNCHANGED <<machine, token, told>>
         \/ /\ p.session = session.id
            /\ machine' = IF m.durable >= p.revision THEN machine ELSE [machine EXCEPT ![c].durable = p.revision]
            /\ \/ token' = p.version /\ told' = told \cup {v \in rivals : v < p.version}
               \/ UNCHANGED <<token, told>>
  BY <1>2 DEF NoteVersionCommitted, remotely
<1>5. /\ p \in Publication /\ p.session \in Sessions /\ p.revision \in 0..MaxRevision /\ p.revision \in Int
      /\ p.session # 0 /\ head \in Nat
  BY <1>1, <1>2, <1>4, EditorAssumption DEF Types, Publication, Sessions
<1>6. CASE p.session # session.id
  <2>1. Types' /\ Published'
    BY <1>1, <1>4, <1>6 DEF Types, Published
  <2>2. head <= head' /\ (\A v : Knows(v) => Knows(v)')
    BY <1>4, <1>5, <1>6 DEF Knows
  <2> QED BY <1>4, <1>6, <2>1, <2>2, AsideKeeps
<1>7. CASE p.session = session.id
  <2>1. /\ p.version <= head /\ p.version \notin rivals /\ p.revision <= st /\ open
    BY <1>2, <1>4, <1>5, <1>7 DEF EditorInv, Published, open
  <2>2. PICK b : b = IF m.durable >= p.revision THEN m ELSE [m EXCEPT !.durable = p.revision]
    OBVIOUS
  <2>3. /\ b \in Watermark /\ b.active = m.active /\ b.status = m.status
        /\ b.durable = IF m.durable >= p.revision THEN m.durable ELSE p.revision
    <3>1. p.revision \in NothingDurable..MaxRevision
      BY <1>5, EditorAssumption DEF NothingDurable
    <3> QED BY <1>3, <2>2, <3>1 DEF Watermark
  <2>4. machine' = [machine EXCEPT ![c] = b]
    <3>1. machine = [machine EXCEPT ![c] = machine[c]]
      BY <1>1 DEF Types
    <3> QED BY <1>2, <1>4, <1>7, <2>2, <3>1
  <2>5. token' \in NoVersion..head /\ told \subseteq told' /\ told' \subseteq rivals
    <3>1. p.version \in Int /\ p.version >= NoVersion
      BY <1>5 DEF Publication, Versions, NoVersion
    <3>2. told \subseteq rivals /\ token \in NoVersion..head
      BY <1>1 DEF Types
    <3>3. CASE token' = p.version /\ told' = told \cup {v \in rivals : v < p.version}
      BY <1>4, <1>5, <2>1, <3>1, <3>2, <3>3 DEF NoVersion
    <3>4. CASE UNCHANGED <<token, told>>
      BY <1>4, <3>2, <3>4
    <3> QED BY <1>4, <1>7, <3>3, <3>4
  <2>6. Types'
    BY <1>1, <1>4, <2>3, <2>4, <2>5 DEF Types
  <2>7. Holds(c, s, b, st)'
    <3>1. Holds(c, s, m, st)'
      BY <1>1, <1>2, <1>4, HoldsNow
    <3>2. open' = open
      BY <1>4 DEF open
    <3>3. m.durable \in Int
      BY <1>3, EditorAssumption DEF Watermark, NothingDurable
    <3>4. Serves(s)' /\ Stored(c, s, m, st)' /\ Moving(c, s, m)'
      BY <3>1 DEF Holds, Ready
    <3>5. Stored(c, s, b, st)'
      BY <1>5, <2>1, <2>3, <3>2, <3>3, <3>4 DEF Stored
    <3>6. Moving(c, s, b)'
      BY <2>3, <3>4 DEF Moving, Aboard, Shows
    <3> QED BY <3>4, <3>5, <3>6 DEF Holds, Ready, Moving
  <2>8. ASSUME NEW d \in Channels PROVE ChannelInv(d)'
    <3>1. CASE d = c
      <4>1. scheduler'[c] = s /\ machine'[c] = b /\ stored'[c] = st
        BY <1>1, <1>2, <1>4, <2>4 DEF Types
      <4> QED BY <1>3, <2>7, <3>1, <4>1 DEF ChannelInv
    <3>2. CASE d # c
      <4>1. machine'[d] = machine[d] /\ head <= head'
        BY <1>1, <1>4, <1>5, <2>4, <3>2 DEF Types
      <4> QED BY <1>1, <1>4, <2>6, <3>2, <4>1, ChannelRests DEF EditorInv
    <3> QED BY <3>1, <3>2
  <2>9. Published'
    BY <1>4 DEF Published
  <2>10. Informed'
    <3>1. Knows(token)'
      <4>1. \A v \in rivals : v \in Int
        BY <1>1 DEF Types
      <4>2. p.version \in Int
        BY <1>5 DEF Publication, Versions, NoVersion
      <4>3. CASE token' = p.version /\ told' = told \cup {v \in rivals : v < p.version}
        BY <1>4, <2>1, <4>1, <4>2, <4>3 DEF Knows
      <4>4. CASE UNCHANGED <<token, told>>
        BY <1>4, <2>1, <4>4 DEF EditorInv, Informed, Knows, open
      <4> QED BY <1>4, <1>7, <4>3, <4>4
    <3>2. \A v : Knows(v) => Knows(v)'
      BY <1>4, <2>5 DEF Knows
    <3>3. Own(scheduler["remote"])' => Knows(scheduler["remote"].flight.expected)'
      BY <1>4, <2>5 DEF EditorInv, Informed, Own, Knows
    <3>4. open' => Knows(forced)'
      BY <1>4, <2>5 DEF EditorInv, Informed, open, Knows
    <3> QED BY <3>1, <3>3, <3>4 DEF Informed
  <2> QED BY <1>4, <2>6, <2>8, <2>9, <2>10, RestsElsewhere, RestsHere
<1> QED BY <1>6, <1>7

--------------------------------------------------------------------------------
(* The invariant, and what it gives.                                          *)

LEMMA InitEditor == Init => EditorInv
<1> SUFFICES ASSUME Init PROVE EditorInv
  OBVIOUS
<1>1. ~open /\ Channels = {"local", "remote"} /\ session.id = 0
  BY DEF Init, open, Channels
<1>2. 0 \in 0..MaxSessions /\ 0 \in 0..MaxRevision /\ 0 \in 0..MaxRetries /\ 0 \in Nat /\ 0 <= 0
      /\ NothingDurable \in NothingDurable..MaxRevision /\ NoVersion \in NoVersion..0
  BY EditorAssumption, SchedulerAssumption DEF NothingDurable, NoVersion
<1>3. Idle \in Scheduler /\ ~Busy(Idle) /\ ~Queued(Idle) /\ ~Own(Idle) /\ Idle.owner = 0 /\ ~Idle.paused
      /\ ~Idle.began /\ Idle.says = "none"
  BY <1>2, NoRevisionBelow DEF Idle, Scheduler, Busy, Queued, Own, Verdicts
<1>4. ASSUME NEW c \in Channels
      PROVE  /\ machine[c] \in Watermark /\ machine[c].durable = NothingDurable /\ ~machine[c].active
  <2>1. PICK x \in Statuses : x = IF c = "local" THEN "idle" ELSE "not_applicable"
    BY DEF Statuses
  <2>2. PICK d \in NothingDurable..MaxRevision, a \in BOOLEAN : d = NothingDurable /\ a = FALSE
    <3>1. FALSE \in BOOLEAN
      OBVIOUS
    <3> QED BY <1>2, <3>1
  <2>3. PICK b : b = machine[c]
    OBVIOUS
  <2>4. b = [durable |-> d, active |-> a, status |-> x]
    BY <2>1, <2>2, <2>3 DEF Init
  <2>5. b \in Watermark /\ b.durable = d /\ b.active = a
    BY <2>4, WatermarkFields
  <2> QED BY <2>2, <2>3, <2>5
<1>5. scheduler \in [Channels -> Scheduler] /\ stored \in [Channels -> NothingDurable..MaxRevision]
      /\ machine \in [Channels -> Watermark]
  <2>1. machine = [c \in Channels |-> machine[c]]
    BY DEF Init
  <2> QED BY <1>2, <1>3, <1>4, <2>1 DEF Init
<1>6. Types
  BY <1>1, <1>2, <1>5 DEF Init, Types
<1>7. ASSUME NEW c \in Channels PROVE ChannelInv(c)
  <2>1. scheduler[c] = Idle /\ stored[c] = NothingDurable
    BY DEF Init
  <2>2. PICK s, m : s = Idle /\ m = machine[c]
    OBVIOUS
  <2>3. /\ ~Busy(s) /\ ~Queued(s) /\ ~Own(s) /\ s.owner = 0 /\ ~s.paused /\ ~s.began /\ s.says = "none"
        /\ m.durable = NothingDurable /\ ~m.active
    BY <1>3, <1>4, <2>2
  <2>4. Serves(s) /\ Stored(c, s, m, NothingDurable) /\ Moving(c, s, m) /\ Newest(s, m, NothingDurable)
    BY <1>1, <2>3 DEF Serves, Stored, Moving, Aboard, Newest
  <2> QED BY <2>1, <2>2, <2>3, <2>4 DEF ChannelInv, Holds, Ready, Moving
<1>8. Published /\ Asked /\ ~misled /\ current = 0
  BY DEF Init, Published, Asked
<1>9. Informed
  BY <1>1, <1>3 DEF Init, Informed, Channels
<1> QED BY <1>6, <1>7, <1>8, <1>9 DEF EditorInv

LEMMA StepEditor == EditorInv /\ [Next]_vars => EditorInv'
<1> SUFFICES ASSUME EditorInv, [Next]_vars PROVE EditorInv'
  OBVIOUS
<1>1. CASE \E kind \in Kinds : OpenDocument(kind)
  BY <1>1, OpenKeeps
<1>2. CASE StoreRefuses
  BY <1>2, StoreRefusesKeeps
<1>3. CASE NoteMutation
  BY <1>3, NoteMutationKeeps
<1>4. CASE NoteUncommittedInput \/ ReplaceWorkspace \/ Publish \/ RivalCommits
  BY <1>4, AsideSteps
<1>5. CASE CloseDocument
  BY <1>5, CloseKeeps
<1>6. CASE \E c \in Channels : Fires(c)
  BY <1>6, FiresKeeps
<1>7. CASE \E c \in Channels : Lands(c)
  BY <1>7, LandsKeeps
<1>8. CASE \E c \in Channels : Answer(c)
  <2>1. CASE \E c \in Channels : Succeeds(c)
    BY <2>1, SucceedsKeeps
  <2>2. CASE \E c \in Channels, failure \in Failures, contended \in BOOLEAN : Fails(c, failure, contended)
    BY <2>2, FailsKeeps
  <2>3. CASE \E actual \in {NoVersion, head} : Refused(actual)
    BY <2>3, RefusedKeeps
  <2> QED BY <1>8, <2>1, <2>2, <2>3 DEF Answer
<1>9. CASE \E c \in Channels : Retry(c)
  BY <1>9, RetryKeeps
<1>10. CASE LinkDrops
  BY <1>10, LinkDropsKeeps
<1>11. CASE LinkReturns
  BY <1>11, LinkReturnsKeeps
<1>12. CASE \E rd \in reads : Read(rd)
  BY <1>12, ReconcilesKeeps, ReplacesKeeps DEF Read
<1>13. CASE \E rd \in reads : ReadFails(rd)
  BY <1>13, AsideSteps
<1>14. CASE Flush
  BY <1>14, FlushKeeps
<1>15. CASE PublishLands
  BY <1>15, PublishLandsKeeps
<1>16. CASE NoteVersionCommitted
  BY <1>16, NoteVersionCommittedKeeps
<1>17. CASE UNCHANGED vars
  <2>1. UNCHANGED <<session, current, opened, ask, misled, scheduler, machine, stored, online, excused, token, forced,
                    head, publish, rivals, told, uncommitted, link, conflict, probing, decided, reads>>
    BY <1>17 DEF vars
  <2>2. Types' /\ Published'
    BY <2>1 DEF EditorInv, Types, Published
  <2>3. head <= head'
    BY <2>1 DEF EditorInv, Types
  <2>4. \A v : Knows(v) => Knows(v)'
    BY <2>1 DEF Knows
  <2> QED BY <2>1, <2>2, <2>3, <2>4, AsideKeeps
<1> QED BY <1>1, <1>2, <1>3, <1>4, <1>5, <1>6, <1>7, <1>8, <1>9, <1>10, <1>11, <1>12, <1>13, <1>14, <1>15, <1>16,
           <1>17 DEF Next

LEMMA EditorHolds == Spec => []EditorInv
  BY InitEditor, StepEditor, PTL DEF Spec

\* However documents are opened, closed and reopened, writes answered late or never, and versions
\* published in between: a channel's watermark is a revision its store has.
THEOREM HonestWatermarks == Spec => []WatermarksHonest
<1>1. EditorInv => WatermarksHonest
  BY WatermarksAreHonest
<1> QED BY <1>1, EditorHolds, PTL

\* Whenever evaluateNavigation lets the user leave, or the document reads as clean, the newest
\* revision is in a store and no typed character is outside the document.
THEOREM LeavingIsSafe == Spec => []LeavingLosesNothing
<1>1. EditorInv => LeavingLosesNothing
  BY WatermarksAreHonest
<1> QED BY <1>1, EditorHolds, PTL

\* A flush is answered "durable" only when what was on screen at the asking is in a store, but for
\* the answers given while an earlier document's write was in flight at the opening.
THEOREM DurableIsTrue == Spec => []DurableVerdictIsTrue
<1>1. EditorInv => DurableVerdictIsTrue
  BY DEF EditorInv, DurableVerdictIsTrue
<1> QED BY <1>1, EditorHolds, PTL

\* Queued work has a timer, a write in flight or a pause for the network, or shows a failure.
THEOREM QueuedWorkMoves == Spec => []NothingStranded
<1>1. ASSUME EditorInv PROVE NothingStranded
  <2>1. SUFFICES ASSUME open, NEW c \in Channels, c \notin excused, Stuck(scheduler[c])
                 PROVE  Shows(machine[c])
    BY DEF NothingStranded, Stuck, Shows
  <2> QED BY <1>1, <2>1 DEF EditorInv, ChannelInv, Holds, Moving
<1> QED BY <1>1, EditorHolds, PTL

\* A cloud save the server accepts was sent by someone who knew of every version it stands on.
THEOREM SavesStandOnTheKnown == Spec => NoUnseenOverwrite
<1>1. ASSUME EditorInv
      PROVE  [\A c \in Channels : Lands(c) /\ c = "remote" /\ scheduler[c].flight.session = session.id
                /\ scheduler'[c].flight.stage = "landed" => rivals \subseteq told]_vars
  BY <1>1, LandsOnTheKnown
<1> QED BY <1>1, EditorHolds, PTL DEF NoUnseenOverwrite
================================================================================
