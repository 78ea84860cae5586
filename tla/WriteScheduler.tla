---------------------------- MODULE WriteScheduler ----------------------------
(***************************************************************************)
(* The write scheduler of one durability channel: at most one write in     *)
(* flight, one queued revision behind it, one timer.  Each operator takes  *)
(* the scheduler before a call and gives the scheduler after it.  What the *)
(* call reported to the coordinator is left in two fields: "began", a      *)
(* write was started, and "says", the verdict its flush waiters were given.*)
(***************************************************************************)
EXTENDS Integers

CONSTANTS
    MaxRetries,   \* retryDelaysMs.length: attempts made on the backoff timer
    NoFlight      \* no write is executing

\* A write in flight: whose, of what, against which version, at which attempt, and how far it is.
Write == [session: Nat, revision: Nat, attempt: Nat, expected: Int,
          stage: {"sent", "landed", "refused"}]

ASSUME SchedulerAssumption == MaxRetries \in Nat /\ NoFlight \notin Write

NoRevision == -1

\* Outcomes of a flush that waited; "none" is no verdict.
Verdicts == {"none", "durable", "failed", "unavailable", "cancelled"}

\* The failures perform() can be classified as, by what the scheduler tells apart.
Failures == {"retryable", "permanent", "unavailable", "conflict"}

\* A scheduler as the coordinator constructs it.
Idle == [pending |-> NoRevision, timer |-> "none", flight |-> NoFlight, retries |-> 0,
         paused |-> FALSE, owner |-> 0, began |-> FALSE, says |-> "none"]

Quiet(s) == [s EXCEPT !.began = FALSE, !.says = "none"]
Busy(s) == s.flight # NoFlight
Queued(s) == s.pending # NoRevision
Settled(s, verdict) == [s EXCEPT !.says = verdict]
Discarded(s) == [s EXCEPT !.timer = "none", !.pending = NoRevision, !.retries = 0]
Woken(s) == [s EXCEPT !.paused = FALSE, !.retries = 0]

\* The session whose write is in flight is still the one served.
Live(s) == s.flight.session = s.owner

Paused(s) == [s EXCEPT !.paused = TRUE, !.timer = "none"]

Resumed_armsNothing(s) == Woken(s)
Resumed(s) ==
    IF ~s.paused THEN s
    ELSE IF Queued(s) THEN [Woken(s) EXCEPT !.timer = "debounce"] ELSE Woken(s)

\* cancel(): the write in flight is left alone, and so is the pause.
Cancelled(s) == Settled([Discarded(s) EXCEPT !.owner = 0], "cancelled")

\* schedule(): by revision, so a repeat changes nothing; a new session drops the old queue.
Scheduled(s, session, revision) ==
    LET other == s.owner \notin {0, session}
        t == [(IF other THEN Settled(Discarded(s), "cancelled") ELSE s) EXCEPT !.owner = session]
        u == [t EXCEPT !.pending = revision]
    IN  IF t.pending >= revision THEN t
        ELSE IF u.paused \/ Busy(u) THEN u ELSE [u EXCEPT !.timer = "debounce"]

\* start(): the revision captured now, not the one queued, names the write.
Started(s, capture) ==
    IF Busy(s) \/ s.paused THEN s
    ELSE IF ~Queued(s) THEN Settled(s, "durable")
    ELSE [s EXCEPT !.pending = NoRevision, !.began = TRUE,
                   !.flight = [session |-> s.owner, revision |-> capture.revision,
                               expected |-> capture.expected, attempt |-> s.retries,
                               stage |-> "sent"]]

TimerFired(s, capture) == Started([s EXCEPT !.timer = "none"], capture)

\* flush(): an explicit attempt, which wakes a paused channel.
Flushed(s, capture) ==
    LET t == [(IF s.paused THEN Woken(s) ELSE s) EXCEPT !.timer = "none"]
    IN  IF Busy(t) THEN t ELSE Started(t, capture)

Retried(s) ==
    IF ~Queued(s) THEN s
    ELSE [Woken(s) EXCEPT !.timer = IF Busy(s) THEN "none" ELSE "debounce"]

\* finish() of a write that landed: newer work of the same session starts at once.
Finished_leavesNewer(s, capture) ==
    Settled([s EXCEPT !.flight = NoFlight, !.retries = 0], "durable")
Finished(s, capture) ==
    LET t == [s EXCEPT !.flight = NoFlight, !.retries = 0]
    IN  IF Live(s) /\ Queued(s) THEN Started(t, capture) ELSE Settled(t, "durable")

\* finish() of a write that failed: the revision goes back to the queue, and backs off.
Failed_dropsWork(s, failure) ==
    Settled([s EXCEPT !.flight = NoFlight],
            IF failure = "unavailable" THEN "unavailable" ELSE "failed")
Failed(s, failure) ==
    LET t == [s EXCEPT !.flight = NoFlight]
        u == [t EXCEPT !.pending = IF @ >= s.flight.revision THEN @ ELSE s.flight.revision]
        again == failure = "retryable" /\ s.retries < MaxRetries
        v == IF again THEN [u EXCEPT !.retries = @ + 1, !.timer = "retry"] ELSE u
    IN  IF ~Live(s) THEN Settled(t, "cancelled")
        ELSE Settled(v, IF failure = "unavailable" THEN "unavailable" ELSE "failed")
===============================================================================
