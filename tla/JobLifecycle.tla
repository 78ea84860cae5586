----------------------------- MODULE JobLifecycle ------------------------------
(***************************************************************************)
(* Definitions named x_y are x with a plausible bug y: they are not part   *)
(* of the specification, and show that the properties notice the bug.      *)
(*                                                                         *)
(* One processing job from the submission that queues it to the outcome    *)
(* its owner sees.  The row in the jobs table is written by workers, by    *)
(* stale-lease sweeps and by user requests, each of which reads the row,   *)
(* awaits, and writes later; one action stands for one awaited step.       *)
(*                                                                         *)
(* Jobs are independent rows with independent storage keys, so one job is  *)
(* modelled.  The web process holds the in-process worker slots, one sweep *)
(* and the requests: they share the in-memory queue and the cancellation   *)
(* set.  Every other worker is a standalone process that polls the jobs    *)
(* table itself (DatabaseQueue) and never hears worker.cancel.             *)
(***************************************************************************)
EXTENDS Naturals, JobStateMachine

CONSTANTS
    Worker,         \* worker slots
    InProcess,      \* those of the web process
    Sweeper,        \* stuck-job sweeps, one per process that runs them
    WebSweeper,     \* those of the web process
    Request,        \* concurrent user requests
    Commands,       \* what users do after submitting: "cancel", "retry"
    MaxAttempts,    \* job.maxAttempts
    MaxReady,       \* bound on the length of the in-memory queue
    SlowLeases,     \* may a lease expire while its worker is alive?
    HandoffFaults,  \* may queue.requeue reject?
    StoreFaults,    \* may a storage or database write of a handler reject half way?
    Crashes         \* may processes die?

ASSUME LifecycleAssumption ==
    /\ InProcess \subseteq Worker
    /\ WebSweeper \subseteq Sweeper
    /\ Commands \subseteq {"cancel", "retry"}
    /\ MaxAttempts \in Nat \ {0}
    /\ MaxReady \in Nat \ {0}
    /\ SlowLeases \in BOOLEAN /\ HandoffFaults \in BOOLEAN
    /\ StoreFaults \in BOOLEAN /\ Crashes \in BOOLEAN

VARIABLES
    row,         \* the jobs-table row
    pastTTL,     \* expiresAt has passed
    output,      \* an object exists under the job's output key
    settlement,  \* the once-per-job metering claim
    ready,       \* ids waiting in the web process's in-memory queue
    cancelFlag,  \* the id is in the web process's cancellation set
    worker, sweep, request,  \* what each actor holds between two awaits
    confirmed    \* history: a cancel answered "stopped" and no user retried since

vars == <<row, pastTTL, output, settlement, ready, cancelFlag,
          worker, sweep, request, confirmed>>

Row == [status: JobStatus, attempts: Nat, cancelRequested: BOOLEAN,
        category: ErrorCategory, stale: BOOLEAN]

NewRow == [status |-> "created", attempts |-> 0, cancelRequested |-> FALSE,
           category |-> "none", stale |-> FALSE]

WorkerPc ==
    {"idle", "pulled", "claimed", "stopping", "working", "aborted", "storing",
     "recording", "publishing", "discarding", "disputing", "cleanup", "owning",
     "cancelling", "failing", "erring", "rereading", "requeueing", "clearing",
     "delivering", "undoing", "reverting", "keeping", "refunding", "leaving"}

SweepPc == {"idle", "deciding", "delivering", "undoing", "reverting", "refunding"}

RequestPc ==
    {"idle", "cancelling", "requesting", "announcing", "checking", "confirming",
     "flagging", "requeueing", "clearing", "delivering", "undoing", "reverting"}

WorkerState == [pc: WorkerPc, base: Nat, loop: Nat, category: ErrorCategory,
                uploaded: BOOLEAN, seen: Row]
SweepState   == [pc: SweepPc, seen: Row]
RequestState == [pc: RequestPc, seen: Row]

IdleWorker == [pc |-> "idle", base |-> 0, loop |-> 0, category |-> "none",
               uploaded |-> FALSE, seen |-> NewRow]
Idle       == [pc |-> "idle", seen |-> NewRow]

Init ==
    /\ row = NewRow
    /\ pastTTL = FALSE
    /\ output = FALSE
    /\ settlement = "none"
    /\ ready = 0
    /\ cancelFlag = FALSE
    /\ worker = [w \in Worker |-> IdleWorker]
    /\ sweep = [s \in Sweeper |-> Idle]
    /\ request = [c \in Request |-> Idle]
    /\ confirmed = FALSE

--------------------------------------------------------------------------------
(* The repository: a transition is one compare-and-swap, and every write      *)
(* refreshes updatedAt, which is the lease.                                   *)

mayMove_notTerminal(to, command) == ~isTerminal(row.status)
mayMove(to, command) == isTransitionAllowed(row.status, to, command)

toStatus(to) == [row EXCEPT !.status = to, !.stale = FALSE]

\* An outcome: the status with the attempt it charges and the failure it records.
ended(to, attempts, category) ==
    [toStatus(to) EXCEPT !.attempts = attempts, !.category = category]

requeued_freshBudget(attempts) == ended("queued", 0, "none")
requeued(attempts) == ended("queued", attempts, "none")

\* A user's retry, or a worker's: the wish to cancel is forgotten as well.
retried == [requeued(row.attempts) EXCEPT !.cancelRequested = FALSE]

\* What deliverQueuedJob's rollback puts back from the row it saw.
restored(seen) ==
    [toStatus(seen.status) EXCEPT !.category = seen.category,
                                  !.cancelRequested = seen.cancelRequested]

\* transition() validates the status it read and then swaps on it, so a caller
\* that knew the row in status from is granted the move only by the table, and is
\* refused by the table or by any writer that moved the row in between.
refused(from, to, command) == ~mayMove(to, command) \/ row.status # from

\* The rows such a write may leave when its answer is not looked at.
written(from, to, new) ==
    (IF mayMove(to, "ordinary") THEN {new} ELSE {})
        \cup (IF refused(from, to, "ordinary") THEN {row} ELSE {})

push(web) == IF web THEN ready < MaxReady /\ ready' = ready + 1
                    ELSE UNCHANGED ready

settle(outcome) ==
    settlement' = IF settlement = "none" THEN outcome ELSE settlement

retryable(r) ==
    /\ r.status \in RETRYABLE_FROM
    /\ r.status = "failed" => isRetryableCategory(r.category)
    /\ r.attempts < MaxAttempts
    /\ ~pastTTL

--------------------------------------------------------------------------------
(* A worker slot.  base is job.attempts in the row it pulled, so its attempt  *)
(* is base + 1 and its fence is row.attempts = base.                          *)

isCancelled(w) == w \in InProcess /\ cancelFlag

attempt(w) == worker[w].base + 1

fenced(w) == row.attempts = worker[w].base

ownsAttempt_always(w) == TRUE
ownsAttempt(w) ==
    \/ fenced(w)
    \/ row.attempts = attempt(w) /\ isTerminal(row.status)

at(w, pc) == worker[w].pc = pc

becomes(w, local) == worker' = [worker EXCEPT ![w] = local]

goto(w, pc) == becomes(w, [worker[w] EXCEPT !.pc = pc])

\* The row and the output are final for this worker: nothing it holds is used again.
closing(w, pc) == becomes(w, [IdleWorker EXCEPT !.pc = pc])

\* The handler has thrown: what is left is classified and cleaned up.
fails(w, category) ==
    becomes(w, [worker[w] EXCEPT !.pc = "cleanup",
                    !.category = IF isCancelled(w) THEN "cancelled" ELSE category])

clearFlag(web) == cancelFlag' = IF web THEN FALSE ELSE cancelFlag

Pull(w) ==
    /\ at(w, "idle")
    /\ IF w \in InProcess
       THEN ready > 0 /\ ready' = ready - 1
       ELSE row.status = "queued" /\ UNCHANGED ready
    /\ becomes(w, [IdleWorker EXCEPT !.pc = "pulled", !.base = row.attempts,
                                     !.loop = row.attempts + 1])
    /\ UNCHANGED <<row, pastTTL, output, settlement, cancelFlag, sweep, request, confirmed>>

Claim(w) ==
    /\ at(w, "pulled")
    /\ \/ mayMove("running", "ordinary") /\ row' = toStatus("running") /\ goto(w, "claimed")
       \/ /\ refused("queued", "running", "ordinary")
          /\ UNCHANGED row /\ becomes(w, IdleWorker)
    /\ UNCHANGED <<pastTTL, output, settlement, ready, cancelFlag, sweep, request, confirmed>>

\* The attempt loop: start the handler, notice a cancellation, or give up.
Begin(w) ==
    /\ at(w, "claimed")
    /\ worker[w].loop <= MaxAttempts
    /\ goto(w, IF isCancelled(w) THEN "stopping" ELSE "working")
    /\ UNCHANGED <<row, pastTTL, output, settlement, ready, cancelFlag, sweep, request, confirmed>>

DeadLetter(w) ==
    /\ at(w, "claimed")
    /\ worker[w].loop > MaxAttempts
    /\ row' \in written("running", "failed", toStatus("failed"))
    /\ closing(w, "leaving")
    /\ UNCHANGED <<pastTTL, output, settlement, ready, cancelFlag, sweep, request, confirmed>>

StopBeforeWork(w) ==
    /\ at(w, "stopping")
    /\ row' \in written("running", "cancelled", toStatus("cancelled"))
    /\ closing(w, "leaving")
    /\ UNCHANGED <<pastTTL, output, settlement, ready, cancelFlag, sweep, request, confirmed>>

\* A progress-stage write: fenced, asynchronous, and a refresh of the lease.
RecordStage(w) ==
    /\ worker[w].pc \in {"working", "aborted", "storing", "recording"}
    /\ fenced(w) /\ row.stale
    /\ row' = [row EXCEPT !.stale = FALSE]
    /\ UNCHANGED <<pastTTL, output, settlement, ready, cancelFlag, worker, sweep, request, confirmed>>

\* The cancellation poll fires the abort signal.
PollCancel(w) ==
    /\ at(w, "working") /\ isCancelled(w)
    /\ goto(w, "aborted")
    /\ UNCHANGED <<row, pastTTL, output, settlement, ready, cancelFlag, sweep, request, confirmed>>

ProcessSucceeds(w) ==
    /\ worker[w].pc \in {"working", "aborted"}
    /\ IF isCancelled(w) THEN fails(w, "cancelled") ELSE goto(w, "storing")
    /\ UNCHANGED <<row, pastTTL, output, settlement, ready, cancelFlag, sweep, request, confirmed>>

ProcessFails(w) ==
    /\ \/ at(w, "working") /\ \E category \in {"retryable", "permanent"} : fails(w, category)
       \/ at(w, "aborted") /\ fails(w, "cancelled")
    /\ UNCHANGED <<row, pastTTL, output, settlement, ready, cancelFlag, sweep, request, confirmed>>

\* Every attempt of the job streams to the same key.
StoreOutput(w) ==
    /\ at(w, "storing")
    /\ \/ output' = TRUE /\ goto(w, "recording")
       \/ StoreFaults /\ UNCHANGED output /\ fails(w, "retryable")
    /\ UNCHANGED <<row, pastTTL, settlement, ready, cancelFlag, sweep, request, confirmed>>

\* uploadedKey is assigned only once the file record exists too.
RecordFile(w) ==
    /\ at(w, "recording")
    /\ \/ becomes(w, [worker[w] EXCEPT !.pc = "publishing", !.uploaded = TRUE])
       \/ StoreFaults /\ fails(w, "retryable")
    /\ UNCHANGED <<row, pastTTL, output, settlement, ready, cancelFlag, sweep, request, confirmed>>

publishable(w) == mayMove("completed", "ordinary") /\ fenced(w)

published(w) == ended("completed", attempt(w), "none")

CompleteJob(w) ==
    /\ at(w, "publishing")
    /\ \/ publishable(w) /\ row' = published(w) /\ closing(w, "keeping")
       \/ ~publishable(w) /\ UNCHANGED row /\ goto(w, "discarding")
       \* the write lands or not, and the statement around it throws
       \/ /\ StoreFaults
          /\ row' \in {row} \cup (IF publishable(w) THEN {published(w)} ELSE {})
          /\ fails(w, "retryable")
    /\ UNCHANGED <<pastTTL, output, settlement, ready, cancelFlag, sweep, request, confirmed>>

DiscardOutput_keeps(w) ==
    /\ at(w, "discarding")
    /\ goto(w, "disputing")
    /\ UNCHANGED <<row, pastTTL, output, settlement, ready, cancelFlag, sweep, request, confirmed>>

DiscardOutput(w) ==
    /\ at(w, "discarding")
    /\ output' \in {FALSE} \cup (IF StoreFaults THEN {output} ELSE {})
    /\ becomes(w, [worker[w] EXCEPT !.pc = "disputing", !.uploaded = FALSE])
    /\ UNCHANGED <<row, pastTTL, settlement, ready, cancelFlag, sweep, request, confirmed>>

\* A refused completion: is this attempt still the job's authority?
DisputeRefusal(w) ==
    /\ at(w, "disputing")
    /\ closing(w, IF ownsAttempt(w) THEN "refunding" ELSE "leaving")
    /\ UNCHANGED <<row, pastTTL, output, settlement, ready, cancelFlag, sweep, request, confirmed>>

CleanUp(w) ==
    /\ at(w, "cleanup")
    /\ output' \in IF worker[w].uploaded
                   THEN {FALSE} \cup (IF StoreFaults THEN {output} ELSE {})
                   ELSE {output}
    /\ goto(w, "owning")
    /\ UNCHANGED <<row, pastTTL, settlement, ready, cancelFlag, sweep, request, confirmed>>

OwnFailure(w) ==
    /\ at(w, "owning")
    /\ IF ownsAttempt(w)
       THEN goto(w, IF worker[w].category = "cancelled" THEN "cancelling" ELSE "failing")
       ELSE closing(w, "leaving")
    /\ UNCHANGED <<row, pastTTL, output, settlement, ready, cancelFlag, sweep, request, confirmed>>

MarkCancelled(w) ==
    /\ at(w, "cancelling")
    /\ row' = IF mayMove("cancelled", "ordinary") /\ fenced(w)
              THEN ended("cancelled", attempt(w), "cancelled")
              ELSE row
    /\ closing(w, "refunding") \/ (StoreFaults /\ goto(w, "erring"))
    /\ UNCHANGED <<pastTTL, output, settlement, ready, cancelFlag, sweep, request, confirmed>>

\* failJob's answer is not looked at: a refused write still asks for the retry.
FailJob(w) ==
    /\ at(w, "failing")
    /\ row' = IF mayMove("failed", "ordinary") /\ fenced(w)
              THEN ended("failed", attempt(w), worker[w].category)
              ELSE row
    /\ \/ IF isRetryableCategory(worker[w].category) /\ attempt(w) < MaxAttempts
          THEN goto(w, "rereading") ELSE closing(w, "refunding")
       \/ StoreFaults /\ goto(w, "erring")
    /\ UNCHANGED <<pastTTL, output, settlement, ready, cancelFlag, sweep, request, confirmed>>

\* The failure bookkeeping itself throws out of the handler, here before its write
\* lands and in MarkCancelled and FailJob after it.
HandlerThrows(w) ==
    /\ StoreFaults
    /\ worker[w].pc \in {"owning", "cancelling", "failing"}
    /\ goto(w, "erring")
    /\ UNCHANGED <<row, pastTTL, output, settlement, ready, cancelFlag, sweep, request, confirmed>>

\* InMemoryWorker's own catch: an unfenced count, then the next turn of its loop,
\* which calls the handler with the row it pulled at first.
CountThrow(w) ==
    /\ at(w, "erring")
    /\ row' = [row EXCEPT !.attempts = worker[w].loop, !.stale = FALSE]
    /\ becomes(w, [worker[w] EXCEPT !.pc = IF isCancelled(w) THEN "stopping" ELSE "claimed",
                                    !.loop = worker[w].loop + 1,
                                    !.category = "none", !.uploaded = FALSE])
    /\ UNCHANGED <<pastTTL, output, settlement, ready, cancelFlag, sweep, request, confirmed>>

(* The automatic retry is the user's retryJob, called by the worker.          *)

RetryRead(w) ==
    /\ at(w, "rereading")
    /\ IF retryable(row)
       THEN becomes(w, [IdleWorker EXCEPT !.pc = "requeueing", !.seen = row])
       ELSE closing(w, "refunding")
    /\ UNCHANGED <<row, pastTTL, output, settlement, ready, cancelFlag, sweep, request, confirmed>>

RetryWrite(w) ==
    /\ at(w, "requeueing")
    /\ \/ /\ mayMove("queued", "retry")
          /\ row' = retried
          /\ goto(w, "clearing")
       \/ /\ refused(worker[w].seen.status, "queued", "retry")
          /\ UNCHANGED row
          /\ closing(w, "refunding")
    /\ UNCHANGED <<pastTTL, output, settlement, ready, cancelFlag, sweep, request, confirmed>>

RetryClearFlag(w) ==
    /\ at(w, "clearing")
    /\ clearFlag(w \in InProcess)
    /\ goto(w, "delivering")
    /\ UNCHANGED <<row, pastTTL, output, settlement, ready, sweep, request, confirmed>>

RetryDeliver(w) ==
    /\ at(w, "delivering")
    /\ \/ push(w \in InProcess) /\ closing(w, "leaving")
       \/ HandoffFaults /\ UNCHANGED ready /\ goto(w, "undoing")
    /\ UNCHANGED <<row, pastTTL, output, settlement, cancelFlag, sweep, request, confirmed>>

RetryUndo(w) ==
    /\ \/ /\ at(w, "undoing")
          /\ IF row.status = "queued" THEN goto(w, "reverting") ELSE closing(w, "refunding")
          /\ UNCHANGED row
       \/ /\ at(w, "reverting")
          /\ row' \in written("queued", worker[w].seen.status, restored(worker[w].seen))
          /\ closing(w, "refunding")
    /\ UNCHANGED <<pastTTL, output, settlement, ready, cancelFlag, sweep, request, confirmed>>

SettleOutcome(w) ==
    /\ \/ at(w, "keeping") /\ settle("kept")
       \/ at(w, "refunding") /\ settle("refunded")
    /\ closing(w, "leaving")
    /\ UNCHANGED <<row, pastTTL, output, ready, cancelFlag, sweep, request, confirmed>>

\* The worker's finally: the id leaves the cancellation set.
Leave(w) ==
    /\ at(w, "leaving")
    /\ clearFlag(w \in InProcess)
    /\ becomes(w, IdleWorker)
    /\ UNCHANGED <<row, pastTTL, output, settlement, ready, sweep, request, confirmed>>

WorkerStep(w) ==
    \/ Pull(w) \/ Claim(w) \/ Begin(w) \/ DeadLetter(w) \/ StopBeforeWork(w)
    \/ RecordStage(w) \/ PollCancel(w) \/ ProcessSucceeds(w) \/ ProcessFails(w)
    \/ StoreOutput(w) \/ RecordFile(w) \/ CompleteJob(w) \/ DiscardOutput(w)
    \/ DisputeRefusal(w) \/ CleanUp(w) \/ OwnFailure(w) \/ MarkCancelled(w)
    \/ FailJob(w) \/ HandlerThrows(w) \/ CountThrow(w) \/ RetryRead(w)
    \/ RetryWrite(w) \/ RetryClearFlag(w) \/ RetryDeliver(w) \/ RetryUndo(w)
    \/ SettleOutcome(w) \/ Leave(w)

--------------------------------------------------------------------------------
(* StuckJobRecoveryService: list the stale rows, then decide each of them     *)
(* from the row as it was listed.  Its transitions carry no fence.            *)

sweepAt(s, pc) == sweep[s].pc = pc

sweepBecomes(s, local) == sweep' = [sweep EXCEPT ![s] = local]

sweepTo(s, pc) == sweepBecomes(s, [sweep[s] EXCEPT !.pc = pc])

sweepEnds(s) == sweepBecomes(s, Idle)

ListStale_skipsCancelled(s) ==
    /\ sweepAt(s, "idle")
    /\ row.status = "running" /\ row.stale /\ ~row.cancelRequested
    /\ sweepBecomes(s, [pc |-> "deciding", seen |-> row])
    /\ UNCHANGED <<row, pastTTL, output, settlement, ready, cancelFlag, worker, request, confirmed>>

ListStale_listsFresh(s) ==
    /\ sweepAt(s, "idle")
    /\ row.status = "running"
    /\ sweepBecomes(s, [pc |-> "deciding", seen |-> row])
    /\ UNCHANGED <<row, pastTTL, output, settlement, ready, cancelFlag, worker, request, confirmed>>

ListStale(s) ==
    /\ sweepAt(s, "idle")
    /\ row.status = "running" /\ row.stale
    /\ sweepBecomes(s, [pc |-> "deciding", seen |-> row])
    /\ UNCHANGED <<row, pastTTL, output, settlement, ready, cancelFlag, worker, request, confirmed>>

charged_refunds(s) == sweep[s].seen.attempts - 1
charged(s) == sweep[s].seen.attempts + 1

spent_offByOne(s) == charged(s) > MaxAttempts
spent(s) == charged(s) >= MaxAttempts

\* The job is over: confirm the cancellation, or give up on a spent budget.
RecoverTerminal(s, to, category) ==
    /\ \/ /\ mayMove(to, "ordinary")
          /\ row' = ended(to, charged(s), category)
          /\ sweepTo(s, "refunding")
       \/ refused("running", to, "ordinary") /\ UNCHANGED row /\ sweepEnds(s)
    /\ UNCHANGED <<pastTTL, output, settlement, ready, cancelFlag, worker, request, confirmed>>

RecoverCancelled(s) ==
    /\ sweepAt(s, "deciding")
    /\ sweep[s].seen.cancelRequested
    /\ RecoverTerminal(s, "cancelled", "cancelled")

RecoverSpent(s) ==
    /\ sweepAt(s, "deciding")
    /\ ~sweep[s].seen.cancelRequested /\ spent(s)
    /\ RecoverTerminal(s, "failed", "retryable")

RecoverRequeue(s) ==
    /\ sweepAt(s, "deciding")
    /\ ~sweep[s].seen.cancelRequested /\ ~spent(s)
    /\ \/ /\ mayMove("queued", "recover")
          /\ row' = requeued(charged(s))
          /\ sweepTo(s, "delivering")
       \/ refused("running", "queued", "recover") /\ UNCHANGED row /\ sweepEnds(s)
    /\ UNCHANGED <<pastTTL, output, settlement, ready, cancelFlag, worker, request, confirmed>>

SweepDeliver(s) ==
    /\ sweepAt(s, "delivering")
    /\ \/ push(s \in WebSweeper) /\ sweepEnds(s)
       \/ HandoffFaults /\ UNCHANGED ready /\ sweepTo(s, "undoing")
    /\ UNCHANGED <<row, pastTTL, output, settlement, cancelFlag, worker, request, confirmed>>

\* The rollback restores the uncharged count, not the error fields.
SweepUndo(s) ==
    /\ \/ /\ sweepAt(s, "undoing")
          /\ IF row.status = "queued" THEN sweepTo(s, "reverting") ELSE sweepEnds(s)
          /\ UNCHANGED row
       \/ /\ sweepAt(s, "reverting")
          /\ row' \in written("queued", "running",
                        ended("running", sweep[s].seen.attempts, row.category))
          /\ sweepEnds(s)
    /\ UNCHANGED <<pastTTL, output, settlement, ready, cancelFlag, worker, request, confirmed>>

SweepSettle(s) ==
    /\ sweepAt(s, "refunding")
    /\ settle("refunded")
    /\ sweepEnds(s)
    /\ UNCHANGED <<row, pastTTL, output, ready, cancelFlag, worker, request, confirmed>>

SweepStep(s) ==
    \/ ListStale(s) \/ RecoverCancelled(s) \/ RecoverSpent(s) \/ RecoverRequeue(s)
    \/ SweepDeliver(s) \/ SweepUndo(s) \/ SweepSettle(s)

--------------------------------------------------------------------------------
(* Requests in the web process: submit, cancel, retry.  Each reads the row    *)
(* and acts on what it read; a check that fails answers 409 and ends there.   *)

reqAt(c, pc) == request[c].pc = pc

reqBecomes(c, local) == request' = [request EXCEPT ![c] = local]

reqTo(c, pc) == reqBecomes(c, [request[c] EXCEPT !.pc = pc])

reqEnds(c) == reqBecomes(c, Idle)

QueueJob(c) ==
    /\ reqAt(c, "idle")
    /\ row.status = "created"
    /\ row' = toStatus("queued")
    \* a lost handoff is rolled back to a failed, retryable row
    /\ reqBecomes(c, [pc |-> "delivering", seen |-> ended("failed", row.attempts, "retryable")])
    /\ UNCHANGED <<pastTTL, output, settlement, ready, cancelFlag, worker, sweep, confirmed>>

CancelRead(c) ==
    /\ reqAt(c, "idle")
    /\ "cancel" \in Commands
    /\ ~isTerminal(row.status)
    /\ reqBecomes(c, [pc |-> IF row.status = "running" THEN "requesting" ELSE "cancelling",
                      seen |-> row])
    /\ UNCHANGED <<row, pastTTL, output, settlement, ready, cancelFlag, worker, sweep, confirmed>>

\* Seen created or queued: cancelled outright, whatever the row is by now.
CancelOutright(c) ==
    /\ reqAt(c, "cancelling")
    /\ \/ /\ mayMove("cancelled", "ordinary")
          /\ row' = [ended("cancelled", row.attempts, "cancelled") EXCEPT
                        !.cancelRequested = TRUE]
          /\ reqTo(c, "announcing")
       \/ /\ refused(request[c].seen.status, "cancelled", "ordinary")
          /\ UNCHANGED row
          /\ reqTo(c, "checking")
    /\ UNCHANGED <<pastTTL, output, settlement, ready, cancelFlag, worker, sweep, confirmed>>

\* Seen running: an unconditional update records the wish.
RequestCancel(c) ==
    /\ reqAt(c, "requesting")
    /\ row' = [row EXCEPT !.cancelRequested = TRUE, !.stale = FALSE]
    /\ reqTo(c, "flagging")
    /\ UNCHANGED <<pastTTL, output, settlement, ready, cancelFlag, worker, sweep, confirmed>>

\* worker.cancel, then the answer to the user.
Flag(c) ==
    /\ request[c].pc \in {"announcing", "checking", "flagging"}
    /\ cancelFlag' = TRUE
    /\ confirmed' = (confirmed \/ reqAt(c, "announcing"))
    /\ IF reqAt(c, "checking") THEN reqTo(c, "confirming") ELSE reqEnds(c)
    /\ UNCHANGED <<row, pastTTL, output, settlement, ready, worker, sweep>>

ConfirmLatest(c) ==
    /\ reqAt(c, "confirming")
    /\ confirmed' = (confirmed \/ isTerminal(row.status))
    /\ reqEnds(c)
    /\ UNCHANGED <<row, pastTTL, output, settlement, ready, cancelFlag, worker, sweep>>

UserRetryRead(c) ==
    /\ reqAt(c, "idle")
    /\ "retry" \in Commands
    /\ retryable(row)
    /\ reqBecomes(c, [pc |-> "requeueing", seen |-> row])
    /\ UNCHANGED <<row, pastTTL, output, settlement, ready, cancelFlag, worker, sweep, confirmed>>

UserRetryWrite(c) ==
    /\ reqAt(c, "requeueing")
    /\ \/ /\ mayMove("queued", "retry")
          /\ row' = retried
          /\ confirmed' = FALSE
          /\ reqTo(c, "clearing")
       \/ /\ refused(request[c].seen.status, "queued", "retry")
          /\ UNCHANGED <<row, confirmed>>
          /\ reqEnds(c)
    /\ UNCHANGED <<pastTTL, output, settlement, ready, cancelFlag, worker, sweep>>

UserRetryClearFlag(c) ==
    /\ reqAt(c, "clearing")
    /\ clearFlag(TRUE)
    /\ reqTo(c, "delivering")
    /\ UNCHANGED <<row, pastTTL, output, settlement, ready, worker, sweep, confirmed>>

RequestDeliver(c) ==
    /\ reqAt(c, "delivering")
    /\ \/ push(TRUE) /\ reqEnds(c)
       \/ HandoffFaults /\ UNCHANGED ready /\ reqTo(c, "undoing")
    /\ UNCHANGED <<row, pastTTL, output, settlement, cancelFlag, worker, sweep, confirmed>>

RequestUndo(c) ==
    /\ \/ /\ reqAt(c, "undoing")
          /\ IF row.status = "queued" THEN reqTo(c, "reverting") ELSE reqEnds(c)
          /\ UNCHANGED row
       \/ /\ reqAt(c, "reverting")
          /\ row' \in written("queued", request[c].seen.status, restored(request[c].seen))
          /\ reqEnds(c)
    /\ UNCHANGED <<pastTTL, output, settlement, ready, cancelFlag, worker, sweep, confirmed>>

\* What a request does once the user has pressed the button.
RequestContinues(c) ==
    \/ CancelOutright(c) \/ RequestCancel(c) \/ Flag(c) \/ ConfirmLatest(c)
    \/ UserRetryWrite(c) \/ UserRetryClearFlag(c) \/ RequestDeliver(c) \/ RequestUndo(c)

RequestStep(c) ==
    QueueJob(c) \/ CancelRead(c) \/ UserRetryRead(c) \/ RequestContinues(c)

--------------------------------------------------------------------------------
(* Time and failures.                                                         *)

\* A worker runs the job from its claim to the write that records the outcome, and
\* holds it until it has also made up its mind about a discard or a retry.
Running == {"claimed", "stopping", "working", "aborted", "storing", "recording",
            "publishing", "cleanup", "owning", "cancelling", "failing", "erring"}
Holding == Running \cup {"discarding", "disputing", "rereading", "requeueing"}

runs(w) == worker[w].pc \in Running

holds(w) == worker[w].pc \in Holding

\* staleAfterMs is longer than the longest processor ceiling, so unless a lease
\* is called slow it outlives every worker that holds the job.
LeaseExpires ==
    /\ row.status = "running" /\ ~row.stale
    /\ SlowLeases \/ \A w \in Worker : ~holds(w)
    /\ row' = [row EXCEPT !.stale = TRUE]
    /\ UNCHANGED <<pastTTL, output, settlement, ready, cancelFlag, worker, sweep, request, confirmed>>

TTLPasses ==
    /\ ~pastTTL
    /\ pastTTL' = TRUE
    /\ UNCHANGED <<row, output, settlement, ready, cancelFlag, worker, sweep, request, confirmed>>

ExpireJob ==
    /\ pastTTL
    /\ row.status \in EXPIRABLE_STATUSES
    /\ row' = toStatus("expired")
    /\ UNCHANGED <<pastTTL, output, settlement, ready, cancelFlag, worker, sweep, request, confirmed>>

CrashStandalone(w) ==
    /\ Crashes
    /\ w \notin InProcess /\ ~at(w, "idle")
    /\ becomes(w, IdleWorker)
    /\ UNCHANGED <<row, pastTTL, output, settlement, ready, cancelFlag, sweep, request, confirmed>>

CrashSweep(s) ==
    /\ Crashes
    /\ s \notin WebSweeper /\ ~sweepAt(s, "idle")
    /\ sweepEnds(s)
    /\ UNCHANGED <<row, pastTTL, output, settlement, ready, cancelFlag, worker, request, confirmed>>

\* The web process takes its workers, requests, queue and cancellations with it.
CrashWeb ==
    /\ Crashes
    /\ worker' = [w \in Worker |-> IF w \in InProcess THEN IdleWorker ELSE worker[w]]
    /\ sweep' = [s \in Sweeper |-> IF s \in WebSweeper THEN Idle ELSE sweep[s]]
    /\ request' = [c \in Request |-> Idle]
    /\ ready' = 0
    /\ cancelFlag' = FALSE
    /\ UNCHANGED <<row, pastTTL, output, settlement, confirmed>>

Crash ==
    \/ \E w \in Worker : CrashStandalone(w)
    \/ \E s \in Sweeper : CrashSweep(s)
    \/ CrashWeb

Next ==
    \/ \E w \in Worker : WorkerStep(w)
    \/ \E s \in Sweeper : SweepStep(s)
    \/ \E c \in Request : RequestStep(c)
    \/ LeaseExpires \/ TTLPasses \/ ExpireJob \/ Crash

Spec == Init /\ [][Next]_vars

\* A process that is up keeps running its loops and finishes what it awaits; a
\* lease nobody renews goes stale; processes do not die for ever, nor do
\* users press cancel for ever (each press renews the lease).
Fairness ==
    /\ \A w \in Worker : WF_vars(WorkerStep(w))
    /\ \A s \in Sweeper : WF_vars(SweepStep(s))
    /\ \A c \in Request : WF_vars(RequestContinues(c))
    /\ WF_vars(LeaseExpires)
    /\ <>[][~Crash /\ \A c \in Request : ~CancelRead(c)]_vars

FairSpec == Spec /\ Fairness

--------------------------------------------------------------------------------
(* Properties.                                                                *)

\* The shapes of all state.
TypeOK ==
    /\ row \in Row
    /\ pastTTL \in BOOLEAN /\ output \in BOOLEAN
    /\ settlement \in {"none", "kept", "refunded"}
    /\ ready \in 0..MaxReady
    /\ cancelFlag \in BOOLEAN /\ confirmed \in BOOLEAN
    /\ worker \in [Worker -> WorkerState]
    /\ sweep \in [Sweeper -> SweepState]
    /\ request \in [Request -> RequestState]

\* One worker at a time: the claim, the fence and the lease together never let two
\* workers run the same job (InMemoryWorker.process, StuckJobRecoveryService).
AtMostOneRun == \A w1, w2 \in Worker : runs(w1) /\ runs(w2) => w1 = w2

\* Why it holds.  The licence to run the job is in one place: with the queued row,
\* with one holder, or with the sweep that found the row abandoned.
OneHolder == \A w1, w2 \in Worker : holds(w1) /\ holds(w2) => w1 = w2

WaitingIsFree == row.status \in {"created", "queued"} => \A w \in Worker : ~holds(w)

StaleIsAbandoned ==
    row.status = "running" /\ row.stale => \A w \in Worker : ~holds(w)

SweepHoldsLicence ==
    \A s \in Sweeper : sweepAt(s, "deciding") =>
        /\ row.status \notin {"created", "queued"}
        /\ \A w \in Worker : ~holds(w)

RetriesOnlyEnded ==
    \A w \in Worker : worker[w].pc \in {"rereading", "requeueing"} => row.status # "running"

FailuresAreFenced ==
    \A w \in Worker : at(w, "failing") /\ row.status = "running" => fenced(w)

NoUserRetry == \A c \in Request : ~reqAt(c, "requeueing")

LicenceInv ==
    /\ OneHolder /\ WaitingIsFree /\ StaleIsAbandoned /\ SweepHoldsLicence
    /\ RetriesOnlyEnded /\ FailuresAreFenced /\ NoUserRetry

\* No run on a spent budget: while a worker runs a running job, the attempts that
\* crashes, retries and recoveries have charged so far leave room for this one.
RunsWithinBudget ==
    \A w \in Worker : runs(w) /\ row.status = "running" => row.attempts < MaxAttempts

\* The attempt count is the budget and the fence, so no retry or recovery may lower it.
AttemptsNeverFall == [][row'.attempts >= row.attempts]_vars

\* Quota is kept only for a job that was published (settleUsage after completeJob),
\* whatever crashes, faults, slow leases and second sweeps do in between.
KeptMeansPublished == settlement = "kept" => row.status \in {"completed", "expired"}

\* A published job has its result: nobody deletes it from under the owner.
PublishedOutputIsStored == row.status = "completed" => output

\* A job that ended without a result leaves no object behind once the workers have
\* let go of it (the deletes in ProcessingJobHandler's refusal and catch paths).
NoOrphanOutput ==
    /\ row.status \in {"failed", "cancelled"}
    /\ \A w \in Worker : ~holds(w)
    => ~output

\* No two live workers run as the same attempt number, the number that fences them.
UniqueLiveAttempt ==
    \A w1, w2 \in Worker : runs(w1) /\ runs(w2) /\ attempt(w1) = attempt(w2) => w1 = w2

\* A cancel answered "stopped" stays cancelled until the user asks for a retry.
ConfirmedCancelIsFinal == confirmed => row.status = "cancelled"

\* What the owner can tell of the status.
Phase ==
    CASE row.status = "completed" -> "published"
      [] row.status = "expired" -> "expired"
      [] row.status \in {"failed", "cancelled"} -> "over"
      [] OTHER -> "pending"

\* What the owner was promised: the abstract contract.
Contract == INSTANCE JobContract WITH phase <- Phase, result <- output, paid <- settlement

\* The lifecycle implements the contract.
KeepsContract == Contract!Spec

\* A queued job ends, one way or another, though processes crash on the way.
QueuedJobEnds == row.status = "queued" ~> isTerminal(row.status)

================================================================================
