------------------------- MODULE JobLifecycleProofs -------------------------
(***************************************************************************)
(* Proofs about JobLifecycle, for every number of workers, sweeps and      *)
(* requests and every budget.                                              *)
(*                                                                         *)
(* First what holds of any deployment, or of orderly ones whatever fails:  *)
(* the shapes of the state (Typing), quota kept only for published jobs    *)
(* under every fault (KeptIsPublished), and one run at a time when there   *)
(* is one sweep, leases outlive their workers and users do not retry       *)
(* (OneRunAtATime).                                                        *)
(*                                                                         *)
(* Then what rests on the exclusive licence: a published job keeps its     *)
(* output, no worker runs a job whose budget is spent, the attempt count   *)
(* never falls, and the whole lifecycle implements JobContract.  They hold *)
(* for the same orderly deployments when the storage and the database      *)
(* answer (and, for the last two, when the queue takes what it is handed). *)
(* An output nobody owns is never left behind, in any deployment, unless a *)
(* call fails or a process dies.                                           *)
(***************************************************************************)
EXTENDS JobLifecycle, TLAPS

--------------------------------------------------------------------------------
(* What the writes of a row and of a worker's locals produce.                 *)

LEMMA StatusWrites ==
    ASSUME row \in Row, NEW to \in JobStatus
    PROVE  /\ toStatus(to) \in Row
           /\ toStatus(to).status = to
           /\ toStatus(to).attempts = row.attempts
           /\ ~toStatus(to).stale
BY DEF Row, toStatus

LEMMA OutcomeWrites ==
    ASSUME row \in Row, NEW to \in JobStatus, NEW n \in Nat, NEW c \in ErrorCategory
    PROVE  /\ ended(to, n, c) \in Row
           /\ ended(to, n, c).status = to
           /\ ended(to, n, c).attempts = n
           /\ ~ended(to, n, c).stale
<1> DEFINE r == toStatus(to)
<1>1. r \in Row /\ r.status = to /\ ~r.stale
  BY StatusWrites
<1>2. ended(to, n, c) = [r EXCEPT !.attempts = n, !.category = c]
  BY DEF ended
<1> HIDE DEF r
<1> QED BY <1>1, <1>2 DEF Row

LEMMA RequeueWrites ==
    ASSUME row \in Row, NEW n \in Nat
    PROVE  /\ requeued(n) \in Row /\ requeued(n).status = "queued"
           /\ requeued(n).attempts = n /\ ~requeued(n).stale
<1>1. /\ ended("queued", n, "none") \in Row /\ ended("queued", n, "none").status = "queued"
      /\ ended("queued", n, "none").attempts = n /\ ~ended("queued", n, "none").stale
  BY OutcomeWrites DEF JobStatus, ErrorCategory
<1> QED BY <1>1 DEF requeued

LEMMA RetryWrites ==
    ASSUME row \in Row
    PROVE  /\ retried \in Row /\ retried.status = "queued"
           /\ retried.attempts = row.attempts /\ ~retried.stale
<1> DEFINE r == requeued(row.attempts)
<1>1. row.attempts \in Nat
  BY DEF Row
<1>2. r \in Row /\ r.status = "queued" /\ r.attempts = row.attempts /\ ~r.stale
  BY <1>1, RequeueWrites
<1>3. retried = [r EXCEPT !.cancelRequested = FALSE]
  BY DEF retried
<1> HIDE DEF r
<1> QED BY <1>2, <1>3 DEF Row

LEMMA LeaseWrites ==
    ASSUME row \in Row
    PROVE  /\ \A b \in BOOLEAN : /\ [row EXCEPT !.stale = b] \in Row
                                 /\ [row EXCEPT !.stale = b].status = row.status
                                 /\ [row EXCEPT !.stale = b].attempts = row.attempts
           /\ ~[row EXCEPT !.stale = FALSE].stale
BY DEF Row

LEMMA CountWrites ==
    ASSUME row \in Row, NEW n \in Nat
    PROVE  LET r == [row EXCEPT !.attempts = n, !.stale = FALSE]
           IN  r \in Row /\ r.status = row.status /\ ~r.stale
BY DEF Row

LEMMA WishWrites ==
    ASSUME row \in Row
    PROVE  LET r == [row EXCEPT !.cancelRequested = TRUE, !.stale = FALSE]
           IN  r \in Row /\ r.status = row.status /\ r.attempts = row.attempts /\ ~r.stale
BY DEF Row

LEMMA RestoringWrites ==
    ASSUME row \in Row, NEW seen \in Row
    PROVE  /\ restored(seen) \in Row
           /\ restored(seen).status = seen.status
           /\ restored(seen).attempts = row.attempts
           /\ ~restored(seen).stale
<1> DEFINE r == toStatus(seen.status)
<1>1. seen.status \in JobStatus /\ seen.category \in ErrorCategory
      /\ seen.cancelRequested \in BOOLEAN
  BY DEF Row
<1>2. r \in Row /\ r.status = seen.status /\ r.attempts = row.attempts /\ ~r.stale
  BY <1>1, StatusWrites
<1>3. restored(seen) = [r EXCEPT !.category = seen.category,
                                 !.cancelRequested = seen.cancelRequested]
  BY DEF restored
<1> HIDE DEF r
<1> QED BY <1>1, <1>2, <1>3 DEF Row

LEMMA CancelWrites ==
    ASSUME row \in Row
    PROVE  LET r == [ended("cancelled", row.attempts, "cancelled") EXCEPT
                        !.cancelRequested = TRUE]
           IN  /\ r \in Row /\ r.status = "cancelled"
               /\ r.attempts = row.attempts /\ ~r.stale
<1> DEFINE e == ended("cancelled", row.attempts, "cancelled")
<1>1. /\ e \in Row /\ e.status = "cancelled"
      /\ e.attempts = row.attempts /\ ~e.stale
  <2>1. row.attempts \in Nat
    BY DEF Row
  <2> QED BY <2>1, OutcomeWrites DEF JobStatus, ErrorCategory
<1> HIDE DEF e
<1> SUFFICES LET r == [e EXCEPT !.cancelRequested = TRUE]
             IN  /\ r \in Row /\ r.status = "cancelled"
                 /\ r.attempts = row.attempts /\ ~r.stale
  BY DEF e
<1> QED BY <1>1 DEF Row

--------------------------------------------------------------------------------
(* A worker's step sets its pc, and leaves every other worker alone.          *)

LEMMA IdleIsTyped == IdleWorker \in WorkerState /\ IdleWorker.pc = "idle" /\ Idle \in SweepState
                     /\ Idle \in RequestState /\ NewRow \in Row
BY DEF IdleWorker, Idle, WorkerState, SweepState, RequestState, WorkerPc, SweepPc,
       RequestPc, ErrorCategory, NewRow, Row, JobStatus

\* What a worker holds has the right shape.
LEMMA LocalsAreTyped ==
    ASSUME worker \in [Worker -> WorkerState], NEW w \in Worker
    PROVE  /\ worker[w].pc \in WorkerPc /\ worker[w].base \in Nat /\ worker[w].loop \in Nat
           /\ attempt(w) \in Nat
           /\ worker[w].category \in ErrorCategory /\ worker[w].seen \in Row
BY DEF WorkerState, attempt

LEMMA PcWrites ==
    ASSUME NEW r \in WorkerState, NEW pc \in WorkerPc
    PROVE  LET s == [r EXCEPT !.pc = pc]
           IN  s \in WorkerState /\ s.pc = pc /\ s.base = r.base
BY DEF WorkerState

LEMMA Becomes ==
    ASSUME worker \in [Worker -> WorkerState], NEW w \in Worker, NEW local \in WorkerState,
           becomes(w, local)
    PROVE  /\ worker' \in [Worker -> WorkerState]
           /\ worker'[w] = local
           /\ \A v \in Worker : v # w => worker'[v] = worker[v]
BY DEF becomes

LEMMA Goto ==
    ASSUME worker \in [Worker -> WorkerState], NEW w \in Worker, NEW pc \in WorkerPc,
           goto(w, pc)
    PROVE  /\ worker' \in [Worker -> WorkerState]
           /\ worker'[w].pc = pc /\ worker'[w].base = worker[w].base
           /\ \A v \in Worker : v # w => worker'[v] = worker[v]
<1> DEFINE local == [worker[w] EXCEPT !.pc = pc]
<1>1. local \in WorkerState /\ local.pc = pc /\ local.base = worker[w].base
  BY PcWrites
<1>2. becomes(w, local)
  BY DEF goto
<1> HIDE DEF local
<1> QED BY <1>1, <1>2, Becomes

LEMMA Closing ==
    ASSUME worker \in [Worker -> WorkerState], NEW w \in Worker, NEW pc \in WorkerPc,
           closing(w, pc)
    PROVE  /\ worker' \in [Worker -> WorkerState]
           /\ worker'[w].pc = pc
           /\ \A v \in Worker : v # w => worker'[v] = worker[v]
<1> DEFINE local == [IdleWorker EXCEPT !.pc = pc]
<1>1. local \in WorkerState /\ local.pc = pc
  BY IdleIsTyped, PcWrites
<1>2. becomes(w, local)
  BY DEF closing
<1> HIDE DEF local
<1> QED BY <1>1, <1>2, Becomes

LEMMA Failing ==
    ASSUME worker \in [Worker -> WorkerState], NEW w \in Worker, NEW c \in ErrorCategory,
           fails(w, c)
    PROVE  /\ worker' \in [Worker -> WorkerState]
           /\ worker'[w].pc = "cleanup"
           /\ \A v \in Worker : v # w => worker'[v] = worker[v]
<1> DEFINE d == IF isCancelled(w) THEN "cancelled" ELSE c
           local == [worker[w] EXCEPT !.pc = "cleanup", !.category = d]
<1>1. d \in ErrorCategory
  BY DEF ErrorCategory
<1>2. becomes(w, local)
  BY DEF fails
<1> HIDE DEF d
<1>3. local \in WorkerState /\ local.pc = "cleanup"
  BY <1>1 DEF WorkerState, WorkerPc
<1> HIDE DEF local
<1> QED BY <1>2, <1>3, Becomes

\* The steps that change more of what a worker holds than its pc.
LEMMA LocalSteps ==
    ASSUME worker \in [Worker -> WorkerState], row \in Row, NEW w \in Worker,
           NEW pc \in WorkerPc
    PROVE  LET moved(to) == /\ worker' \in [Worker -> WorkerState]
                            /\ worker'[w].pc = to
                            /\ \A v \in Worker : v # w => worker'[v] = worker[v]
           IN  /\ becomes(w, [IdleWorker EXCEPT !.pc = "pulled", !.base = row.attempts,
                                                !.loop = row.attempts + 1]) => moved("pulled")
               /\ becomes(w, [worker[w] EXCEPT !.pc = "publishing", !.uploaded = TRUE])
                    => moved("publishing")
               /\ becomes(w, [worker[w] EXCEPT !.pc = "disputing", !.uploaded = FALSE])
                    => moved("disputing")
               /\ becomes(w, [IdleWorker EXCEPT !.pc = "requeueing", !.seen = row])
                    => moved("requeueing")
               /\ becomes(w, [worker[w] EXCEPT !.pc = pc, !.loop = worker[w].loop + 1,
                                               !.category = "none", !.uploaded = FALSE])
                    => moved(pc)
<1> DEFINE moved(to) == /\ worker' \in [Worker -> WorkerState]
                        /\ worker'[w].pc = to
                        /\ \A v \in Worker : v # w => worker'[v] = worker[v]
<1>1. IdleWorker \in WorkerState /\ worker[w] \in WorkerState
  BY IdleIsTyped
<1>2. row.attempts \in Nat /\ row.attempts + 1 \in Nat /\ worker[w].loop + 1 \in Nat
  BY DEF Row, WorkerState
<1>3. ASSUME NEW r \in WorkerState, NEW n \in Nat, NEW m \in Nat,
             becomes(w, [r EXCEPT !.pc = "pulled", !.base = n, !.loop = m])
      PROVE  moved("pulled")
  <2> DEFINE local == [r EXCEPT !.pc = "pulled", !.base = n, !.loop = m]
  <2>1. local \in WorkerState /\ local.pc = "pulled"
    BY DEF WorkerState, WorkerPc
  <2>2. becomes(w, local)
    BY <1>3
  <2> HIDE DEF local
  <2> QED BY <2>1, <2>2, Becomes
<1>4. ASSUME NEW r \in WorkerState, NEW to \in WorkerPc, NEW b \in BOOLEAN,
             becomes(w, [r EXCEPT !.pc = to, !.uploaded = b])
      PROVE  moved(to)
  <2> DEFINE local == [r EXCEPT !.pc = to, !.uploaded = b]
  <2>1. local \in WorkerState /\ local.pc = to
    BY DEF WorkerState
  <2>2. becomes(w, local)
    BY <1>4
  <2> HIDE DEF local
  <2> QED BY <2>1, <2>2, Becomes
<1>5. ASSUME NEW r \in WorkerState, NEW seen \in Row,
             becomes(w, [r EXCEPT !.pc = "requeueing", !.seen = seen])
      PROVE  moved("requeueing")
  <2> DEFINE local == [r EXCEPT !.pc = "requeueing", !.seen = seen]
  <2>1. local \in WorkerState /\ local.pc = "requeueing"
    BY DEF WorkerState, WorkerPc
  <2>2. becomes(w, local)
    BY <1>5
  <2> HIDE DEF local
  <2> QED BY <2>1, <2>2, Becomes
<1>6. ASSUME NEW r \in WorkerState, NEW m \in Nat,
             becomes(w, [r EXCEPT !.pc = pc, !.loop = m, !.category = "none", !.uploaded = FALSE])
      PROVE  moved(pc)
  <2> DEFINE local == [r EXCEPT !.pc = pc, !.loop = m, !.category = "none", !.uploaded = FALSE]
  <2>1. local \in WorkerState /\ local.pc = pc
    BY DEF WorkerState, ErrorCategory
  <2>2. becomes(w, local)
    BY <1>6
  <2> HIDE DEF local
  <2> QED BY <2>1, <2>2, Becomes
<1> HIDE DEF moved
<1>7. becomes(w, [IdleWorker EXCEPT !.pc = "pulled", !.base = row.attempts,
                                   !.loop = row.attempts + 1]) => moved("pulled")
  BY <1>1, <1>2, <1>3
<1>8. /\ becomes(w, [worker[w] EXCEPT !.pc = "publishing", !.uploaded = TRUE])
            => moved("publishing")
      /\ becomes(w, [worker[w] EXCEPT !.pc = "disputing", !.uploaded = FALSE])
            => moved("disputing")
  BY <1>1, <1>4 DEF WorkerPc
<1>9. becomes(w, [IdleWorker EXCEPT !.pc = "requeueing", !.seen = row]) => moved("requeueing")
  BY <1>1, <1>5
<1>10. becomes(w, [worker[w] EXCEPT !.pc = pc, !.loop = worker[w].loop + 1,
                                    !.category = "none", !.uploaded = FALSE]) => moved(pc)
  BY <1>1, <1>2, <1>6
<1> QED BY <1>7, <1>8, <1>9, <1>10 DEF moved

LEMMA SweepSteps ==
    ASSUME sweep \in [Sweeper -> SweepState], NEW s \in Sweeper, NEW pc \in SweepPc
    PROVE  /\ sweepTo(s, pc) => /\ sweep' \in [Sweeper -> SweepState]
                                /\ sweep'[s].pc = pc
                                /\ \A v \in Sweeper : v # s => sweep'[v] = sweep[v]
           /\ sweepEnds(s) => /\ sweep' \in [Sweeper -> SweepState]
                              /\ sweep'[s].pc = "idle"
                              /\ \A v \in Sweeper : v # s => sweep'[v] = sweep[v]
           /\ sweep[s].seen \in Row /\ sweep[s].seen.attempts \in Nat /\ charged(s) \in Nat
<1>1. [sweep[s] EXCEPT !.pc = pc] \in SweepState /\ [sweep[s] EXCEPT !.pc = pc].pc = pc
  BY DEF SweepState
<1>2. Idle \in SweepState /\ Idle.pc = "idle"
  BY IdleIsTyped DEF Idle
<1>3. sweep[s].seen \in Row
  BY DEF SweepState
<1>4. sweep[s].seen.attempts \in Nat
  BY <1>3 DEF Row
<1>5. charged(s) \in Nat
  BY <1>4 DEF charged
<1>6. ASSUME NEW local \in SweepState, sweepBecomes(s, local)
      PROVE  /\ sweep' \in [Sweeper -> SweepState]
             /\ sweep'[s] = local
             /\ \A v \in Sweeper : v # s => sweep'[v] = sweep[v]
  BY <1>6 DEF sweepBecomes
<1>7. sweepTo(s, pc) => /\ sweep' \in [Sweeper -> SweepState]
                        /\ sweep'[s].pc = pc
                        /\ \A v \in Sweeper : v # s => sweep'[v] = sweep[v]
  BY <1>1, <1>6 DEF sweepTo
<1>8. sweepEnds(s) => /\ sweep' \in [Sweeper -> SweepState]
                      /\ sweep'[s].pc = "idle"
                      /\ \A v \in Sweeper : v # s => sweep'[v] = sweep[v]
  BY <1>2, <1>6 DEF sweepEnds
<1> QED BY <1>3, <1>4, <1>5, <1>7, <1>8

LEMMA RequestSteps ==
    ASSUME request \in [Request -> RequestState], NEW c \in Request, NEW pc \in RequestPc
    PROVE  /\ reqTo(c, pc) => /\ request' \in [Request -> RequestState]
                              /\ request'[c].pc = pc
                              /\ \A v \in Request : v # c => request'[v] = request[v]
           /\ reqEnds(c) => /\ request' \in [Request -> RequestState]
                            /\ request'[c].pc = "idle"
                            /\ \A v \in Request : v # c => request'[v] = request[v]
           /\ \A seen \in Row : reqBecomes(c, [pc |-> pc, seen |-> seen]) =>
                /\ request' \in [Request -> RequestState]
                /\ request'[c].pc = pc
                /\ \A v \in Request : v # c => request'[v] = request[v]
           /\ request[c].seen \in Row
<1>1. [request[c] EXCEPT !.pc = pc] \in RequestState /\ [request[c] EXCEPT !.pc = pc].pc = pc
  BY DEF RequestState
<1>2. Idle \in RequestState /\ Idle.pc = "idle"
  BY IdleIsTyped DEF Idle
<1>3. request[c].seen \in Row
  BY DEF RequestState
<1>4. \A seen \in Row : [pc |-> pc, seen |-> seen] \in RequestState
  BY DEF RequestState
<1>5. ASSUME NEW local \in RequestState, reqBecomes(c, local)
      PROVE  /\ request' \in [Request -> RequestState]
             /\ request'[c] = local
             /\ \A v \in Request : v # c => request'[v] = request[v]
  BY <1>5 DEF reqBecomes
<1>6. reqTo(c, pc) => /\ request' \in [Request -> RequestState]
                      /\ request'[c].pc = pc
                      /\ \A v \in Request : v # c => request'[v] = request[v]
  BY <1>1, <1>5 DEF reqTo
<1>7. reqEnds(c) => /\ request' \in [Request -> RequestState]
                    /\ request'[c].pc = "idle"
                    /\ \A v \in Request : v # c => request'[v] = request[v]
  BY <1>2, <1>5 DEF reqEnds
<1>8. \A seen \in Row : reqBecomes(c, [pc |-> pc, seen |-> seen]) =>
        /\ request' \in [Request -> RequestState]
        /\ request'[c].pc = pc
        /\ \A v \in Request : v # c => request'[v] = request[v]
  <2> TAKE seen \in Row
  <2> DEFINE local == [pc |-> pc, seen |-> seen]
  <2>1. local \in RequestState /\ local.pc = pc
    BY <1>4
  <2> HIDE DEF local
  <2>2. reqBecomes(c, local) => /\ request' \in [Request -> RequestState]
                                /\ request'[c].pc = pc
                                /\ \A v \in Request : v # c => request'[v] = request[v]
    BY <1>5, <2>1
  <2> QED BY <2>2 DEF local
<1> QED BY <1>3, <1>6, <1>7, <1>8

--------------------------------------------------------------------------------
(* The shapes of the state.                                                   *)

LEMMA WorkerTyping ==
    ASSUME TypeOK, NEW w \in Worker, WorkerStep(w)
    PROVE  TypeOK'
<1> USE LifecycleAssumption DEF TypeOK
<1>1. CASE Pull(w)
  <2>1. worker' \in [Worker -> WorkerState]
    BY <1>1, LocalSteps DEF Pull, WorkerPc
  <2>2. ready' \in 0..MaxReady
    BY <1>1 DEF Pull
  <2> QED BY <1>1, <2>1, <2>2 DEF Pull
<1>2. CASE Claim(w)
  BY <1>2, StatusWrites, Goto, IdleIsTyped, Becomes DEF Claim, WorkerPc, JobStatus, ErrorCategory
<1>3. CASE Begin(w)
  BY <1>3, Goto DEF Begin, WorkerPc, JobStatus, ErrorCategory
<1>4. CASE DeadLetter(w)
  BY <1>4, StatusWrites, Closing DEF DeadLetter, WorkerPc, JobStatus, ErrorCategory, written
<1>5. CASE StopBeforeWork(w)
  BY <1>5, StatusWrites, Closing DEF StopBeforeWork, WorkerPc, JobStatus, ErrorCategory, written
<1>6. CASE RecordStage(w)
  BY <1>6, LeaseWrites DEF RecordStage, WorkerPc, JobStatus, ErrorCategory
<1>7. CASE PollCancel(w)
  BY <1>7, Goto DEF PollCancel, WorkerPc, JobStatus, ErrorCategory
<1>8. CASE ProcessSucceeds(w)
  BY <1>8, Goto, Failing DEF ProcessSucceeds, WorkerPc, JobStatus, ErrorCategory
<1>9. CASE ProcessFails(w)
  BY <1>9, Failing DEF ProcessFails, WorkerPc, JobStatus, ErrorCategory
<1>10. CASE StoreOutput(w)
  BY <1>10, Goto, Failing DEF StoreOutput, WorkerPc, JobStatus, ErrorCategory
<1>11. CASE RecordFile(w)
  BY <1>11, LocalSteps, Failing DEF RecordFile, WorkerPc, JobStatus, ErrorCategory
<1>12. CASE CompleteJob(w)
  BY <1>12, Goto, Closing, Failing, OutcomeWrites, LocalsAreTyped DEF CompleteJob, WorkerPc, JobStatus, ErrorCategory, published
<1>13. CASE DiscardOutput(w)
  BY <1>13, LocalSteps DEF DiscardOutput, WorkerPc, JobStatus, ErrorCategory
<1>14. CASE DisputeRefusal(w)
  BY <1>14, Closing DEF DisputeRefusal, WorkerPc, JobStatus, ErrorCategory
<1>15. CASE CleanUp(w)
  BY <1>15, Goto DEF CleanUp, WorkerPc, JobStatus, ErrorCategory
<1>16. CASE OwnFailure(w)
  BY <1>16, Goto, Closing DEF OwnFailure, WorkerPc, JobStatus, ErrorCategory
<1>17. CASE MarkCancelled(w)
  BY <1>17, Goto, Closing, OutcomeWrites, LocalsAreTyped DEF MarkCancelled, WorkerPc, JobStatus, ErrorCategory
<1>18. CASE FailJob(w)
  BY <1>18, Goto, Closing, OutcomeWrites, LocalsAreTyped DEF FailJob, WorkerPc, JobStatus, ErrorCategory
<1>19. CASE HandlerThrows(w)
  BY <1>19, Goto DEF HandlerThrows, WorkerPc, JobStatus, ErrorCategory
<1>20. CASE CountThrow(w)
  BY <1>20, LocalSteps, CountWrites, LocalsAreTyped DEF CountThrow, WorkerPc, JobStatus, ErrorCategory
<1>21. CASE RetryRead(w)
  BY <1>21, LocalSteps, Closing DEF RetryRead, WorkerPc, JobStatus, ErrorCategory
<1>22. CASE RetryWrite(w)
  BY <1>22, Goto, Closing, RetryWrites DEF RetryWrite, WorkerPc, JobStatus, ErrorCategory
<1>23. CASE RetryClearFlag(w)
  BY <1>23, Goto DEF RetryClearFlag, WorkerPc, JobStatus, ErrorCategory, clearFlag
<1>24. CASE RetryDeliver(w)
  BY <1>24, Goto, Closing DEF RetryDeliver, WorkerPc, JobStatus, ErrorCategory, push
<1>25. CASE RetryUndo(w)
  BY <1>25, Goto, Closing, RestoringWrites, LocalsAreTyped DEF RetryUndo, WorkerPc, JobStatus, ErrorCategory, written
<1>26. CASE SettleOutcome(w)
  BY <1>26, Closing DEF SettleOutcome, WorkerPc, JobStatus, ErrorCategory, settle
<1>27. CASE Leave(w)
  BY <1>27, IdleIsTyped, Becomes DEF Leave, WorkerPc, JobStatus, ErrorCategory, clearFlag
<1> QED BY <1>1, <1>2, <1>3, <1>4, <1>5, <1>6, <1>7, <1>8, <1>9, <1>10, <1>11, <1>12, <1>13, <1>14, <1>15, <1>16, <1>17, <1>18, <1>19, <1>20, <1>21, <1>22, <1>23, <1>24, <1>25, <1>26, <1>27 DEF WorkerStep

LEMMA SweepTyping ==
    ASSUME TypeOK, NEW s \in Sweeper, SweepStep(s)
    PROVE  TypeOK'
<1> USE LifecycleAssumption DEF TypeOK
<1>1. CASE ListStale(s)
  <2>1. [pc |-> "deciding", seen |-> row] \in SweepState
    BY DEF SweepState, SweepPc
  <2> QED BY <1>1, <2>1 DEF ListStale, sweepBecomes
<1>2. CASE RecoverCancelled(s)
  BY <1>2, SweepSteps, OutcomeWrites DEF RecoverCancelled, RecoverTerminal, SweepPc, JobStatus, ErrorCategory
<1>3. CASE RecoverSpent(s)
  BY <1>3, SweepSteps, OutcomeWrites DEF RecoverSpent, RecoverTerminal, SweepPc, JobStatus, ErrorCategory
<1>4. CASE RecoverRequeue(s)
  BY <1>4, SweepSteps, RequeueWrites DEF RecoverRequeue, SweepPc, JobStatus, ErrorCategory
<1>5. CASE SweepDeliver(s)
  BY <1>5, SweepSteps DEF SweepDeliver, push, SweepPc, JobStatus, ErrorCategory
<1>6. CASE SweepUndo(s)
  <2>1. row.category \in ErrorCategory
    BY DEF Row
  <2>2. ended("running", sweep[s].seen.attempts, row.category) \in Row
    BY <2>1, SweepSteps, OutcomeWrites DEF SweepPc, JobStatus
  <2> QED BY <1>6, <2>2, SweepSteps DEF SweepUndo, written, SweepPc
<1>7. CASE SweepSettle(s)
  BY <1>7, SweepSteps DEF SweepSettle, settle, SweepPc, JobStatus, ErrorCategory
<1> QED BY <1>1, <1>2, <1>3, <1>4, <1>5, <1>6, <1>7 DEF SweepStep

LEMMA RequestTyping ==
    ASSUME TypeOK, NEW c \in Request, RequestStep(c)
    PROVE  TypeOK'
<1> USE LifecycleAssumption DEF TypeOK
<1>1. CASE QueueJob(c)
  <2>1. row.attempts \in Nat
    BY DEF Row
  <2>2. ended("failed", row.attempts, "retryable") \in Row /\ toStatus("queued") \in Row
    BY <2>1, OutcomeWrites, StatusWrites DEF JobStatus, ErrorCategory
  <2> QED BY <1>1, <2>2, RequestSteps DEF QueueJob, RequestPc
<1>2. CASE CancelRead(c)
  BY <1>2, RequestSteps DEF CancelRead, RequestPc, JobStatus, ErrorCategory
<1>3. CASE UserRetryRead(c)
  BY <1>3, RequestSteps DEF UserRetryRead, RequestPc, JobStatus, ErrorCategory
<1>4. CASE CancelOutright(c)
  BY <1>4, RequestSteps, CancelWrites DEF CancelOutright, RequestPc, JobStatus, ErrorCategory
<1>5. CASE RequestCancel(c)
  BY <1>5, RequestSteps, WishWrites DEF RequestCancel, RequestPc, JobStatus, ErrorCategory
<1>6. CASE Flag(c)
  BY <1>6, RequestSteps DEF Flag, RequestPc, JobStatus, ErrorCategory
<1>7. CASE ConfirmLatest(c)
  BY <1>7, RequestSteps DEF ConfirmLatest, RequestPc, JobStatus, ErrorCategory
<1>8. CASE UserRetryWrite(c)
  BY <1>8, RequestSteps, RetryWrites DEF UserRetryWrite, RequestPc, JobStatus, ErrorCategory
<1>9. CASE UserRetryClearFlag(c)
  BY <1>9, RequestSteps DEF UserRetryClearFlag, clearFlag, RequestPc, JobStatus, ErrorCategory
<1>10. CASE RequestDeliver(c)
  <2>1. request' \in [Request -> RequestState]
    BY <1>10, RequestSteps DEF RequestDeliver, RequestPc
  <2>2. ready' \in 0..MaxReady
    BY <1>10 DEF RequestDeliver, push
  <2> QED BY <1>10, <2>1, <2>2 DEF RequestDeliver
<1>11. CASE RequestUndo(c)
  BY <1>11, RequestSteps, RestoringWrites DEF RequestUndo, written, RequestPc, JobStatus, ErrorCategory
<1> QED BY <1>1, <1>2, <1>3, <1>4, <1>5, <1>6, <1>7, <1>8, <1>9, <1>10, <1>11 DEF RequestStep, RequestContinues

LEMMA WorldTyping ==
    ASSUME TypeOK, LeaseExpires \/ TTLPasses \/ ExpireJob \/ Crash
    PROVE  TypeOK'
<1> USE LifecycleAssumption DEF TypeOK
<1>1. CASE LeaseExpires
  BY <1>1, LeaseWrites DEF LeaseExpires
<1>2. CASE TTLPasses
  BY <1>2 DEF TTLPasses
<1>3. CASE ExpireJob
  BY <1>3, StatusWrites DEF ExpireJob, JobStatus
<1>4. CASE \E w \in Worker : CrashStandalone(w)
  BY <1>4, IdleIsTyped, Becomes DEF CrashStandalone
<1>5. CASE \E s \in Sweeper : CrashSweep(s)
  BY <1>5, SweepSteps DEF CrashSweep, SweepPc
<1>6. CASE CrashWeb
  <2>1. /\ worker' \in [Worker -> WorkerState]
        /\ sweep' \in [Sweeper -> SweepState]
        /\ request' \in [Request -> RequestState]
    BY <1>6, IdleIsTyped DEF CrashWeb
  <2>2. ready' \in 0..MaxReady
    BY <1>6 DEF CrashWeb
  <2>3. cancelFlag' \in BOOLEAN
    BY <1>6 DEF CrashWeb
  <2> QED BY <1>6, <2>1, <2>2, <2>3 DEF CrashWeb
<1> QED BY <1>1, <1>2, <1>3, <1>4, <1>5, <1>6 DEF Crash

\* Every reachable state of the job, its workers, its sweeps and its requests has
\* the declared shape; in particular no attempt count goes below zero.
THEOREM Typing == Spec => []TypeOK
<1>1. Init => TypeOK
  <2> SUFFICES ASSUME Init
               PROVE  TypeOK
    OBVIOUS
  <2>1. /\ worker \in [Worker -> WorkerState]
        /\ sweep \in [Sweeper -> SweepState]
        /\ request \in [Request -> RequestState]
    BY IdleIsTyped DEF Init
  <2>2. ready \in 0..MaxReady
    BY LifecycleAssumption DEF Init
  <2> QED BY <2>1, <2>2, IdleIsTyped DEF Init, TypeOK
<1>2. TypeOK /\ [Next]_vars => TypeOK'
  <2> SUFFICES ASSUME TypeOK, [Next]_vars
               PROVE  TypeOK'
    OBVIOUS
  <2>1. CASE UNCHANGED vars
    BY <2>1 DEF vars, TypeOK
  <2>2. CASE Next
    BY <2>2, WorkerTyping, SweepTyping, RequestTyping, WorldTyping DEF Next
  <2> QED BY <2>1, <2>2
<1> QED BY <1>1, <1>2, PTL DEF Spec

--------------------------------------------------------------------------------
(* One run at a time.                                                         *)

\* The deployments the theorem is about: one sweep, leases that outlive the workers
\* that hold them, and users who cancel but do not retry.
Orderly ==
    /\ \A s1, s2 \in Sweeper : s1 = s2
    /\ ~SlowLeases
    /\ "retry" \notin Commands

\* Which statuses a granted move can come from.
LEMMA Moves ==
    ASSUME row \in Row, NEW to
    PROVE  /\ mayMove(to, "ordinary") =>
                /\ to # "created"
                /\ to = "queued" => row.status = "created"
                /\ to = "running" => row.status = "queued"
                /\ row.status = "completed" => to = "expired"
                /\ row.status # "expired"
           /\ mayMove("queued", "retry") => row.status \in {"created", "failed", "cancelled"}
           /\ mayMove("queued", "recover") => row.status \in {"created", "running"}
           /\ row.status = "queued" => mayMove("running", "ordinary")
           /\ row.status \in {"created", "queued", "running"} => mayMove("failed", "ordinary")
BY DEF mayMove, isTransitionAllowed, ALLOWED_TRANSITIONS, RETRYABLE_FROM, RECOVERABLE_FROM,
       Row, JobStatus

\* A step of worker w that takes no licence, and leaves the row where it was or ends
\* the job, preserves the invariant.
LEMMA WorkWithinLicence ==
    ASSUME LicenceInv, NEW w \in Worker,
           \A v \in Worker : v # w => worker'[v] = worker[v],
           holds(w)' => holds(w),
           UNCHANGED <<sweep, request>>,
           \/ row'.status \notin {"created", "queued", "running"}
           \/ row'.status = row.status /\ (row'.stale => row.stale),
           row'.attempts = row.attempts \/ holds(w),
           worker'[w].pc \in {"rereading", "requeueing"} => row'.status # "running",
           worker'[w].pc = "failing" /\ row'.status = "running"
                => row'.attempts = worker'[w].base
    PROVE  LicenceInv'
<1> USE DEF LicenceInv
<1>1. \A v \in Worker : holds(v)' => holds(v)
  BY DEF holds
<1>2. OneHolder'
  BY <1>1 DEF OneHolder
<1>3. WaitingIsFree'
  BY <1>1 DEF WaitingIsFree
<1>4. StaleIsAbandoned'
  BY <1>1 DEF StaleIsAbandoned
<1>5. SweepHoldsLicence'
  BY <1>1 DEF SweepHoldsLicence, sweepAt
<1>6. RetriesOnlyEnded'
  BY DEF RetriesOnlyEnded
<1>7. FailuresAreFenced'
  <2> SUFFICES ASSUME NEW v \in Worker, worker'[v].pc = "failing", row'.status = "running"
               PROVE  row'.attempts = worker'[v].base
    BY DEF FailuresAreFenced, at, fenced
  <2>1. CASE v = w
    BY <2>1
  <2>2. CASE v # w
    <3>1. worker[v].pc = "failing" /\ row.status = "running"
      BY <2>2
    <3>2. holds(v)
      BY <3>1 DEF holds, Holding, Running
    <3>3. row'.attempts = row.attempts
      BY <2>2, <3>2 DEF OneHolder
    <3> QED BY <2>2, <3>1, <3>3 DEF FailuresAreFenced, at, fenced
  <2> QED BY <2>1, <2>2
<1>8. NoUserRetry'
  BY DEF NoUserRetry, reqAt
<1> QED BY <1>2, <1>3, <1>4, <1>5, <1>6, <1>7, <1>8

LEMMA WorkerLicence ==
    ASSUME TypeOK, LicenceInv, NEW w \in Worker, WorkerStep(w), ~RetryWrite(w), ~RetryUndo(w), ~Claim(w)
    PROVE  LicenceInv'
<1>0. row \in Row /\ worker \in [Worker -> WorkerState]
  BY DEF TypeOK
<1>1. CASE Pull(w)
  <2>1. /\ worker'[w].pc \in {"pulled"}
        /\ \A v \in Worker : v # w => worker'[v] = worker[v]
    BY <1>0, <1>1, LocalSteps DEF Pull, WorkerPc
  <2> QED BY <1>0, <1>1, <2>1, WorkWithinLicence DEF Pull, holds, Holding, Running, at
<1>2. CASE Begin(w)
  BY <1>0, <1>2, Goto, WorkWithinLicence DEF Begin, holds, Holding, Running, at, WorkerPc
<1>3. CASE DeadLetter(w)
  BY <1>0, <1>3, Closing, StatusWrites, WorkWithinLicence DEF DeadLetter, holds, Holding, Running, at, WorkerPc, written, JobStatus
<1>4. CASE StopBeforeWork(w)
  BY <1>0, <1>4, Closing, StatusWrites, WorkWithinLicence DEF StopBeforeWork, holds, Holding, Running, at, WorkerPc, written, JobStatus
<1>5. CASE RecordStage(w)
  BY <1>0, <1>5, LeaseWrites, WorkWithinLicence DEF RecordStage, holds, Holding, Running, at, WorkerPc
<1>6. CASE PollCancel(w)
  BY <1>0, <1>6, Goto, WorkWithinLicence DEF PollCancel, holds, Holding, Running, at, WorkerPc
<1>7. CASE ProcessSucceeds(w)
  BY <1>0, <1>7, Goto, Failing, WorkWithinLicence DEF ProcessSucceeds, holds, Holding, Running, at, WorkerPc, ErrorCategory
<1>8. CASE ProcessFails(w)
  BY <1>0, <1>8, Failing, WorkWithinLicence DEF ProcessFails, holds, Holding, Running, at, WorkerPc, ErrorCategory
<1>9. CASE StoreOutput(w)
  BY <1>0, <1>9, Goto, Failing, WorkWithinLicence DEF StoreOutput, holds, Holding, Running, at, WorkerPc, ErrorCategory
<1>10. CASE RecordFile(w)
  <2>1. /\ worker'[w].pc \in {"publishing", "cleanup"}
        /\ \A v \in Worker : v # w => worker'[v] = worker[v]
    BY <1>0, <1>10, LocalSteps, Failing DEF RecordFile, WorkerPc, ErrorCategory
  <2> QED BY <1>0, <1>10, <2>1, WorkWithinLicence DEF RecordFile, holds, Holding, Running, at
<1>11. CASE CompleteJob(w)
  <2>1. /\ worker'[w].pc \in {"keeping", "discarding", "cleanup"}
        /\ \A v \in Worker : v # w => worker'[v] = worker[v]
    BY <1>0, <1>11, Goto, Closing, Failing DEF CompleteJob, WorkerPc, ErrorCategory
  <2>2. row' = row \/ row'.status = "completed"
    BY <1>0, <1>11, OutcomeWrites, LocalsAreTyped DEF CompleteJob, published, JobStatus, ErrorCategory
  <2> QED BY <1>0, <1>11, <2>1, <2>2, WorkWithinLicence DEF CompleteJob, holds, Holding, Running, at
<1>12. CASE DiscardOutput(w)
  <2>1. /\ worker'[w].pc \in {"disputing"}
        /\ \A v \in Worker : v # w => worker'[v] = worker[v]
    BY <1>0, <1>12, LocalSteps DEF DiscardOutput, WorkerPc
  <2> QED BY <1>0, <1>12, <2>1, WorkWithinLicence DEF DiscardOutput, holds, Holding, Running, at
<1>13. CASE DisputeRefusal(w)
  BY <1>0, <1>13, Closing, WorkWithinLicence DEF DisputeRefusal, holds, Holding, Running, at, WorkerPc
<1>14. CASE CleanUp(w)
  BY <1>0, <1>14, Goto, WorkWithinLicence DEF CleanUp, holds, Holding, Running, at, WorkerPc
<1>15. CASE OwnFailure(w)
  BY <1>0, <1>15, Goto, Closing, WorkWithinLicence DEF OwnFailure, holds, Holding, Running, at, WorkerPc, ownsAttempt, fenced, isTerminal, TERMINAL_STATUSES
<1>16. CASE MarkCancelled(w)
  <2>1. /\ worker'[w].pc \in {"refunding", "erring"}
        /\ \A v \in Worker : v # w => worker'[v] = worker[v]
    BY <1>0, <1>16, Goto, Closing DEF MarkCancelled, WorkerPc
  <2>2. row' = row \/ row'.status = "cancelled"
    BY <1>0, <1>16, OutcomeWrites, LocalsAreTyped DEF MarkCancelled, JobStatus, ErrorCategory
  <2> QED BY <1>0, <1>16, <2>1, <2>2, WorkWithinLicence DEF MarkCancelled, holds, Holding, Running, at
<1>17. CASE FailJob(w)
  BY <1>0, <1>17, Goto, Closing, OutcomeWrites, LocalsAreTyped, Moves, WorkWithinLicence DEF FailJob, holds, Holding, Running, at, WorkerPc, LicenceInv, WaitingIsFree, FailuresAreFenced, JobStatus
<1>18. CASE HandlerThrows(w)
  BY <1>0, <1>18, Goto, WorkWithinLicence DEF HandlerThrows, holds, Holding, Running, at, WorkerPc
<1>19. CASE CountThrow(w)
  <2>1. /\ worker'[w].pc \in {"stopping", "claimed"}
        /\ \A v \in Worker : v # w => worker'[v] = worker[v]
    BY <1>0, <1>19, LocalSteps DEF CountThrow, WorkerPc
  <2>2. row'.status = row.status /\ ~row'.stale
    BY <1>0, <1>19, CountWrites, LocalsAreTyped DEF CountThrow
  <2> QED BY <1>0, <1>19, <2>1, <2>2, WorkWithinLicence DEF CountThrow, holds, Holding, Running, at
<1>20. CASE RetryRead(w)
  <2>1. /\ worker'[w].pc \in {"requeueing", "refunding"}
        /\ \A v \in Worker : v # w => worker'[v] = worker[v]
    BY <1>0, <1>20, LocalSteps, Closing DEF RetryRead, WorkerPc
  <2>2. worker'[w].pc = "requeueing" => row.status # "running"
    BY <1>0, <1>20, Closing DEF RetryRead, retryable, RETRYABLE_FROM, WorkerPc
  <2> QED BY <1>0, <1>20, <2>1, <2>2, WorkWithinLicence DEF RetryRead, holds, Holding, Running, at
<1>21. CASE RetryClearFlag(w)
  BY <1>0, <1>21, Goto, WorkWithinLicence DEF RetryClearFlag, holds, Holding, Running, at, WorkerPc
<1>22. CASE RetryDeliver(w)
  BY <1>0, <1>22, Goto, Closing, WorkWithinLicence DEF RetryDeliver, holds, Holding, Running, at, WorkerPc
<1>23. CASE SettleOutcome(w)
  BY <1>0, <1>23, Closing, WorkWithinLicence DEF SettleOutcome, holds, Holding, Running, at, WorkerPc
<1>24. CASE Leave(w)
  BY <1>0, <1>24, IdleIsTyped, Becomes, WorkWithinLicence DEF Leave, holds, Holding, Running, at, WorkerPc
<1> QED BY <1>1, <1>2, <1>3, <1>4, <1>5, <1>6, <1>7, <1>8, <1>9, <1>10, <1>11, <1>12, <1>13, <1>14, <1>15, <1>16, <1>17, <1>18, <1>19, <1>20, <1>21, <1>22, <1>23, <1>24 DEF WorkerStep

\* A step of a sweep, a request or the world that takes no licence, and leaves the row
\* where it was or ends the job, preserves the invariant.
LEMMA OthersWithinLicence ==
    ASSUME LicenceInv, UNCHANGED worker,
           \A s \in Sweeper : sweepAt(s, "deciding")' => sweepAt(s, "deciding"),
           NoUserRetry',
           \/ row'.status \notin {"created", "queued", "running"}
           \/ row'.status = row.status /\ (row'.stale => row.stale),
           row'.attempts = row.attempts \/ \A w \in Worker : ~holds(w)
    PROVE  LicenceInv'
<1> USE DEF LicenceInv
<1>1. \A v \in Worker : holds(v)' <=> holds(v)
  BY DEF holds
<1>2. OneHolder' /\ WaitingIsFree' /\ StaleIsAbandoned'
  BY <1>1 DEF OneHolder, WaitingIsFree, StaleIsAbandoned
<1>3. SweepHoldsLicence'
  BY <1>1 DEF SweepHoldsLicence
<1>4. RetriesOnlyEnded'
  BY DEF RetriesOnlyEnded
<1>5. FailuresAreFenced'
  BY DEF FailuresAreFenced, at, fenced, holds, Holding, Running
<1> QED BY <1>2, <1>3, <1>4, <1>5

\* When nobody holds the job and no sweep is deciding, the row may go anywhere.
LEMMA LicenceIsFree ==
    ASSUME \A w \in Worker : ~holds(w)', \A s \in Sweeper : ~sweepAt(s, "deciding")',
           NoUserRetry'
    PROVE  LicenceInv'
BY DEF LicenceInv, OneHolder, WaitingIsFree, StaleIsAbandoned, SweepHoldsLicence,
       RetriesOnlyEnded, FailuresAreFenced, holds, Holding, Running, at

LEMMA ClaimLicence ==
    ASSUME TypeOK, LicenceInv, NEW w \in Worker, Claim(w)
    PROVE  LicenceInv'
<1>0. row \in Row /\ worker \in [Worker -> WorkerState]
  BY DEF TypeOK
<1>1. CASE mayMove("running", "ordinary") /\ row' = toStatus("running") /\ goto(w, "claimed")
  <2>1. row.status = "queued"
    BY <1>0, <1>1, Moves
  <2>2. \A v \in Worker : ~holds(v)
    BY <2>1 DEF LicenceInv, WaitingIsFree
  <2>3. \A s \in Sweeper : ~sweepAt(s, "deciding")
    BY <2>1 DEF LicenceInv, SweepHoldsLicence
  <2>4. row'.status = "running" /\ ~row'.stale
    BY <1>0, <1>1, StatusWrites DEF JobStatus
  <2>5. /\ worker'[w].pc = "claimed"
        /\ \A v \in Worker : v # w => worker'[v] = worker[v]
    BY <1>0, <1>1, Goto DEF WorkerPc
  <2>6. \A v \in Worker : holds(v)' => v = w
    BY <2>2, <2>5 DEF holds
  <2>7. UNCHANGED <<sweep, request>>
    BY DEF Claim
  <2>8. OneHolder' /\ WaitingIsFree' /\ StaleIsAbandoned'
    BY <2>4, <2>6 DEF OneHolder, WaitingIsFree, StaleIsAbandoned
  <2>9. SweepHoldsLicence' /\ NoUserRetry'
    BY <2>3, <2>7 DEF SweepHoldsLicence, sweepAt, LicenceInv, NoUserRetry, reqAt
  <2>10. RetriesOnlyEnded' /\ FailuresAreFenced'
    <3>1. \A v \in Worker : worker'[v].pc \in {"rereading", "requeueing", "failing"}
                              => holds(v)'
      BY DEF holds, Holding, Running
    <3> QED BY <2>5, <2>6, <3>1 DEF RetriesOnlyEnded, FailuresAreFenced, at
  <2> QED BY <2>8, <2>9, <2>10 DEF LicenceInv
<1>2. CASE UNCHANGED row /\ becomes(w, IdleWorker)
  BY <1>0, <1>2, IdleIsTyped, Becomes, WorkWithinLicence
     DEF Claim, holds, Holding, Running
<1> QED BY <1>1, <1>2 DEF Claim

LEMMA RetryLicence ==
    ASSUME TypeOK, LicenceInv, NEW w \in Worker, RetryWrite(w)
    PROVE  LicenceInv'
<1>0. row \in Row /\ worker \in [Worker -> WorkerState] /\ UNCHANGED <<sweep, request>>
  BY DEF TypeOK, RetryWrite
<1>1. CASE goto(w, "clearing")
  <2>1. holds(w)
    BY DEF RetryWrite, at, holds, Holding
  <2>2. /\ worker'[w].pc = "clearing"
        /\ \A v \in Worker : v # w => worker'[v] = worker[v]
    BY <1>0, <1>1, Goto DEF WorkerPc
  <2>3. \A v \in Worker : ~holds(v)'
    BY <2>1, <2>2 DEF LicenceInv, OneHolder, holds, Holding, Running
  <2>4. \A s \in Sweeper : ~sweepAt(s, "deciding")'
    BY <1>0, <2>1 DEF LicenceInv, SweepHoldsLicence, sweepAt
  <2>5. NoUserRetry'
    BY <1>0 DEF LicenceInv, NoUserRetry, reqAt
  <2> QED BY <2>3, <2>4, <2>5, LicenceIsFree
<1>2. CASE UNCHANGED row /\ closing(w, "refunding")
  BY <1>0, <1>2, Closing, WorkWithinLicence DEF WorkerPc, holds, Holding, Running
<1> QED BY <1>1, <1>2 DEF RetryWrite

\* A rollback writes the status its caller had seen, if the row may still go there.
LEMMA RollbackLicence ==
    ASSUME TypeOK, LicenceInv, NEW seen \in Row,
           row' \in written("queued", seen.status, restored(seen))
    PROVE  \/ /\ \A w \in Worker : ~holds(w)
              /\ \A s \in Sweeper : ~sweepAt(s, "deciding")
           \/ row' = row
           \/ /\ row'.status \notin {"created", "queued", "running"}
              /\ row'.attempts = row.attempts
<1>0. row \in Row
  BY DEF TypeOK
<1>1. CASE row' = row
  BY <1>1
<1>2. CASE mayMove(seen.status, "ordinary") /\ row' = restored(seen)
  <2>1. row'.status = seen.status /\ row'.attempts = row.attempts
    BY <1>0, <1>2, RestoringWrites
  <2>2. seen.status # "created"
    BY <1>0, <1>2, Moves
  <2>3. CASE seen.status \in {"queued", "running"}
    <3>1. row.status \in {"created", "queued"}
      BY <1>0, <1>2, <2>3, Moves
    <3> QED BY <3>1 DEF LicenceInv, WaitingIsFree, SweepHoldsLicence
  <2> QED BY <2>1, <2>2, <2>3
<1> QED BY <1>1, <1>2 DEF written

LEMMA RetryUndoLicence ==
    ASSUME TypeOK, LicenceInv, NEW w \in Worker, RetryUndo(w)
    PROVE  LicenceInv'
<1>0. /\ row \in Row /\ worker \in [Worker -> WorkerState] /\ UNCHANGED <<sweep, request>>
      /\ worker[w].seen \in Row
  BY LocalsAreTyped DEF TypeOK, RetryUndo
<1>1. /\ worker'[w].pc \in {"reverting", "refunding"}
      /\ \A v \in Worker : v # w => worker'[v] = worker[v]
  BY <1>0, Goto, Closing DEF RetryUndo, WorkerPc
<1>2. CASE UNCHANGED row
  BY <1>0, <1>1, <1>2, WorkWithinLicence DEF holds, Holding, Running
<1>3. CASE row' \in written("queued", worker[w].seen.status, restored(worker[w].seen))
  <2>1. CASE /\ \A v \in Worker : ~holds(v)
             /\ \A s \in Sweeper : ~sweepAt(s, "deciding")
    BY <1>0, <1>1, <2>1, LicenceIsFree
       DEF LicenceInv, NoUserRetry, reqAt, sweepAt, holds, Holding, Running
  <2>2. CASE /\ row'.status \notin {"created", "queued", "running"}
             /\ row'.attempts = row.attempts
    BY <1>0, <1>1, <2>2, WorkWithinLicence DEF holds, Holding, Running
  <2> QED BY <1>0, <1>2, <1>3, <2>1, <2>2, RollbackLicence
<1> QED BY <1>2, <1>3 DEF RetryUndo

LEMMA SweepLicence ==
    ASSUME Orderly, TypeOK, LicenceInv, NEW s \in Sweeper, SweepStep(s)
    PROVE  LicenceInv'
<1>0. row \in Row /\ sweep \in [Sweeper -> SweepState] /\ UNCHANGED <<worker, request>>
  BY DEF TypeOK, SweepStep, ListStale, RecoverCancelled, RecoverSpent, RecoverRequeue,
         RecoverTerminal, SweepDeliver, SweepUndo, SweepSettle
<1>1. NoUserRetry'
  BY <1>0 DEF LicenceInv, NoUserRetry, reqAt
<1>2. \A v \in Worker : holds(v)' <=> holds(v)
  BY <1>0 DEF holds
<1>3. CASE ListStale(s)
  <2>1. row.status = "running" /\ \A w \in Worker : ~holds(w)
    BY <1>3 DEF ListStale, LicenceInv, StaleIsAbandoned
  <2>2. SweepHoldsLicence'
    BY <1>2, <1>3, <2>1 DEF ListStale, SweepHoldsLicence
  <2>3. /\ OneHolder' /\ WaitingIsFree' /\ StaleIsAbandoned'
        /\ RetriesOnlyEnded' /\ FailuresAreFenced'
    BY <1>0, <1>2, <1>3, <2>1
       DEF ListStale, OneHolder, WaitingIsFree, StaleIsAbandoned, RetriesOnlyEnded,
           FailuresAreFenced, at, holds, Holding, Running
  <2> QED BY <1>1, <2>2, <2>3 DEF LicenceInv
<1>4. ASSUME NEW to \in {"cancelled", "failed"}, NEW category \in ErrorCategory,
             sweepAt(s, "deciding"), RecoverTerminal(s, to, category)
      PROVE  LicenceInv'
  <2>1. \A w \in Worker : ~holds(w)
    BY <1>4 DEF LicenceInv, SweepHoldsLicence
  <2>2. \A t \in Sweeper : sweepAt(t, "deciding")' => sweepAt(t, "deciding")
    BY <1>0, <1>4, SweepSteps DEF RecoverTerminal, sweepAt, SweepPc
  <2>3. \/ row'.status \notin {"created", "queued", "running"}
        \/ row'.status = row.status /\ row'.stale = row.stale
    BY <1>0, <1>4, SweepSteps, OutcomeWrites DEF RecoverTerminal, JobStatus, SweepPc
  <2> QED BY <1>0, <1>1, <2>1, <2>2, <2>3, OthersWithinLicence
<1>5. CASE RecoverCancelled(s)
  BY <1>4, <1>5 DEF RecoverCancelled, ErrorCategory
<1>6. CASE RecoverSpent(s)
  BY <1>4, <1>6 DEF RecoverSpent, ErrorCategory
<1>7. CASE RecoverRequeue(s)
  <2>1. \A w \in Worker : ~holds(w)'
    BY <1>2, <1>7 DEF RecoverRequeue, LicenceInv, SweepHoldsLicence
  <2>2. \A t \in Sweeper : ~sweepAt(t, "deciding")'
    BY <1>0, <1>7, SweepSteps DEF Orderly, RecoverRequeue, sweepAt, SweepPc
  <2> QED BY <1>1, <2>1, <2>2, LicenceIsFree
<1>8. CASE SweepDeliver(s) \/ SweepSettle(s)
  <2>1. \A t \in Sweeper : sweepAt(t, "deciding")' => sweepAt(t, "deciding")
    BY <1>0, <1>8, SweepSteps DEF SweepDeliver, SweepSettle, sweepAt, SweepPc
  <2>2. UNCHANGED row
    BY <1>8 DEF SweepDeliver, SweepSettle
  <2> QED BY <1>0, <1>1, <2>1, <2>2, OthersWithinLicence
<1>9. CASE SweepUndo(s)
  <2>1. \A t \in Sweeper : sweepAt(t, "deciding")' => sweepAt(t, "deciding")
    BY <1>0, <1>9, SweepSteps DEF SweepUndo, sweepAt, SweepPc
  <2>2. CASE UNCHANGED row
    BY <1>0, <1>1, <2>1, <2>2, OthersWithinLicence
  <2>3. CASE mayMove("running", "ordinary")
    <3>1. row.status = "queued"
      BY <1>0, <2>3, Moves
    <3>2. \A w \in Worker : ~holds(w)'
      BY <1>2, <3>1 DEF LicenceInv, WaitingIsFree
    <3>3. \A t \in Sweeper : ~sweepAt(t, "deciding")'
      BY <2>1, <3>1 DEF LicenceInv, SweepHoldsLicence
    <3> QED BY <1>1, <3>2, <3>3, LicenceIsFree
  <2> QED BY <1>9, <2>2, <2>3 DEF SweepUndo, written
<1> QED BY <1>3, <1>5, <1>6, <1>7, <1>8, <1>9 DEF SweepStep

LEMMA RequestLicence ==
    ASSUME Orderly, TypeOK, LicenceInv, NEW c \in Request, RequestStep(c)
    PROVE  LicenceInv'
<1>0. /\ row \in Row /\ request \in [Request -> RequestState] /\ UNCHANGED <<worker, sweep>>
      /\ request[c].seen \in Row
  BY RequestSteps
     DEF TypeOK, RequestStep, RequestContinues, QueueJob, CancelRead, UserRetryRead,
         CancelOutright, RequestCancel, Flag, ConfirmLatest, UserRetryWrite,
         UserRetryClearFlag, RequestDeliver, RequestUndo, RequestPc
<1>1. ~UserRetryRead(c) /\ ~UserRetryWrite(c)
  BY DEF Orderly, UserRetryRead, UserRetryWrite, LicenceInv, NoUserRetry
<1>2. /\ \A v \in Worker : holds(v)' <=> holds(v)
      /\ \A t \in Sweeper : sweepAt(t, "deciding")' <=> sweepAt(t, "deciding")
  BY <1>0 DEF holds, sweepAt
<1>3. NoUserRetry'
  <2> SUFFICES /\ \A d \in Request : d # c => request'[d] = request[d]
               /\ request'[c].pc # "requeueing"
    BY DEF LicenceInv, NoUserRetry, reqAt
  <2>1. CASE QueueJob(c)
    <3>1. ended("failed", row.attempts, "retryable") \in Row
      BY <1>0, OutcomeWrites DEF Row, JobStatus, ErrorCategory
    <3> QED BY <1>0, <2>1, <3>1, RequestSteps DEF QueueJob, RequestPc
  <2>2. CASE CancelRead(c)
    BY <1>0, <2>2, RequestSteps DEF CancelRead, RequestPc
  <2>3. CASE CancelOutright(c) \/ RequestCancel(c)
    BY <1>0, <2>3, RequestSteps DEF CancelOutright, RequestCancel, RequestPc
  <2>4. CASE Flag(c) \/ ConfirmLatest(c)
    BY <1>0, <2>4, RequestSteps DEF Flag, ConfirmLatest, RequestPc
  <2>5. CASE UserRetryClearFlag(c) \/ RequestDeliver(c)
    BY <1>0, <2>5, RequestSteps DEF UserRetryClearFlag, RequestDeliver, RequestPc
  <2>6. CASE RequestUndo(c)
    BY <1>0, <2>6, RequestSteps DEF RequestUndo, RequestPc
  <2> QED BY <1>1, <2>1, <2>2, <2>3, <2>4, <2>5, <2>6 DEF RequestStep, RequestContinues
<1>4. ASSUME \A w \in Worker : ~holds(w), \A s \in Sweeper : ~sweepAt(s, "deciding")
      PROVE  LicenceInv'
  BY <1>2, <1>3, <1>4, LicenceIsFree
<1>5. ASSUME \/ row'.status \notin {"created", "queued", "running"}
             \/ row'.status = row.status /\ (row'.stale => row.stale),
             row'.attempts = row.attempts
      PROVE  LicenceInv'
  BY <1>0, <1>2, <1>3, <1>5, OthersWithinLicence
<1>6. CASE QueueJob(c)
  BY <1>4, <1>6 DEF QueueJob, LicenceInv, WaitingIsFree, SweepHoldsLicence
<1>7. CASE CancelRead(c) \/ Flag(c) \/ ConfirmLatest(c) \/ UserRetryClearFlag(c) \/ RequestDeliver(c)
  BY <1>5, <1>7 DEF CancelRead, Flag, ConfirmLatest, UserRetryClearFlag, RequestDeliver
<1>8. CASE CancelOutright(c)
  BY <1>0, <1>5, <1>8, CancelWrites DEF CancelOutright
<1>9. CASE RequestCancel(c)
  BY <1>0, <1>5, <1>9, WishWrites DEF RequestCancel
<1>10. CASE RequestUndo(c)
  <2>1. \/ UNCHANGED row
        \/ row' \in written("queued", request[c].seen.status, restored(request[c].seen))
    BY <1>10 DEF RequestUndo
  <2> QED BY <1>0, <1>4, <1>5, <2>1, RollbackLicence
<1> QED BY <1>1, <1>6, <1>7, <1>8, <1>9, <1>10 DEF RequestStep, RequestContinues

LEMMA WorldLicence ==
    ASSUME Orderly, TypeOK, LicenceInv,
           LeaseExpires \/ TTLPasses \/ ExpireJob \/ Crash
    PROVE  LicenceInv'
<1>0. row \in Row /\ worker \in [Worker -> WorkerState] /\ sweep \in [Sweeper -> SweepState]
  BY DEF TypeOK
<1>1. CASE LeaseExpires
  <2>1. /\ \A w \in Worker : ~holds(w)
        /\ row'.status = row.status /\ row.status = "running"
        /\ UNCHANGED <<worker, sweep, request>>
    BY <1>0, <1>1 DEF LeaseExpires, Orderly, Row
  <2>2. \A w \in Worker : ~holds(w)'
    BY <2>1 DEF holds
  <2> QED BY <2>1, <2>2
         DEF LicenceInv, OneHolder, WaitingIsFree, StaleIsAbandoned, SweepHoldsLicence,
             RetriesOnlyEnded, FailuresAreFenced, NoUserRetry, holds, Holding, Running, at,
             sweepAt, reqAt
<1>2. CASE TTLPasses \/ ExpireJob
  <2>1. UNCHANGED row \/ (row'.status = "expired" /\ row'.attempts = row.attempts)
    BY <1>0, <1>2, StatusWrites DEF TTLPasses, ExpireJob, JobStatus
  <2>2. UNCHANGED <<worker, sweep, request>>
    BY <1>2 DEF TTLPasses, ExpireJob
  <2> QED BY <2>1, <2>2, OthersWithinLicence
         DEF LicenceInv, NoUserRetry, reqAt, sweepAt
<1>3. CASE \E w \in Worker : CrashStandalone(w)
  <2> PICK w \in Worker : CrashStandalone(w)
    BY <1>3
  <2> QED BY <1>0, IdleIsTyped, Becomes, WorkWithinLicence
          DEF CrashStandalone, holds, Holding, Running
<1>4. CASE \E s \in Sweeper : CrashSweep(s)
  <2> PICK s \in Sweeper : CrashSweep(s)
    BY <1>4
  <2>1. \A t \in Sweeper : sweepAt(t, "deciding")' => sweepAt(t, "deciding")
    BY <1>0, SweepSteps DEF CrashSweep, sweepAt, SweepPc
  <2> QED BY <2>1, OthersWithinLicence DEF CrashSweep, LicenceInv, NoUserRetry, reqAt
<1>5. CASE CrashWeb
  <2>1. UNCHANGED row
    BY <1>5 DEF CrashWeb
  <2>2. \A w \in Worker : worker'[w] = worker[w] \/ worker'[w].pc = "idle"
    BY <1>5, IdleIsTyped DEF CrashWeb
  <2>3. \A s \in Sweeper : sweepAt(s, "deciding")' => sweepAt(s, "deciding")
    BY <1>5 DEF CrashWeb, sweepAt, Idle
  <2>4. NoUserRetry'
    BY <1>5 DEF CrashWeb, NoUserRetry, reqAt, Idle
  <2>5. \A w \in Worker : holds(w)' => worker'[w] = worker[w] /\ holds(w)
    BY <2>2 DEF holds, Holding, Running
  <2>6. \A w \in Worker : worker'[w].pc \in {"rereading", "requeueing", "failing"}
          => worker'[w] = worker[w]
    BY <2>2
  <2>7. OneHolder' /\ WaitingIsFree' /\ StaleIsAbandoned' /\ SweepHoldsLicence'
    BY <2>1, <2>3, <2>5
       DEF LicenceInv, OneHolder, WaitingIsFree, StaleIsAbandoned, SweepHoldsLicence
  <2>8. RetriesOnlyEnded' /\ FailuresAreFenced'
    BY <2>1, <2>6 DEF LicenceInv, RetriesOnlyEnded, FailuresAreFenced, at, fenced
  <2> QED BY <2>4, <2>7, <2>8 DEF LicenceInv
<1> QED BY <1>1, <1>2, <1>3, <1>4, <1>5 DEF Crash

\* The licence to run a job is in one place at a time: with its queued row, with one
\* worker, or with the sweep that found its lease expired.
THEOREM LicenceIsExclusive == ASSUME Orderly PROVE Spec => []LicenceInv
<1>1. Init => LicenceInv
  <2> SUFFICES ASSUME Init
               PROVE  LicenceInv
    OBVIOUS
  <2>1. \A w \in Worker : worker[w].pc = "idle"
    BY IdleIsTyped DEF Init
  <2>2. \A s \in Sweeper : sweep[s].pc = "idle"
    BY DEF Init, Idle
  <2>3. \A c \in Request : request[c].pc = "idle"
    BY DEF Init, Idle
  <2> QED BY <2>1, <2>2, <2>3
         DEF LicenceInv, OneHolder, WaitingIsFree, StaleIsAbandoned, SweepHoldsLicence,
             RetriesOnlyEnded, FailuresAreFenced, NoUserRetry, holds, Holding, Running, at,
             sweepAt, reqAt
<1>2. TypeOK /\ LicenceInv /\ [Next]_vars => LicenceInv'
  <2> SUFFICES ASSUME TypeOK, LicenceInv, [Next]_vars
               PROVE  LicenceInv'
    OBVIOUS
  <2>1. CASE UNCHANGED vars
    BY <2>1 DEF vars, LicenceInv, OneHolder, WaitingIsFree, StaleIsAbandoned,
                SweepHoldsLicence, RetriesOnlyEnded, FailuresAreFenced, NoUserRetry,
                holds, at, fenced, sweepAt, reqAt
  <2>2. CASE \E w \in Worker : WorkerStep(w)
    BY <2>2, WorkerLicence, ClaimLicence, RetryLicence, RetryUndoLicence
  <2>3. CASE \E s \in Sweeper : SweepStep(s)
    BY <2>3, SweepLicence
  <2>4. CASE \E c \in Request : RequestStep(c)
    BY <2>4, RequestLicence
  <2>5. CASE LeaseExpires \/ TTLPasses \/ ExpireJob \/ Crash
    BY <2>5, WorldLicence
  <2> QED BY <2>1, <2>2, <2>3, <2>4, <2>5 DEF Next
<1> QED BY <1>1, <1>2, Typing, PTL DEF Spec

\* Whatever crashes, faults and cancellations do, and however many workers poll, no two
\* of them run the same job at once (InMemoryWorker.process claims by compare-and-swap;
\* StuckJobRecoveryService requeues only what it believes abandoned).
THEOREM OneRunAtATime == ASSUME Orderly PROVE Spec => []AtMostOneRun
<1>1. LicenceInv => AtMostOneRun
  BY DEF LicenceInv, OneHolder, AtMostOneRun, holds, runs, Holding
<1> QED BY <1>1, LicenceIsExclusive, PTL

--------------------------------------------------------------------------------
(* Quota is kept only for a published job: no assumption on the deployment.   *)

Publication == row.status \in {"completed", "expired"}

\* The invariant that carries it: a worker about to keep the reservation has seen its
\* own publication win, and the only way on from completed is to expire.
KeepersPublished == \A w \in Worker : at(w, "keeping") => Publication

KeptInv == KeptMeansPublished /\ KeepersPublished

LEMMA WorkerKeepsPublication ==
    ASSUME TypeOK, NEW w \in Worker, WorkerStep(w), Publication
    PROVE  Publication'
<1>0. row \in Row /\ worker \in [Worker -> WorkerState] /\ worker[w].seen \in Row
  BY LocalsAreTyped DEF TypeOK
<1>1. CASE UNCHANGED row
  BY <1>1 DEF Publication
<1>2. /\ ~mayMove("running", "ordinary") /\ ~mayMove("failed", "ordinary")
      /\ ~mayMove("cancelled", "ordinary") /\ ~mayMove("completed", "ordinary")
      /\ ~mayMove("queued", "retry")
      /\ \A to \in JobStatus : mayMove(to, "ordinary") => to = "expired"
  BY <1>0 DEF Publication, mayMove, isTransitionAllowed, ALLOWED_TRANSITIONS, RETRYABLE_FROM,
              JobStatus
<1>3. CASE RecordStage(w) \/ CountThrow(w)
  BY <1>0, <1>3, LeaseWrites, CountWrites, LocalsAreTyped DEF RecordStage, CountThrow, Publication
<1>4. CASE Claim(w) \/ DeadLetter(w) \/ StopBeforeWork(w)
  BY <1>1, <1>2, <1>4 DEF Claim, DeadLetter, StopBeforeWork, written
<1>5. CASE CompleteJob(w) \/ MarkCancelled(w) \/ FailJob(w)
  BY <1>1, <1>2, <1>5 DEF CompleteJob, publishable, MarkCancelled, FailJob
<1>6. CASE RetryWrite(w)
  BY <1>1, <1>2, <1>6 DEF RetryWrite
<1>7. CASE RetryUndo(w)
  <2>1. worker[w].seen.status \in JobStatus
    BY <1>0 DEF Row
  <2>2. CASE /\ mayMove(worker[w].seen.status, "ordinary")
             /\ row' = restored(worker[w].seen)
    BY <1>0, <1>2, <2>1, <2>2, RestoringWrites DEF Publication
  <2> QED BY <1>1, <1>7, <2>2 DEF RetryUndo, written
<1> QED BY <1>1, <1>3, <1>4, <1>5, <1>6, <1>7
        DEF WorkerStep, Pull, Begin, PollCancel, ProcessSucceeds, ProcessFails, StoreOutput,
            RecordFile, DiscardOutput, DisputeRefusal, CleanUp, OwnFailure, HandlerThrows,
            RetryRead, RetryClearFlag, RetryDeliver, SettleOutcome, Leave

LEMMA OthersKeepPublication ==
    ASSUME TypeOK, Publication,
           \/ \E s \in Sweeper : SweepStep(s)
           \/ \E c \in Request : RequestStep(c)
           \/ LeaseExpires \/ TTLPasses \/ ExpireJob \/ Crash
    PROVE  Publication'
<1>0. /\ row \in Row /\ sweep \in [Sweeper -> SweepState]
      /\ request \in [Request -> RequestState]
  BY DEF TypeOK
<1>1. CASE UNCHANGED row
  BY <1>1 DEF Publication
<1>2. /\ ~mayMove("running", "ordinary") /\ ~mayMove("failed", "ordinary")
      /\ ~mayMove("cancelled", "ordinary") /\ ~mayMove("queued", "retry")
      /\ ~mayMove("queued", "recover")
      /\ \A to \in JobStatus : mayMove(to, "ordinary") => to = "expired"
  BY <1>0 DEF Publication, mayMove, isTransitionAllowed, ALLOWED_TRANSITIONS, RETRYABLE_FROM,
              RECOVERABLE_FROM, JobStatus
<1>3. ASSUME NEW s \in Sweeper, SweepStep(s)
      PROVE  Publication'
  BY <1>1, <1>2, <1>3
     DEF SweepStep, ListStale, RecoverCancelled, RecoverSpent, RecoverTerminal,
         RecoverRequeue, SweepDeliver, SweepUndo, SweepSettle, written
<1>4. ASSUME NEW c \in Request, RequestStep(c)
      PROVE  Publication'
  <2>1. request[c].seen \in Row /\ request[c].seen.status \in JobStatus
    BY <1>0, RequestSteps DEF RequestPc, Row
  <2>2. CASE RequestCancel(c)
    BY <1>0, <2>2, WishWrites DEF RequestCancel, Publication
  <2>3. CASE RequestUndo(c)
    <3>1. CASE /\ mayMove(request[c].seen.status, "ordinary")
               /\ row' = restored(request[c].seen)
      BY <1>0, <1>2, <2>1, <3>1, RestoringWrites DEF Publication
    <3> QED BY <1>1, <2>3, <3>1 DEF RequestUndo, written
  <2>4. CASE CancelOutright(c) \/ UserRetryWrite(c)
    BY <1>1, <1>2, <2>4 DEF CancelOutright, UserRetryWrite
  <2>5. ~QueueJob(c)
    BY DEF QueueJob, Publication
  <2> QED BY <1>1, <1>4, <2>2, <2>3, <2>4, <2>5
          DEF RequestStep, RequestContinues, CancelRead, UserRetryRead, Flag, ConfirmLatest,
              UserRetryClearFlag, RequestDeliver
<1>5. CASE LeaseExpires \/ ExpireJob
  BY <1>0, <1>5, StatusWrites DEF LeaseExpires, ExpireJob, Publication, JobStatus
<1>6. CASE TTLPasses \/ Crash
  BY <1>1, <1>6 DEF TTLPasses, Crash, CrashStandalone, CrashSweep, CrashWeb
<1> QED BY <1>3, <1>4, <1>5, <1>6

\* Only a publication that won makes a worker keep the reservation.
LEMMA KeepersWin ==
    ASSUME TypeOK, NEW w \in Worker, WorkerStep(w)
    PROVE  /\ worker'[w].pc = "keeping" => Publication'
           /\ \A v \in Worker : v # w => worker'[v] = worker[v]
<1>0. row \in Row /\ worker \in [Worker -> WorkerState]
  BY DEF TypeOK
<1>1. CASE CompleteJob(w)
  <2>1. CASE publishable(w) /\ row' = published(w) /\ closing(w, "keeping")
    <3>1. row'.status = "completed"
      BY <1>0, <2>1, OutcomeWrites, LocalsAreTyped DEF published, JobStatus, ErrorCategory
    <3> QED BY <1>0, <2>1, <3>1, Closing DEF Publication, WorkerPc
  <2> QED BY <1>0, <1>1, <2>1, Goto, Failing DEF CompleteJob, WorkerPc, ErrorCategory
<1>2. CASE RecordStage(w)
  <2>1. ~at(w, "keeping") /\ UNCHANGED worker
    BY <1>2 DEF RecordStage, at
  <2> QED BY <2>1 DEF at
<1>3. CASE Pull(w) \/ DiscardOutput(w)
  BY <1>0, <1>3, LocalSteps DEF Pull, DiscardOutput, WorkerPc
<1>4. CASE Claim(w) \/ Leave(w)
  BY <1>0, <1>4, Goto, Becomes, IdleIsTyped DEF Claim, Leave, WorkerPc
<1>5. CASE RecordFile(w)
  BY <1>0, <1>5, LocalSteps, Failing DEF RecordFile, WorkerPc, ErrorCategory
<1>6. CASE CountThrow(w)
  BY <1>0, <1>6, LocalSteps DEF CountThrow, WorkerPc
<1>7. CASE RetryRead(w)
  BY <1>0, <1>7, LocalSteps, Closing DEF RetryRead, WorkerPc
<1>8. CASE ProcessSucceeds(w) \/ ProcessFails(w) \/ StoreOutput(w)
  BY <1>0, <1>8, Goto, Failing DEF ProcessSucceeds, ProcessFails, StoreOutput, WorkerPc, ErrorCategory
<1>9. CASE Begin(w) \/ PollCancel(w) \/ CleanUp(w) \/ HandlerThrows(w) \/ RetryClearFlag(w)
  BY <1>0, <1>9, Goto DEF Begin, PollCancel, CleanUp, HandlerThrows, RetryClearFlag, WorkerPc
<1>10. CASE DeadLetter(w) \/ StopBeforeWork(w) \/ DisputeRefusal(w) \/ SettleOutcome(w)
  BY <1>0, <1>10, Closing DEF DeadLetter, StopBeforeWork, DisputeRefusal, SettleOutcome, WorkerPc
<1>11. CASE OwnFailure(w) \/ MarkCancelled(w) \/ FailJob(w)
  BY <1>0, <1>11, Goto, Closing DEF OwnFailure, MarkCancelled, FailJob, WorkerPc
<1>12. CASE RetryWrite(w) \/ RetryDeliver(w) \/ RetryUndo(w)
  BY <1>0, <1>12, Goto, Closing DEF RetryWrite, RetryDeliver, RetryUndo, WorkerPc
<1> QED BY <1>1, <1>2, <1>3, <1>4, <1>5, <1>6, <1>7, <1>8, <1>9, <1>10, <1>11, <1>12 DEF WorkerStep

LEMMA KeepersArePublished == Spec => []KeptInv
<1>1. Init => KeptInv
  BY IdleIsTyped DEF Init, KeptInv, KeptMeansPublished, KeepersPublished, at
<1>2. TypeOK /\ KeptInv /\ [Next]_vars => KeptInv'
  <2> SUFFICES ASSUME TypeOK, KeptInv, [Next]_vars
               PROVE  KeptInv'
    OBVIOUS
  <2>1. CASE UNCHANGED vars
    BY <2>1 DEF vars, KeptInv, KeptMeansPublished, KeepersPublished, Publication, at
  <2>2. ASSUME NEW w \in Worker, WorkerStep(w)
        PROVE  KeptInv'
    <3>1. Publication => Publication'
      BY <2>2, WorkerKeepsPublication
    <3>2. settlement' = "kept" => settlement = "kept" \/ at(w, "keeping")
      BY <2>2 DEF WorkerStep, Pull, Claim, Begin, DeadLetter, StopBeforeWork, RecordStage,
                  PollCancel, ProcessSucceeds, ProcessFails, StoreOutput, RecordFile,
                  CompleteJob, DiscardOutput, DisputeRefusal, CleanUp, OwnFailure,
                  MarkCancelled, FailJob, HandlerThrows, CountThrow, RetryRead, RetryWrite,
                  RetryClearFlag, RetryDeliver, RetryUndo, SettleOutcome, Leave, settle
    <3>3. KeptMeansPublished'
      BY <3>1, <3>2 DEF KeptInv, KeptMeansPublished, KeepersPublished, Publication
    <3>4. KeepersPublished'
      BY <2>2, <3>1, KeepersWin DEF KeptInv, KeepersPublished, at
    <3> QED BY <3>3, <3>4 DEF KeptInv
  <2>3. ASSUME \/ \E s \in Sweeper : SweepStep(s)
               \/ \E c \in Request : RequestStep(c)
               \/ LeaseExpires \/ TTLPasses \/ ExpireJob \/ Crash
        PROVE  KeptInv'
    <3>1. Publication => Publication'
      BY <2>3, OthersKeepPublication
    <3>2. settlement' = "kept" => settlement = "kept"
      BY <2>3 DEF SweepStep, ListStale, RecoverCancelled, RecoverSpent, RecoverTerminal,
                  RecoverRequeue, SweepDeliver, SweepUndo, SweepSettle, settle, RequestStep,
                  RequestContinues, QueueJob, CancelRead, UserRetryRead, CancelOutright,
                  RequestCancel, Flag, ConfirmLatest, UserRetryWrite, UserRetryClearFlag,
                  RequestDeliver, RequestUndo, LeaseExpires, TTLPasses, ExpireJob, Crash,
                  CrashStandalone, CrashSweep, CrashWeb
    <3>3. \A w \in Worker : at(w, "keeping")' => at(w, "keeping")
      <4>1. CASE \E w \in Worker : CrashStandalone(w)
        BY <4>1, IdleIsTyped, Becomes DEF TypeOK, CrashStandalone, at
      <4>2. CASE CrashWeb
        BY <4>2, IdleIsTyped DEF CrashWeb, at
      <4>3. CASE UNCHANGED worker
        BY <4>3 DEF at
      <4> QED BY <2>3, <4>1, <4>2, <4>3
          DEF SweepStep, ListStale, RecoverCancelled, RecoverSpent, RecoverTerminal,
              RecoverRequeue, SweepDeliver, SweepUndo, SweepSettle, RequestStep,
              RequestContinues, QueueJob, CancelRead, UserRetryRead, CancelOutright,
              RequestCancel, Flag, ConfirmLatest, UserRetryWrite, UserRetryClearFlag,
              RequestDeliver, RequestUndo, LeaseExpires, TTLPasses, ExpireJob, Crash,
              CrashSweep
    <3> QED BY <3>1, <3>2, <3>3
        DEF KeptInv, KeptMeansPublished, KeepersPublished, Publication
  <2> QED BY <2>1, <2>2, <2>3 DEF Next
<1> QED BY <1>1, <1>2, Typing, PTL DEF Spec

\* A reservation is settled as kept only for a job whose publication won, and stays so:
\* settleUsage after completeJob, under every crash, store fault, lost handoff, slow
\* lease, second sweep, cancellation and retry, for every number of workers.
THEOREM KeptIsPublished == Spec => []KeptMeansPublished
<1>1. KeptInv => KeptMeansPublished
  BY DEF KeptInv
<1> QED BY <1>1, KeepersArePublished, PTL


--------------------------------------------------------------------------------
(* What a worker holds after each kind of step, field by field.               *)

LEMMA GotoHolds ==
    ASSUME worker \in [Worker -> WorkerState], NEW w \in Worker, NEW pc \in WorkerPc,
           goto(w, pc)
    PROVE  /\ worker' \in [Worker -> WorkerState]
           /\ worker'[w].pc = pc /\ worker'[w].base = worker[w].base
           /\ worker'[w].uploaded = worker[w].uploaded /\ worker'[w].seen = worker[w].seen
           /\ \A v \in Worker : v # w => worker'[v] = worker[v]
<1> DEFINE local == [worker[w] EXCEPT !.pc = pc]
<1>1. /\ local \in WorkerState /\ local.pc = pc /\ local.base = worker[w].base
      /\ local.uploaded = worker[w].uploaded /\ local.seen = worker[w].seen
  BY DEF WorkerState
<1>2. becomes(w, local)
  BY DEF goto
<1> HIDE DEF local
<1> QED BY <1>1, <1>2, Becomes

LEMMA ClosingHolds ==
    ASSUME worker \in [Worker -> WorkerState], NEW w \in Worker, NEW pc \in WorkerPc,
           closing(w, pc)
    PROVE  /\ worker' \in [Worker -> WorkerState]
           /\ worker'[w].pc = pc /\ ~worker'[w].uploaded
           /\ \A v \in Worker : v # w => worker'[v] = worker[v]
<1> DEFINE local == [IdleWorker EXCEPT !.pc = pc]
<1>1. local \in WorkerState /\ local.pc = pc /\ ~local.uploaded
  BY IdleIsTyped DEF IdleWorker, WorkerState
<1>2. becomes(w, local)
  BY DEF closing
<1> HIDE DEF local
<1> QED BY <1>1, <1>2, Becomes

LEMMA FailingHolds ==
    ASSUME worker \in [Worker -> WorkerState], NEW w \in Worker, NEW c \in ErrorCategory,
           fails(w, c)
    PROVE  /\ worker' \in [Worker -> WorkerState]
           /\ worker'[w].pc = "cleanup" /\ worker'[w].uploaded = worker[w].uploaded
           /\ \A v \in Worker : v # w => worker'[v] = worker[v]
<1> DEFINE d == IF isCancelled(w) THEN "cancelled" ELSE c
           local == [worker[w] EXCEPT !.pc = "cleanup", !.category = d]
<1>1. d \in ErrorCategory
  BY DEF ErrorCategory
<1>2. becomes(w, local)
  BY DEF fails
<1> HIDE DEF d
<1>3. /\ local \in WorkerState /\ local.pc = "cleanup"
      /\ local.uploaded = worker[w].uploaded
  BY <1>1 DEF WorkerState, WorkerPc
<1> HIDE DEF local
<1> QED BY <1>2, <1>3, Becomes

LEMMA PullingHolds ==
    ASSUME worker \in [Worker -> WorkerState], row \in Row, NEW w \in Worker,
           becomes(w, [IdleWorker EXCEPT !.pc = "pulled", !.base = row.attempts,
                                         !.loop = row.attempts + 1])
    PROVE  /\ worker' \in [Worker -> WorkerState]
           /\ worker'[w].pc = "pulled" /\ ~worker'[w].uploaded
           /\ \A v \in Worker : v # w => worker'[v] = worker[v]
<1>1. row.attempts \in Nat /\ row.attempts + 1 \in Nat
  BY DEF Row
<1>2. ASSUME NEW r \in WorkerState, ~r.uploaded, NEW n \in Nat, NEW m \in Nat,
             becomes(w, [r EXCEPT !.pc = "pulled", !.base = n, !.loop = m])
      PROVE  /\ worker' \in [Worker -> WorkerState]
             /\ worker'[w].pc = "pulled" /\ ~worker'[w].uploaded
             /\ \A v \in Worker : v # w => worker'[v] = worker[v]
  <2> DEFINE local == [r EXCEPT !.pc = "pulled", !.base = n, !.loop = m]
  <2>1. local \in WorkerState /\ local.pc = "pulled" /\ ~local.uploaded
    BY <1>2 DEF WorkerState, WorkerPc
  <2>2. becomes(w, local)
    BY <1>2
  <2> HIDE DEF local
  <2> QED BY <2>1, <2>2, Becomes
<1>3. IdleWorker \in WorkerState /\ ~IdleWorker.uploaded
  BY IdleIsTyped DEF IdleWorker
<1> QED BY <1>1, <1>2, <1>3

LEMMA UploadHolds ==
    ASSUME worker \in [Worker -> WorkerState], NEW w \in Worker, NEW pc \in WorkerPc,
           NEW b \in BOOLEAN, becomes(w, [worker[w] EXCEPT !.pc = pc, !.uploaded = b])
    PROVE  /\ worker' \in [Worker -> WorkerState]
           /\ worker'[w].pc = pc /\ worker'[w].uploaded = b
           /\ worker'[w].base = worker[w].base
           /\ \A v \in Worker : v # w => worker'[v] = worker[v]
<1> DEFINE local == [worker[w] EXCEPT !.pc = pc, !.uploaded = b]
<1>1. /\ local \in WorkerState /\ local.pc = pc /\ local.uploaded = b
      /\ local.base = worker[w].base
  BY DEF WorkerState
<1>2. becomes(w, local)
  OBVIOUS
<1> HIDE DEF local
<1> QED BY <1>1, <1>2, Becomes

LEMMA RereadingHolds ==
    ASSUME worker \in [Worker -> WorkerState], row \in Row, NEW w \in Worker,
           becomes(w, [IdleWorker EXCEPT !.pc = "requeueing", !.seen = row])
    PROVE  /\ worker' \in [Worker -> WorkerState]
           /\ worker'[w].pc = "requeueing" /\ worker'[w].seen = row /\ ~worker'[w].uploaded
           /\ \A v \in Worker : v # w => worker'[v] = worker[v]
<1>1. ASSUME NEW r \in WorkerState, ~r.uploaded,
             becomes(w, [r EXCEPT !.pc = "requeueing", !.seen = row])
      PROVE  /\ worker' \in [Worker -> WorkerState]
             /\ worker'[w].pc = "requeueing" /\ worker'[w].seen = row /\ ~worker'[w].uploaded
             /\ \A v \in Worker : v # w => worker'[v] = worker[v]
  <2> DEFINE local == [r EXCEPT !.pc = "requeueing", !.seen = row]
  <2>1. /\ local \in WorkerState /\ local.pc = "requeueing" /\ local.seen = row
        /\ ~local.uploaded
    BY <1>1 DEF WorkerState, WorkerPc
  <2>2. becomes(w, local)
    BY <1>1
  <2> HIDE DEF local
  <2> QED BY <2>1, <2>2, Becomes
<1>2. IdleWorker \in WorkerState /\ ~IdleWorker.uploaded
  BY IdleIsTyped DEF IdleWorker
<1> QED BY <1>1, <1>2

LEMMA IdlingHolds ==
    ASSUME worker \in [Worker -> WorkerState], NEW w \in Worker, becomes(w, IdleWorker)
    PROVE  /\ worker' \in [Worker -> WorkerState]
           /\ worker'[w].pc = "idle" /\ ~worker'[w].uploaded
           /\ \A v \in Worker : v # w => worker'[v] = worker[v]
BY IdleIsTyped, Becomes DEF IdleWorker

--------------------------------------------------------------------------------
(* A published job keeps its output, and no run is on a spent budget.         *)

Ended == {"failed", "cancelled"}

\* What a worker that runs the job may rely on.
HolderKeeps(w) ==
    /\ holds(w) => row.status \in {"running"} \cup Ended
    /\ runs(w) /\ row.status = "running" => row.attempts < MaxAttempts
    /\ at(w, "requeueing") => row.attempts < MaxAttempts
    /\ worker[w].pc \in {"recording", "publishing"} => output

\* What every worker's locals satisfy without store faults: it deletes nothing but
\* an output whose publication was refused.
LocalsKeep(w) ==
    /\ ~at(w, "erring")
    /\ worker[w].uploaded => worker[w].pc \in {"publishing", "discarding"}
    /\ worker[w].pc \in {"requeueing", "clearing", "delivering", "undoing", "reverting"}
            => worker[w].seen.status \in Ended

\* A rollback restores an ended job.
RequestKeeps(c) ==
    request[c].pc \in {"requeueing", "clearing", "delivering", "undoing", "reverting"}
        => request[c].seen.status \in Ended

WaitingHasBudget == row.status \in {"created", "queued"} => row.attempts < MaxAttempts

\* The inductive invariant: a holder finds the job running, or ended without a result.
WorkInv ==
    /\ PublishedOutputIsStored
    /\ WaitingHasBudget
    /\ \A w \in Worker : HolderKeeps(w) /\ LocalsKeep(w)
    /\ \A c \in Request : RequestKeeps(c)

\* A step of worker w disturbs the others only when it holds the licence, and they
\* hold nothing, or when it leaves the output and the count alone.
LEMMA WorkersKeep ==
    ASSUME LicenceInv, WorkInv, NEW w \in Worker,
           \A v \in Worker : v # w => worker'[v] = worker[v],
           UNCHANGED request,
           \/ holds(w)
           \/ /\ output' = output
              /\ row'.attempts = row.attempts
              /\ row'.status = row.status \/ row'.status \in Ended \/ \A v \in Worker : ~holds(v),
           HolderKeeps(w)', LocalsKeep(w)', WaitingHasBudget', PublishedOutputIsStored'
    PROVE  WorkInv'
<1>1. ASSUME NEW v \in Worker, v # w
      PROVE  HolderKeeps(v)' /\ LocalsKeep(v)'
  <2>1. LocalsKeep(v)'
    BY <1>1 DEF WorkInv, LocalsKeep, at
  <2>2. /\ (holds(v)' <=> holds(v)) /\ (runs(v)' <=> runs(v))
        /\ worker[v].pc \in {"requeueing", "recording", "publishing"} => holds(v)
        /\ runs(v) => holds(v)
    BY <1>1 DEF holds, runs, Holding, Running
  <2>3. CASE ~holds(v)
    BY <1>1, <2>1, <2>2, <2>3 DEF HolderKeeps, at
  <2>4. CASE holds(v)
    <3>1. ~holds(w)
      BY <1>1, <2>4 DEF LicenceInv, OneHolder
    <3> QED BY <1>1, <2>1, <2>2, <2>4, <3>1 DEF WorkInv, HolderKeeps, at, Ended
  <2> QED BY <2>1, <2>3, <2>4
<1>2. \A c \in Request : RequestKeeps(c)'
  BY DEF WorkInv, RequestKeeps
<1> QED BY <1>1, <1>2 DEF WorkInv

LEMMA WorkerKeeps ==
    ASSUME ~StoreFaults, TypeOK, LicenceInv, WorkInv, NEW w \in Worker, WorkerStep(w),
           ~CompleteJob(w), ~Claim(w), ~RetryWrite(w), ~RetryUndo(w), ~FailJob(w), ~MarkCancelled(w)
    PROVE  WorkInv'
<1>0. /\ row \in Row /\ worker \in [Worker -> WorkerState] /\ row.status \in JobStatus
      /\ row.attempts \in Nat
  BY DEF TypeOK, Row
<1>1. HolderKeeps(w) /\ LocalsKeep(w) /\ WaitingHasBudget /\ PublishedOutputIsStored
  BY DEF WorkInv
<1>2. UNCHANGED request
  BY DEF WorkerStep, Pull, Begin, DeadLetter, StopBeforeWork, RecordStage,
         PollCancel, ProcessSucceeds, ProcessFails, StoreOutput, RecordFile,
         DiscardOutput, DisputeRefusal, CleanUp, OwnFailure,
         HandlerThrows, CountThrow, RetryRead,
         RetryClearFlag, RetryDeliver, SettleOutcome, Leave
<1> USE DEF holds, runs, Holding, Running, at, HolderKeeps, LocalsKeep, Ended, WaitingHasBudget,
            PublishedOutputIsStored
\* The steps that move only the worker.
<1>3. ASSUME UNCHANGED <<row, output>>, \A v \in Worker : v # w => worker'[v] = worker[v],
             worker'[w].pc = "erring" => at(w, "erring"),
             worker'[w].uploaded => worker'[w].pc \in {"publishing", "discarding"},
             worker'[w].pc \in {"requeueing", "clearing", "delivering", "undoing", "reverting"}
                => worker'[w].seen.status \in Ended,
             holds(w)' => holds(w),
             runs(w)' => runs(w),
             worker'[w].pc = "requeueing" => row.attempts < MaxAttempts,
             worker'[w].pc \in {"recording", "publishing"} => output
      PROVE  WorkInv'
  BY <1>1, <1>2, <1>3, WorkersKeep
<1>4. CASE Pull(w)
  <2>1. /\ worker'[w].pc = "pulled" /\ ~worker'[w].uploaded
        /\ \A v \in Worker : v # w => worker'[v] = worker[v]
    BY <1>0, <1>4, PullingHolds DEF Pull
  <2> QED BY <1>3, <1>4, <2>1 DEF Pull
<1>5. CASE Begin(w) \/ PollCancel(w)
  BY <1>0, <1>1, <1>3, <1>5, GotoHolds DEF Begin, PollCancel, WorkerPc
<1>6. CASE DeadLetter(w) \/ StopBeforeWork(w)
  <2>1. /\ worker'[w].pc = "leaving" /\ ~worker'[w].uploaded
        /\ \A v \in Worker : v # w => worker'[v] = worker[v]
    BY <1>0, <1>6, ClosingHolds DEF DeadLetter, StopBeforeWork, WorkerPc
  <2>2. row' = row \/ row'.status \in Ended
    BY <1>0, <1>6, StatusWrites DEF DeadLetter, StopBeforeWork, written, JobStatus
  <2> QED BY <1>1, <1>2, <1>6, <2>1, <2>2, WorkersKeep DEF DeadLetter, StopBeforeWork
<1>7. CASE RecordStage(w)
  BY <1>0, <1>1, <1>2, <1>7, LeaseWrites, WorkersKeep DEF RecordStage
<1>8. CASE ProcessSucceeds(w) \/ ProcessFails(w)
  BY <1>0, <1>1, <1>3, <1>8, GotoHolds, FailingHolds DEF ProcessSucceeds, ProcessFails, WorkerPc, ErrorCategory
<1>9. CASE StoreOutput(w)
  BY <1>0, <1>1, <1>2, <1>9, GotoHolds, WorkersKeep DEF StoreOutput, WorkerPc
<1>10. CASE RecordFile(w)
  BY <1>0, <1>1, <1>3, <1>10, UploadHolds DEF RecordFile, WorkerPc
<1>11. CASE DiscardOutput(w)
  BY <1>0, <1>1, <1>2, <1>11, UploadHolds, WorkersKeep DEF DiscardOutput, WorkerPc
<1>12. CASE DisputeRefusal(w)
  BY <1>0, <1>1, <1>3, <1>12, ClosingHolds DEF DisputeRefusal, WorkerPc
<1>13. CASE CleanUp(w)
  BY <1>0, <1>1, <1>3, <1>13, GotoHolds DEF CleanUp, WorkerPc
<1>14. CASE OwnFailure(w)
  BY <1>0, <1>1, <1>3, <1>14, GotoHolds, ClosingHolds DEF OwnFailure, WorkerPc
<1>15. ~HandlerThrows(w) /\ ~CountThrow(w)
  BY <1>1 DEF HandlerThrows, CountThrow
<1>16. CASE RetryRead(w)
  BY <1>0, <1>1, <1>3, <1>16, RereadingHolds, ClosingHolds
     DEF RetryRead, retryable, RETRYABLE_FROM, WorkerPc
<1>17. CASE RetryClearFlag(w) \/ RetryDeliver(w)
  BY <1>0, <1>1, <1>3, <1>17, GotoHolds, ClosingHolds DEF RetryClearFlag, RetryDeliver, WorkerPc
<1>18. CASE SettleOutcome(w) \/ Leave(w)
  BY <1>0, <1>1, <1>3, <1>18, ClosingHolds, IdlingHolds DEF SettleOutcome, Leave, WorkerPc
<1> QED BY <1>4, <1>5, <1>6, <1>7, <1>8, <1>9, <1>10, <1>11, <1>12, <1>13, <1>14, <1>15, <1>16,
           <1>17, <1>18 DEF WorkerStep

\* The steps that move the job: publish, fail, cancel.
LEMMA OutcomeKeeps ==
    ASSUME ~StoreFaults, TypeOK, LicenceInv, WorkInv, NEW w \in Worker,
           CompleteJob(w) \/ FailJob(w) \/ MarkCancelled(w)
    PROVE  WorkInv'
<1>0. /\ row \in Row /\ worker \in [Worker -> WorkerState] /\ row.status \in JobStatus
      /\ row.attempts \in Nat /\ attempt(w) \in Nat /\ worker[w].category \in ErrorCategory
  BY LocalsAreTyped DEF TypeOK, Row
<1>1. HolderKeeps(w) /\ LocalsKeep(w) /\ WaitingHasBudget /\ PublishedOutputIsStored
  BY DEF WorkInv
<1> USE DEF holds, runs, Holding, Running, at, HolderKeeps, LocalsKeep, Ended, WaitingHasBudget,
            PublishedOutputIsStored
<1>2. CASE CompleteJob(w)
  <2>1. CASE publishable(w) /\ row' = published(w) /\ closing(w, "keeping")
    <3>1. row'.status = "completed"
      BY <1>0, <2>1, OutcomeWrites DEF published, JobStatus, ErrorCategory
    <3>2. /\ worker'[w].pc = "keeping" /\ ~worker'[w].uploaded
          /\ \A v \in Worker : v # w => worker'[v] = worker[v]
      BY <1>0, <2>1, ClosingHolds DEF WorkerPc
    <3> QED BY <1>1, <1>2, <3>1, <3>2, WorkersKeep DEF CompleteJob
  <2>2. CASE UNCHANGED row /\ goto(w, "discarding")
    BY <1>0, <1>1, <1>2, <2>2, GotoHolds, WorkersKeep DEF CompleteJob, WorkerPc
  <2> QED BY <1>2, <2>1, <2>2 DEF CompleteJob
<1>3. CASE FailJob(w) \/ MarkCancelled(w)
  <2>1. row' = row \/ row'.status \in Ended
    BY <1>0, <1>3, OutcomeWrites DEF FailJob, MarkCancelled, JobStatus, ErrorCategory
  <2>2. /\ worker'[w].pc \in {"rereading", "refunding"}
        /\ worker'[w].uploaded = worker[w].uploaded \/ ~worker'[w].uploaded
        /\ \A v \in Worker : v # w => worker'[v] = worker[v]
    BY <1>0, <1>3, GotoHolds, ClosingHolds DEF FailJob, MarkCancelled, WorkerPc
  <2> QED BY <1>1, <1>3, <2>1, <2>2, WorkersKeep DEF FailJob, MarkCancelled
<1> QED BY <1>2, <1>3

LEMMA ClaimKeeps ==
    ASSUME TypeOK, LicenceInv, WorkInv, NEW w \in Worker, Claim(w)
    PROVE  WorkInv'
<1>0. row \in Row /\ worker \in [Worker -> WorkerState]
  BY DEF TypeOK
<1>1. HolderKeeps(w) /\ LocalsKeep(w) /\ WaitingHasBudget /\ PublishedOutputIsStored
  BY DEF WorkInv
<1> USE DEF holds, runs, Holding, Running, at, HolderKeeps, LocalsKeep, Ended, WaitingHasBudget,
            PublishedOutputIsStored
<1>2. CASE mayMove("running", "ordinary") /\ row' = toStatus("running") /\ goto(w, "claimed")
  <2>1. row.status = "queued"
    BY <1>0, <1>2, Moves
  <2>2. row'.status = "running" /\ row'.attempts = row.attempts
    BY <1>0, <1>2, StatusWrites DEF JobStatus
  <2>3. \A v \in Worker : ~holds(v)
    BY <2>1 DEF LicenceInv, WaitingIsFree
  <2>4. /\ worker'[w].pc = "claimed" /\ worker'[w].uploaded = worker[w].uploaded
        /\ \A v \in Worker : v # w => worker'[v] = worker[v]
    BY <1>0, <1>2, GotoHolds DEF WorkerPc
  <2> QED BY <1>1, <2>1, <2>2, <2>3, <2>4, WorkersKeep DEF Claim
<1>3. CASE UNCHANGED row /\ becomes(w, IdleWorker)
  BY <1>0, <1>1, <1>3, IdlingHolds, WorkersKeep DEF Claim
<1> QED BY <1>2, <1>3 DEF Claim

LEMMA RetryKeeps ==
    ASSUME TypeOK, LicenceInv, WorkInv, NEW w \in Worker, RetryWrite(w)
    PROVE  WorkInv'
<1>0. row \in Row /\ worker \in [Worker -> WorkerState]
  BY DEF TypeOK
<1>1. HolderKeeps(w) /\ LocalsKeep(w) /\ WaitingHasBudget /\ PublishedOutputIsStored
  BY DEF WorkInv
<1> USE DEF holds, runs, Holding, Running, at, HolderKeeps, LocalsKeep, Ended, WaitingHasBudget,
            PublishedOutputIsStored
<1>2. CASE row' = retried /\ goto(w, "clearing")
  <2>1. row'.status = "queued" /\ row'.attempts = row.attempts
    BY <1>0, <1>2, RetryWrites
  <2>2. /\ worker'[w].pc = "clearing" /\ worker'[w].uploaded = worker[w].uploaded
        /\ worker'[w].seen = worker[w].seen
        /\ \A v \in Worker : v # w => worker'[v] = worker[v]
    BY <1>0, <1>2, GotoHolds DEF WorkerPc
  <2> QED BY <1>1, <2>1, <2>2, WorkersKeep DEF RetryWrite
<1>3. CASE UNCHANGED row /\ closing(w, "refunding")
  BY <1>0, <1>1, <1>3, ClosingHolds, WorkersKeep DEF RetryWrite, WorkerPc
<1> QED BY <1>2, <1>3 DEF RetryWrite

\* A rollback leaves the row alone or ends the job with the count it has.
LEMMA RollbackEnds ==
    ASSUME row \in Row, NEW seen \in Row, seen.status \in Ended,
           row' \in written("queued", seen.status, restored(seen))
    PROVE  row' = row \/ (row'.status \in Ended /\ row'.attempts = row.attempts)
BY RestoringWrites DEF written

LEMMA RetryUndoKeeps ==
    ASSUME TypeOK, LicenceInv, WorkInv, NEW w \in Worker, RetryUndo(w)
    PROVE  WorkInv'
<1>0. row \in Row /\ worker \in [Worker -> WorkerState] /\ worker[w].seen \in Row
  BY LocalsAreTyped DEF TypeOK
<1>1. HolderKeeps(w) /\ LocalsKeep(w) /\ WaitingHasBudget /\ PublishedOutputIsStored
  BY DEF WorkInv
<1>2. worker[w].seen.status \in Ended
  BY <1>1 DEF LocalsKeep, RetryUndo, at
<1>3. row' = row \/ (row'.status \in Ended /\ row'.attempts = row.attempts)
  BY <1>0, <1>2, RollbackEnds DEF RetryUndo
<1>4. /\ worker'[w].pc \in {"reverting", "refunding"}
      /\ worker'[w].pc = "reverting" => worker'[w].seen = worker[w].seen
      /\ worker'[w].uploaded = worker[w].uploaded \/ ~worker'[w].uploaded
      /\ \A v \in Worker : v # w => worker'[v] = worker[v]
  BY <1>0, GotoHolds, ClosingHolds DEF RetryUndo, WorkerPc
<1> QED BY <1>1, <1>2, <1>3, <1>4, WorkersKeep
        DEF RetryUndo, holds, runs, Holding, Running, at, HolderKeeps, LocalsKeep, Ended,
            WaitingHasBudget, PublishedOutputIsStored

\* A step of a sweep, a request or the world disturbs no holder when it keeps the count
\* and leaves the status or ends the job, or when there is no holder.
LEMMA OthersKeep ==
    ASSUME WorkInv, UNCHANGED <<worker, output>>,
           \A c \in Request : RequestKeeps(c)',
           WaitingHasBudget',
           row'.status = "completed" => row.status = "completed",
           \/ /\ row'.attempts = row.attempts
              /\ row'.status = row.status \/ row'.status \in Ended
           \/ \A w \in Worker : ~holds(w)
    PROVE  WorkInv'
<1>1. ASSUME NEW w \in Worker
      PROVE  HolderKeeps(w)' /\ LocalsKeep(w)'
  BY DEF WorkInv, HolderKeeps, LocalsKeep, holds, runs, Holding, Running, at, Ended
<1> QED BY <1>1 DEF WorkInv, PublishedOutputIsStored

LEMMA SweepKeeps ==
    ASSUME TypeOK, LicenceInv, WorkInv, NEW s \in Sweeper, SweepStep(s)
    PROVE  WorkInv'
<1>0. /\ row \in Row /\ row.attempts \in Nat /\ sweep \in [Sweeper -> SweepState]
      /\ UNCHANGED <<worker, request, output>>
  BY DEF TypeOK, Row, SweepStep, ListStale, RecoverCancelled, RecoverSpent, RecoverRequeue,
         RecoverTerminal, SweepDeliver, SweepUndo, SweepSettle
<1>1. \A c \in Request : RequestKeeps(c)'
  BY <1>0 DEF WorkInv, RequestKeeps
<1>2. CASE UNCHANGED row
  BY <1>0, <1>1, <1>2, OthersKeep DEF WorkInv, WaitingHasBudget
<1>3. sweepAt(s, "deciding") => \A w \in Worker : ~holds(w)
  BY DEF LicenceInv, SweepHoldsLicence
<1>4. ASSUME NEW to \in Ended, NEW category \in ErrorCategory,
             sweepAt(s, "deciding"), RecoverTerminal(s, to, category)
      PROVE  WorkInv'
  <2>1. CASE row' = ended(to, charged(s), category)
    <3>1. row'.status = to
      BY <1>0, <2>1, SweepSteps, OutcomeWrites DEF SweepPc, JobStatus, Ended
    <3> QED BY <1>0, <1>1, <1>3, <1>4, <3>1, OthersKeep DEF WaitingHasBudget, Ended
  <2> QED BY <1>2, <1>4, <2>1 DEF RecoverTerminal
<1>5. CASE RecoverCancelled(s) \/ RecoverSpent(s)
  BY <1>4, <1>5 DEF RecoverCancelled, RecoverSpent, ErrorCategory, Ended
<1>6. CASE RecoverRequeue(s)
  <2>1. CASE row' = requeued(charged(s))
    <3>1. charged(s) \in Nat
      BY <1>0, SweepSteps DEF SweepPc
    <3>2. row'.status = "queued" /\ row'.attempts = charged(s)
      BY <1>0, <2>1, <3>1, RequeueWrites
    <3>3. row'.attempts < MaxAttempts
      BY <1>6, <3>1, <3>2, LifecycleAssumption DEF RecoverRequeue, spent
    <3> QED BY <1>0, <1>1, <1>3, <1>6, <3>2, <3>3, OthersKeep DEF WaitingHasBudget, RecoverRequeue
  <2> QED BY <1>2, <1>6, <2>1 DEF RecoverRequeue
<1>7. CASE SweepUndo(s)
  <2>1. CASE mayMove("running", "ordinary")
             /\ row' = ended("running", sweep[s].seen.attempts, row.category)
    <3>1. \A w \in Worker : ~holds(w)
      BY <1>0, <2>1, Moves DEF LicenceInv, WaitingIsFree
    <3>2. row'.status = "running"
      BY <1>0, <2>1, SweepSteps, OutcomeWrites DEF SweepPc, JobStatus, Row
    <3> QED BY <1>0, <1>1, <3>1, <3>2, OthersKeep DEF WaitingHasBudget
  <2> QED BY <1>2, <1>7, <2>1 DEF SweepUndo, written
<1> QED BY <1>2, <1>5, <1>6, <1>7 DEF SweepStep, ListStale, SweepDeliver, SweepSettle

LEMMA RequestsKeep ==
    ASSUME Orderly, TypeOK, LicenceInv, WorkInv, NEW c \in Request, RequestStep(c)
    PROVE  WorkInv'
<1>0. /\ row \in Row /\ request \in [Request -> RequestState]
      /\ request[c].seen \in Row /\ UNCHANGED <<worker, output>>
  BY RequestSteps
     DEF TypeOK, RequestStep, RequestContinues, QueueJob, CancelRead, UserRetryRead,
         CancelOutright, RequestCancel, Flag, ConfirmLatest, UserRetryWrite,
         UserRetryClearFlag, RequestDeliver, RequestUndo, RequestPc
<1>1. ~UserRetryRead(c) /\ ~UserRetryWrite(c)
  BY DEF Orderly, UserRetryRead, UserRetryWrite, LicenceInv, NoUserRetry
<1>2. RequestKeeps(c) /\ WaitingHasBudget
  BY DEF WorkInv
<1>3. \A d \in Request : RequestKeeps(d)'
  <2> SUFFICES /\ \A d \in Request : d # c => request'[d] = request[d]
               /\ RequestKeeps(c)'
    BY DEF WorkInv, RequestKeeps
  <2>1. CASE QueueJob(c)
    <3> DEFINE seen == ended("failed", row.attempts, "retryable")
    <3>1. seen \in Row /\ seen.status = "failed"
      BY <1>0, OutcomeWrites DEF Row, JobStatus, ErrorCategory
    <3>2. request' = [request EXCEPT ![c] = [pc |-> "delivering", seen |-> seen]]
      BY <2>1 DEF QueueJob, reqBecomes
    <3> HIDE DEF seen
    <3> QED BY <1>0, <3>1, <3>2 DEF RequestKeeps, Ended
  <2>2. CASE CancelRead(c)
    BY <1>0, <2>2, RequestSteps DEF CancelRead, RequestPc, RequestKeeps
  <2>3. ASSUME NEW pc \in RequestPc, reqTo(c, pc), RequestKeeps(c),
               pc \in {"clearing", "delivering", "undoing", "reverting"}
                 => request[c].pc \in {"clearing", "delivering", "undoing", "reverting"},
               pc # "requeueing"
        PROVE  /\ \A d \in Request : d # c => request'[d] = request[d]
               /\ RequestKeeps(c)'
    BY <1>0, <2>3 DEF reqTo, reqBecomes, RequestKeeps, RequestState
  <2>4. CASE reqEnds(c)
    BY <1>0, <2>4, RequestSteps DEF RequestKeeps, RequestPc
  <2>5. CASE CancelOutright(c) \/ RequestCancel(c)
    BY <1>2, <2>3, <2>5 DEF CancelOutright, RequestCancel, RequestPc
  <2>6. CASE Flag(c) \/ ConfirmLatest(c)
    BY <1>2, <2>3, <2>4, <2>6 DEF Flag, ConfirmLatest, RequestPc
  <2>7. CASE UserRetryClearFlag(c) \/ RequestDeliver(c)
    BY <1>2, <2>3, <2>4, <2>7 DEF UserRetryClearFlag, RequestDeliver, RequestPc, reqAt
  <2>8. CASE RequestUndo(c)
    BY <1>2, <2>3, <2>4, <2>8 DEF RequestUndo, RequestPc, reqAt
  <2> QED BY <1>1, <2>1, <2>2, <2>5, <2>6, <2>7, <2>8 DEF RequestStep, RequestContinues
<1>4. ASSUME row'.attempts = row.attempts,
             row'.status = row.status \/ row'.status \in Ended
      PROVE  WorkInv'
  BY <1>0, <1>2, <1>3, <1>4, OthersKeep DEF WaitingHasBudget, Ended
<1>5. CASE QueueJob(c)
  <2>1. row'.status = "queued" /\ row'.attempts = row.attempts /\ row.status = "created"
    BY <1>0, <1>5, StatusWrites DEF QueueJob, JobStatus
  <2>2. \A w \in Worker : ~holds(w)
    BY <2>1 DEF LicenceInv, WaitingIsFree
  <2> QED BY <1>0, <1>2, <1>3, <2>1, <2>2, OthersKeep DEF WaitingHasBudget
<1>6. CASE CancelRead(c) \/ Flag(c) \/ ConfirmLatest(c) \/ UserRetryClearFlag(c) \/ RequestDeliver(c)
  BY <1>4, <1>6 DEF CancelRead, Flag, ConfirmLatest, UserRetryClearFlag, RequestDeliver
<1>7. CASE CancelOutright(c) \/ RequestCancel(c)
  <2>1. CASE UNCHANGED row
    BY <1>4, <2>1
  <2>2. CASE row' = [ended("cancelled", row.attempts, "cancelled") EXCEPT !.cancelRequested = TRUE]
    BY <1>0, <1>4, <2>2, CancelWrites DEF Ended
  <2>3. CASE RequestCancel(c)
    BY <1>0, <1>4, <2>3, WishWrites DEF RequestCancel
  <2> QED BY <1>7, <2>1, <2>2, <2>3 DEF CancelOutright
<1>8. CASE RequestUndo(c)
  <2>1. CASE reqAt(c, "reverting") /\ row' \in written("queued", request[c].seen.status, restored(request[c].seen))
    <3>1. request[c].seen.status \in Ended
      BY <1>2, <2>1 DEF RequestKeeps, reqAt
    <3> QED BY <1>0, <1>4, <2>1, <3>1, RollbackEnds
  <2> QED BY <1>4, <1>8, <2>1 DEF RequestUndo
<1> QED BY <1>1, <1>5, <1>6, <1>7, <1>8 DEF RequestStep, RequestContinues

LEMMA WorldKeeps ==
    ASSUME TypeOK, LicenceInv, WorkInv,
           LeaseExpires \/ TTLPasses \/ ExpireJob \/ Crash
    PROVE  WorkInv'
<1>0. row \in Row /\ worker \in [Worker -> WorkerState] /\ UNCHANGED output
  BY DEF TypeOK, LeaseExpires, TTLPasses, ExpireJob, Crash, CrashStandalone, CrashSweep, CrashWeb
<1>1. CASE LeaseExpires \/ TTLPasses
  <2>1. row'.status = row.status /\ row'.attempts = row.attempts /\ UNCHANGED <<worker, request>>
    BY <1>0, <1>1, LeaseWrites DEF LeaseExpires, TTLPasses
  <2> QED BY <1>0, <2>1, OthersKeep DEF WorkInv, WaitingHasBudget, RequestKeeps
<1>2. CASE ExpireJob
  <2>1. row.status \in {"queued", "completed"}
    BY <1>0, <1>2 DEF ExpireJob, EXPIRABLE_STATUSES, ALLOWED_TRANSITIONS, JobStatus
  <2>2. \A w \in Worker : ~holds(w)
    BY <2>1 DEF LicenceInv, WaitingIsFree, WorkInv, HolderKeeps, Ended
  <2>3. row'.status = "expired" /\ UNCHANGED <<worker, request>>
    BY <1>0, <1>2, StatusWrites DEF ExpireJob, JobStatus
  <2> QED BY <1>0, <2>2, <2>3, OthersKeep DEF WorkInv, WaitingHasBudget, RequestKeeps
<1>3. CASE Crash
  <2>1. UNCHANGED row
    BY <1>3 DEF Crash, CrashStandalone, CrashSweep, CrashWeb
  <2>2. \A w \in Worker : worker'[w] = worker[w] \/ (worker'[w].pc = "idle" /\ ~worker'[w].uploaded)
    <3>1. CASE \E v \in Worker : CrashStandalone(v)
      BY <1>0, <3>1, IdlingHolds DEF CrashStandalone
    <3>2. CASE \E s \in Sweeper : CrashSweep(s)
      BY <3>2 DEF CrashSweep
    <3>3. CASE CrashWeb
      BY <1>0, <3>3 DEF CrashWeb, IdleWorker
    <3> QED BY <1>3, <3>1, <3>2, <3>3 DEF Crash
  <2>3. \A c \in Request : request'[c] = request[c] \/ request'[c].pc = "idle"
    BY <1>3 DEF Crash, CrashStandalone, CrashSweep, CrashWeb, Idle
  <2>4. ASSUME NEW w \in Worker
        PROVE  HolderKeeps(w)' /\ LocalsKeep(w)'
    BY <1>0, <2>1, <2>2 DEF WorkInv, HolderKeeps, LocalsKeep, holds, runs, Holding, Running, at
  <2>5. ASSUME NEW c \in Request
        PROVE  RequestKeeps(c)'
    BY <2>3 DEF WorkInv, RequestKeeps
  <2> QED BY <1>0, <2>1, <2>4, <2>5 DEF WorkInv, WaitingHasBudget, PublishedOutputIsStored
<1> QED BY <1>1, <1>2, <1>3

\* While the storage answers, the invariant holds in every orderly deployment.
THEOREM WorkIsKept == ASSUME Orderly, ~StoreFaults PROVE Spec => []WorkInv
<1>1. Init => WorkInv
  <2> SUFFICES ASSUME Init
               PROVE  WorkInv
    OBVIOUS
  <2>1. /\ \A w \in Worker : worker[w].pc = "idle" /\ ~worker[w].uploaded
        /\ \A c \in Request : request[c].pc = "idle"
        /\ row.status = "created" /\ row.attempts = 0
    BY DEF Init, IdleWorker, Idle, NewRow
  <2> QED BY <2>1, LifecycleAssumption
         DEF WorkInv, PublishedOutputIsStored, WaitingHasBudget, HolderKeeps, LocalsKeep,
             RequestKeeps, holds, runs, Holding, Running, at
<1>2. TypeOK /\ LicenceInv /\ WorkInv /\ [Next]_vars => WorkInv'
  <2> SUFFICES ASSUME TypeOK, LicenceInv, WorkInv, [Next]_vars
               PROVE  WorkInv'
    OBVIOUS
  <2>1. CASE UNCHANGED vars
    BY <2>1 DEF vars, WorkInv, PublishedOutputIsStored, WaitingHasBudget, HolderKeeps,
                LocalsKeep, RequestKeeps, holds, runs, at
  <2>2. CASE \E w \in Worker : WorkerStep(w)
    BY <2>2, WorkerKeeps, OutcomeKeeps, ClaimKeeps, RetryKeeps, RetryUndoKeeps
  <2>3. CASE \E s \in Sweeper : SweepStep(s)
    BY <2>3, SweepKeeps
  <2>4. CASE \E c \in Request : RequestStep(c)
    BY <2>4, RequestsKeep
  <2>5. CASE LeaseExpires \/ TTLPasses \/ ExpireJob \/ Crash
    BY <2>5, WorldKeeps
  <2> QED BY <2>1, <2>2, <2>3, <2>4, <2>5 DEF Next
<1> QED BY <1>1, <1>2, Typing, LicenceIsExclusive, PTL DEF Spec

\* A published job has its result: no cleanup, refused completion, crash, lost handoff
\* or cancellation deletes it (ProcessingJobHandler deletes only what it uploaded for a
\* publication the row refused).
THEOREM PublishedIsStored == ASSUME Orderly, ~StoreFaults PROVE Spec => []PublishedOutputIsStored
<1>1. WorkInv => PublishedOutputIsStored
  BY DEF WorkInv
<1> QED BY <1>1, WorkIsKept, PTL

\* No worker runs a job whose budget crashes, retries and recoveries have spent.
THEOREM BudgetIsKept == ASSUME Orderly, ~StoreFaults PROVE Spec => []RunsWithinBudget
<1>1. WorkInv => RunsWithinBudget
  BY DEF WorkInv, HolderKeeps, RunsWithinBudget
<1> QED BY <1>1, WorkIsKept, PTL

--------------------------------------------------------------------------------
(* The attempt count never falls, and the lifecycle keeps the contract.       *)

\* The queue takes what it is handed, and the storage and the database answer.
Answering == ~StoreFaults /\ ~HandoffFaults

\* The job has ended and nobody is left who could requeue it.
Final == isTerminal(row.status) /\ \A w \in Worker : ~holds(w)

\* A refused completion of a running job has lost its fence, a recorded failure has
\* it, and who gives the quota back has seen the end.
WorkerSettles(w) ==
    /\ worker[w].pc \notin {"undoing", "reverting"}
    /\ worker[w].pc \in {"discarding", "disputing"} /\ row.status = "running" => ~fenced(w)
    /\ worker[w].pc \in {"cancelling", "failing"} /\ row.status = "running" => fenced(w)
    /\ at(w, "refunding") => Final /\ row.status \in Ended

\* What a sweep decides from is still so.
SweepSettles(s) ==
    /\ sweep[s].pc \notin {"undoing", "reverting"}
    /\ sweepAt(s, "deciding") => sweep[s].seen.attempts = row.attempts
    /\ sweepAt(s, "refunding") => Final /\ row.status \in Ended

RequestSettles(c) == request[c].pc \notin {"undoing", "reverting"}

SettleInv ==
    /\ settlement # "none" => Final
    /\ \A w \in Worker : WorkerSettles(w)
    /\ \A s \in Sweeper : SweepSettles(s)
    /\ \A c \in Request : RequestSettles(c)

\* The end is final: only a holder requeues an ended job when users do not.
LEMMA FinalStays ==
    ASSUME Orderly, TypeOK, LicenceInv, WorkInv, Final, [Next]_vars
    PROVE  Final' /\ (row.status \in Ended => row'.status \in Ended)
<1>0. /\ row \in Row /\ worker \in [Worker -> WorkerState] /\ request \in [Request -> RequestState]
      /\ sweep \in [Sweeper -> SweepState]
  BY DEF TypeOK
<1>1. \A w \in Worker : ~holds(w)
  BY DEF Final
<1>2. /\ \A to \in JobStatus \ {"expired"} : ~mayMove(to, "ordinary")
      /\ ~mayMove("queued", "recover")
      /\ row.status \notin {"created", "queued", "running"}
      /\ row.status \in Ended => ~mayMove("expired", "ordinary")
  BY <1>0 DEF Final, isTerminal, TERMINAL_STATUSES, mayMove, isTransitionAllowed, Ended,
              ALLOWED_TRANSITIONS, RECOVERABLE_FROM, JobStatus
<1>3. ASSUME \A w \in Worker : holds(w)' => holds(w),
             \/ row'.status = row.status
             \/ row'.status = "expired" /\ row.status \notin Ended
      PROVE  Final' /\ (row.status \in Ended => row'.status \in Ended)
  BY <1>1, <1>3 DEF Final, isTerminal, TERMINAL_STATUSES
<1>4. ASSUME NEW w \in Worker, WorkerStep(w)
      PROVE  Final' /\ (row.status \in Ended => row'.status \in Ended)
  <2>1. LocalsKeep(w) /\ worker[w].pc \notin Holding /\ worker[w].seen \in Row
    BY <1>0, <1>1, LocalsAreTyped DEF WorkInv, holds
  <2>2. CASE Pull(w)
    BY <1>0, <1>3, <2>2, PullingHolds DEF Pull, holds, Holding, Running
  <2>3. CASE Claim(w)
    BY <1>0, <1>2, <1>3, <2>3, IdlingHolds DEF Claim, holds, Holding, Running, JobStatus
  <2>4. CASE RetryClearFlag(w) \/ RetryDeliver(w)
    BY <1>0, <1>3, <2>4, GotoHolds, ClosingHolds
       DEF RetryClearFlag, RetryDeliver, holds, Holding, Running, WorkerPc
  <2>5. CASE RetryUndo(w)
    <3>1. worker[w].seen.status \in Ended
      BY <2>1, <2>5 DEF LocalsKeep, RetryUndo, at
    <3>2. UNCHANGED row
      BY <1>2, <2>5, <3>1 DEF RetryUndo, written, Ended, JobStatus
    <3> QED BY <1>0, <1>3, <2>5, <3>2, GotoHolds, ClosingHolds
            DEF RetryUndo, holds, Holding, Running, WorkerPc
  <2>6. CASE SettleOutcome(w) \/ Leave(w)
    BY <1>0, <1>3, <2>6, ClosingHolds, IdlingHolds
       DEF SettleOutcome, Leave, holds, Holding, Running, WorkerPc
  <2> QED BY <1>4, <2>1, <2>2, <2>3, <2>4, <2>5, <2>6
          DEF WorkerStep, Begin, DeadLetter, StopBeforeWork, RecordStage,
         PollCancel, ProcessSucceeds, ProcessFails, StoreOutput, RecordFile, CompleteJob,
         DiscardOutput, DisputeRefusal, CleanUp, OwnFailure, MarkCancelled, FailJob,
         HandlerThrows, CountThrow, RetryRead, RetryWrite, Holding, Running, at
<1>5. ASSUME NEW s \in Sweeper, SweepStep(s)
      PROVE  Final' /\ (row.status \in Ended => row'.status \in Ended)
  <2>1. UNCHANGED <<row, worker>>
    BY <1>2, <1>5 DEF SweepStep, ListStale, RecoverCancelled, RecoverSpent, RecoverTerminal,
          RecoverRequeue, SweepDeliver, SweepUndo, SweepSettle, written, JobStatus
  <2> QED BY <1>3, <2>1 DEF holds
<1>6. ASSUME NEW c \in Request, RequestStep(c)
      PROVE  Final' /\ (row.status \in Ended => row'.status \in Ended)
  <2>1. ~UserRetryWrite(c) /\ ~UserRetryRead(c)
    BY DEF Orderly, UserRetryRead, UserRetryWrite, LicenceInv, NoUserRetry
  <2>2. CASE RequestCancel(c)
    BY <1>0, <1>3, <2>2, WishWrites DEF RequestCancel, holds
  <2>3. CASE RequestUndo(c)
    <3>1. reqAt(c, "reverting") => request[c].seen.status \in Ended
      BY DEF WorkInv, RequestKeeps, reqAt
    <3>2. UNCHANGED <<row, worker>>
      BY <1>2, <2>3, <3>1 DEF RequestUndo, written, Ended, JobStatus
    <3> QED BY <1>3, <3>2 DEF holds
  <2>4. CASE ~RequestCancel(c) /\ ~RequestUndo(c)
    <3>1. UNCHANGED <<row, worker>>
      BY <1>2, <1>6, <2>1, <2>4
         DEF RequestStep, RequestContinues, QueueJob, CancelRead, CancelOutright, Flag,
             ConfirmLatest, UserRetryClearFlag, RequestDeliver, JobStatus
    <3> QED BY <1>3, <3>1 DEF holds
  <2> QED BY <2>2, <2>3, <2>4
<1>7. CASE LeaseExpires \/ TTLPasses \/ ExpireJob
  <2>1. row'.status = row.status \/ (row'.status = "expired" /\ row.status \notin Ended)
    BY <1>0, <1>7, LeaseWrites, StatusWrites
       DEF LeaseExpires, TTLPasses, ExpireJob, EXPIRABLE_STATUSES, ALLOWED_TRANSITIONS, Ended, JobStatus
  <2> QED BY <1>3, <1>7, <2>1 DEF LeaseExpires, TTLPasses, ExpireJob, holds
<1>8. CASE Crash
  <2>1. UNCHANGED row
    BY <1>8 DEF Crash, CrashStandalone, CrashSweep, CrashWeb
  <2>2. \A w \in Worker : holds(w)' => holds(w)
    <3>1. CASE \E v \in Worker : CrashStandalone(v)
      BY <1>0, <3>1, IdlingHolds DEF CrashStandalone, holds, Holding, Running
    <3>2. CASE \E s \in Sweeper : CrashSweep(s)
      BY <3>2 DEF CrashSweep, holds
    <3>3. CASE CrashWeb
      BY <1>0, <3>3 DEF CrashWeb, IdleWorker, holds, Holding, Running
    <3> QED BY <1>8, <3>1, <3>2, <3>3 DEF Crash
  <2> QED BY <1>3, <2>1, <2>2
<1>9. CASE UNCHANGED vars
  BY <1>3, <1>9 DEF vars, holds
<1> QED BY <1>4, <1>5, <1>6, <1>7, <1>8, <1>9 DEF Next

\* A step of worker w leaves what the others know as it was, unless it holds the
\* licence, when they hold nothing, or nobody does.
LEMMA WorkersSettle ==
    ASSUME LicenceInv, SettleInv, NEW w \in Worker,
           \A v \in Worker : v # w => worker'[v] = worker[v],
           UNCHANGED <<sweep, request>>,
           \/ holds(w)
           \/ UNCHANGED row
           \/ row'.attempts = row.attempts /\ \A v \in Worker : ~holds(v),
           Final => Final' /\ (row.status \in Ended => row'.status \in Ended),
           WorkerSettles(w)',
           settlement' = settlement \/ Final
    PROVE  SettleInv'
<1>1. ASSUME NEW v \in Worker, v # w
      PROVE  WorkerSettles(v)'
  <2>1. worker'[v] = worker[v] /\ WorkerSettles(v)
    BY <1>1 DEF SettleInv
  <2>2. worker[v].pc \in {"discarding", "disputing", "cancelling", "failing"} => holds(v)
    BY DEF holds, Holding, Running
  <2>3. holds(v) => ~holds(w)
    BY <1>1 DEF LicenceInv, OneHolder
  <2> QED BY <2>1, <2>2, <2>3 DEF WorkerSettles, at, fenced
<1>2. ASSUME NEW s \in Sweeper
      PROVE  SweepSettles(s)'
  <2>1. SweepSettles(s)
    BY DEF SettleInv
  <2>2. sweepAt(s, "deciding") => ~holds(w)
    BY DEF LicenceInv, SweepHoldsLicence
  <2> QED BY <2>1, <2>2 DEF SweepSettles, sweepAt
<1>3. \A c \in Request : RequestSettles(c)'
  BY DEF SettleInv, RequestSettles
<1>4. settlement' # "none" => Final'
  BY DEF SettleInv
<1> QED BY <1>1, <1>2, <1>3, <1>4 DEF SettleInv

LEMMA WorkerSettling ==
    ASSUME Orderly, Answering, TypeOK, LicenceInv, WorkInv, KeptInv, SettleInv,
           NEW w \in Worker, WorkerStep(w)
    PROVE  SettleInv'
<1>0. /\ row \in Row /\ worker \in [Worker -> WorkerState] /\ row.status \in JobStatus
      /\ row.attempts \in Nat /\ attempt(w) \in Nat /\ worker[w].category \in ErrorCategory
  BY LocalsAreTyped DEF TypeOK, Row
<1>1. HolderKeeps(w) /\ LocalsKeep(w) /\ WorkerSettles(w)
  BY DEF WorkInv, SettleInv
<1>2. UNCHANGED <<sweep, request>>
  BY DEF WorkerStep, Pull, Claim, Begin, DeadLetter, StopBeforeWork, RecordStage,
         PollCancel, ProcessSucceeds, ProcessFails, StoreOutput, RecordFile, CompleteJob,
         DiscardOutput, DisputeRefusal, CleanUp, OwnFailure, MarkCancelled, FailJob,
         HandlerThrows, CountThrow, RetryRead, RetryWrite,
         RetryClearFlag, RetryDeliver, RetryUndo, SettleOutcome, Leave
<1>3. Final => Final' /\ (row.status \in Ended => row'.status \in Ended)
  BY FinalStays DEF Next
\* What a closing worker leaves behind: nobody else holds, so an ended job is final.
<1>4. ASSUME holds(w), \A v \in Worker : v # w => worker'[v] = worker[v], ~holds(w)',
             row'.status \in Ended
      PROVE  Final'
  BY <1>4 DEF LicenceInv, OneHolder, Final, holds, isTerminal, TERMINAL_STATUSES, Ended
<1>5. at(w, "keeping") => Final
  BY DEF KeptInv, KeepersPublished, Publication, Final, WorkInv, HolderKeeps, Ended, isTerminal,
         TERMINAL_STATUSES
<1>6. row.status = "running" => mayMove("completed", "ordinary") /\ mayMove("failed", "ordinary")
                                /\ mayMove("cancelled", "ordinary")
  BY DEF mayMove, isTransitionAllowed, ALLOWED_TRANSITIONS, JobStatus
<1> USE DEF at
\* The steps that move only the worker, to a place that asserts nothing new.
<1>7. ASSUME UNCHANGED <<row, settlement>>, \A v \in Worker : v # w => worker'[v] = worker[v],
             worker'[w].pc \notin {"undoing", "reverting", "discarding", "disputing",
                                   "cancelling", "failing", "refunding"}
      PROVE  SettleInv'
  BY <1>2, <1>3, <1>7, WorkersSettle DEF WorkerSettles
<1>8. CASE Pull(w)
  BY <1>0, <1>7, <1>8, PullingHolds DEF Pull
<1>9. CASE Claim(w)
  <2>1. CASE mayMove("running", "ordinary") /\ row' = toStatus("running") /\ goto(w, "claimed")
    <3>1. row.status = "queued" /\ row'.attempts = row.attempts
      BY <1>0, <2>1, Moves, StatusWrites DEF JobStatus
    <3>2. \A v \in Worker : ~holds(v)
      BY <3>1 DEF LicenceInv, WaitingIsFree
    <3>3. /\ worker'[w].pc = "claimed" /\ UNCHANGED settlement
          /\ \A v \in Worker : v # w => worker'[v] = worker[v]
      BY <1>0, <1>9, <2>1, GotoHolds DEF Claim, WorkerPc
    <3> QED BY <1>2, <1>3, <3>1, <3>2, <3>3, WorkersSettle DEF WorkerSettles
  <2>2. CASE UNCHANGED row /\ becomes(w, IdleWorker)
    BY <1>0, <1>7, <1>9, <2>2, IdlingHolds DEF Claim
  <2> QED BY <1>9, <2>1, <2>2 DEF Claim
<1>10. CASE Begin(w) \/ PollCancel(w) \/ CleanUp(w)
  BY <1>0, <1>7, <1>10, GotoHolds DEF Begin, PollCancel, CleanUp, WorkerPc
<1>11. CASE DeadLetter(w) \/ StopBeforeWork(w)
  <2>1. /\ worker'[w].pc = "leaving" /\ holds(w) /\ UNCHANGED settlement
        /\ \A v \in Worker : v # w => worker'[v] = worker[v]
    BY <1>0, <1>11, ClosingHolds DEF DeadLetter, StopBeforeWork, WorkerPc, holds, Holding, Running
  <2> QED BY <1>2, <1>3, <2>1, WorkersSettle DEF WorkerSettles
<1>12. CASE RecordStage(w)
  BY <1>0, <1>2, <1>3, <1>12, WorkersSettle
     DEF RecordStage, WorkerSettles, holds, Holding, Running
<1>13. CASE ProcessSucceeds(w) \/ ProcessFails(w)
  BY <1>0, <1>7, <1>13, GotoHolds, FailingHolds
     DEF ProcessSucceeds, ProcessFails, WorkerPc, ErrorCategory
<1>14. CASE StoreOutput(w)
  BY <1>0, <1>7, <1>14, GotoHolds DEF StoreOutput, WorkerPc, Answering
<1>15. CASE RecordFile(w)
  BY <1>0, <1>7, <1>15, UploadHolds DEF RecordFile, WorkerPc, Answering
<1>16. CASE CompleteJob(w)
  <2>1. holds(w) /\ UNCHANGED settlement
    BY <1>16 DEF CompleteJob, holds, Holding, Running
  <2>2. CASE closing(w, "keeping")
    BY <1>0, <1>2, <1>3, <2>1, <2>2, ClosingHolds, WorkersSettle DEF WorkerSettles, WorkerPc
  <2>3. CASE ~publishable(w) /\ UNCHANGED row /\ goto(w, "discarding")
    BY <1>0, <1>2, <1>3, <1>6, <2>1, <2>3, GotoHolds, WorkersSettle
       DEF WorkerSettles, WorkerPc, publishable, fenced
  <2> QED BY <1>16, <2>2, <2>3 DEF CompleteJob, Answering
<1>17. CASE DiscardOutput(w)
  BY <1>0, <1>1, <1>2, <1>3, <1>17, UploadHolds, WorkersSettle
     DEF DiscardOutput, WorkerSettles, WorkerPc, fenced
<1>18. CASE DisputeRefusal(w)
  <2>1. holds(w) /\ UNCHANGED <<row, settlement>>
    BY <1>18 DEF DisputeRefusal, holds, Holding, Running
  <2>2. CASE ownsAttempt(w) /\ closing(w, "refunding")
    <3>1. row.status \in Ended
      BY <1>1, <1>18, <2>1, <2>2
         DEF HolderKeeps, WorkerSettles, ownsAttempt, DisputeRefusal, isTerminal, TERMINAL_STATUSES
    <3>2. /\ worker'[w].pc = "refunding" /\ ~holds(w)'
          /\ \A v \in Worker : v # w => worker'[v] = worker[v]
      BY <1>0, <2>2, ClosingHolds DEF WorkerPc, holds, Holding, Running
    <3> QED BY <1>2, <1>3, <1>4, <2>1, <3>1, <3>2, WorkersSettle DEF WorkerSettles
  <2>3. CASE closing(w, "leaving")
    BY <1>0, <1>7, <2>1, <2>3, ClosingHolds DEF WorkerPc
  <2> QED BY <1>18, <2>2, <2>3 DEF DisputeRefusal
<1>19. CASE OwnFailure(w)
  <2>1. holds(w) /\ UNCHANGED <<row, settlement>>
    BY <1>19 DEF OwnFailure, holds, Holding, Running
  <2>2. CASE ownsAttempt(w)
    <3>1. row.status = "running" => fenced(w)
      BY <2>2 DEF ownsAttempt, isTerminal, TERMINAL_STATUSES
    <3>2. /\ worker'[w].pc \in {"cancelling", "failing"} /\ worker'[w].base = worker[w].base
          /\ \A v \in Worker : v # w => worker'[v] = worker[v]
      BY <1>0, <1>19, <2>2, GotoHolds DEF OwnFailure, WorkerPc
    <3> QED BY <1>2, <1>3, <2>1, <3>1, <3>2, WorkersSettle DEF WorkerSettles, fenced
  <2>3. CASE closing(w, "leaving")
    BY <1>0, <1>7, <2>1, <2>3, ClosingHolds DEF WorkerPc
  <2> QED BY <1>19, <2>2, <2>3 DEF OwnFailure
<1>20. CASE MarkCancelled(w) \/ FailJob(w)
  <2>1. holds(w) /\ UNCHANGED settlement
    BY <1>20 DEF MarkCancelled, FailJob, holds, Holding, Running
  <2>2. row'.status \in Ended
    <3>1. row.status = "running" => fenced(w)
      BY <1>1, <1>20 DEF WorkerSettles, MarkCancelled, FailJob
    <3>2. row.status \in {"running"} \cup Ended
      BY <1>1, <2>1 DEF HolderKeeps
    <3>3. /\ ended("cancelled", attempt(w), "cancelled").status = "cancelled"
          /\ ended("failed", attempt(w), worker[w].category).status = "failed"
      BY <1>0, OutcomeWrites DEF JobStatus, ErrorCategory
    <3> QED BY <1>6, <1>20, <3>1, <3>2, <3>3 DEF MarkCancelled, FailJob, Ended
  <2>3. /\ worker'[w].pc \in {"rereading", "refunding"}
        /\ \A v \in Worker : v # w => worker'[v] = worker[v]
    BY <1>0, <1>20, GotoHolds, ClosingHolds DEF MarkCancelled, FailJob, WorkerPc, Answering
  <2>4. worker'[w].pc = "refunding" => Final'
    BY <1>4, <2>1, <2>2, <2>3 DEF holds, Holding, Running
  <2> QED BY <1>2, <1>3, <2>1, <2>2, <2>3, <2>4, WorkersSettle DEF WorkerSettles
<1>21. ~HandlerThrows(w) /\ ~CountThrow(w) /\ ~RetryUndo(w)
  BY <1>1 DEF HandlerThrows, CountThrow, RetryUndo, Answering, LocalsKeep, WorkerSettles
<1>22. CASE RetryRead(w) \/ RetryWrite(w)
  <2>1. holds(w) /\ row.status \in Ended /\ UNCHANGED settlement
    BY <1>1, <1>22 DEF RetryRead, RetryWrite, holds, Holding, HolderKeeps, LicenceInv, RetriesOnlyEnded
  <2>2. CASE closing(w, "refunding") /\ UNCHANGED row
    <3>1. /\ worker'[w].pc = "refunding" /\ ~holds(w)'
          /\ \A v \in Worker : v # w => worker'[v] = worker[v]
      BY <1>0, <2>2, ClosingHolds DEF WorkerPc, holds, Holding, Running
    <3> QED BY <1>2, <1>3, <1>4, <2>1, <2>2, <3>1, WorkersSettle DEF WorkerSettles
  <2>3. CASE RetryRead(w) /\ ~closing(w, "refunding")
    BY <1>0, <1>7, <2>1, <2>3, RereadingHolds DEF RetryRead
  <2>4. CASE goto(w, "clearing")
    BY <1>0, <1>2, <1>3, <2>1, <2>4, GotoHolds, WorkersSettle DEF WorkerSettles, WorkerPc
  <2> QED BY <1>22, <2>2, <2>3, <2>4 DEF RetryRead, RetryWrite
<1>23. CASE RetryClearFlag(w) \/ RetryDeliver(w)
  BY <1>0, <1>7, <1>23, GotoHolds, ClosingHolds DEF RetryClearFlag, RetryDeliver, WorkerPc, Answering
<1>24. CASE SettleOutcome(w)
  <2>1. Final /\ UNCHANGED row
    BY <1>1, <1>5, <1>24 DEF SettleOutcome, WorkerSettles
  <2>2. /\ worker'[w].pc = "leaving"
        /\ \A v \in Worker : v # w => worker'[v] = worker[v]
    BY <1>0, <1>24, ClosingHolds DEF SettleOutcome, WorkerPc
  <2> QED BY <1>2, <1>3, <2>1, <2>2, WorkersSettle DEF WorkerSettles
<1>25. CASE Leave(w)
  BY <1>0, <1>7, <1>25, IdlingHolds DEF Leave
<1> QED BY <1>8, <1>9, <1>10, <1>11, <1>12, <1>13, <1>14, <1>15, <1>16, <1>17, <1>18, <1>19, <1>20,
           <1>21, <1>22, <1>23, <1>24, <1>25 DEF WorkerStep

\* A step of a sweep, a request or the world changes the row while nobody holds the
\* job, or leaves the count and runs nothing.
LEMMA OthersSettle ==
    ASSUME SettleInv, UNCHANGED worker,
           \/ row'.attempts = row.attempts /\ (row'.status = "running" => row.status = "running")
           \/ \A w \in Worker : ~holds(w),
           Final => Final' /\ (row.status \in Ended => row'.status \in Ended),
           \A s \in Sweeper : SweepSettles(s)',
           \A c \in Request : RequestSettles(c)',
           settlement' = settlement \/ Final
    PROVE  SettleInv'
<1>1. ASSUME NEW v \in Worker
      PROVE  WorkerSettles(v)'
  <2>1. WorkerSettles(v)
    BY DEF SettleInv
  <2>2. worker[v].pc \in {"discarding", "disputing", "cancelling", "failing"} => holds(v)
    BY DEF holds, Holding, Running
  <2> QED BY <2>1, <2>2 DEF WorkerSettles, at, fenced
<1> QED BY <1>1 DEF SettleInv

LEMMA SweepSettling ==
    ASSUME Orderly, Answering, TypeOK, LicenceInv, WorkInv, SettleInv,
           NEW s \in Sweeper, SweepStep(s)
    PROVE  SettleInv'
<1>0. /\ row \in Row /\ sweep \in [Sweeper -> SweepState] /\ UNCHANGED <<worker, request>>
      /\ charged(s) \in Nat
  BY SweepSteps
     DEF TypeOK, SweepStep, ListStale, RecoverCancelled, RecoverSpent, RecoverRequeue,
         RecoverTerminal, SweepDeliver, SweepUndo, SweepSettle, SweepPc
<1>1. Final => Final' /\ (row.status \in Ended => row'.status \in Ended)
  BY FinalStays DEF Next
<1>2. SweepSettles(s) /\ \A c \in Request : RequestSettles(c)'
  BY <1>0 DEF SettleInv, RequestSettles
<1>3. sweepAt(s, "deciding") => \A w \in Worker : ~holds(w)
  BY DEF LicenceInv, SweepHoldsLicence
<1>4. \A t \in Sweeper : t = s
  BY DEF Orderly
\* Only this sweep's own facts are left to show.
<1>5. ASSUME \/ UNCHANGED row
             \/ sweepAt(s, "deciding"),
             SweepSettles(s)', settlement' = settlement \/ Final
      PROVE  SettleInv'
  BY <1>0, <1>1, <1>2, <1>3, <1>4, <1>5, OthersSettle
<1>6. CASE ListStale(s)
  <2>1. sweep'[s] = [pc |-> "deciding", seen |-> row]
    BY <1>0, <1>6 DEF ListStale, sweepBecomes
  <2> QED BY <1>5, <1>6, <2>1 DEF ListStale, SweepSettles, sweepAt
<1>7. CASE sweepEnds(s) /\ UNCHANGED row /\ (settlement' = settlement \/ Final)
  BY <1>0, <1>5, <1>7, SweepSteps DEF SweepSettles, sweepAt, SweepPc
<1>8. ASSUME NEW to \in Ended, NEW category \in ErrorCategory,
             sweepAt(s, "deciding"), RecoverTerminal(s, to, category)
      PROVE  SettleInv'
  <2>1. CASE row' = ended(to, charged(s), category) /\ sweepTo(s, "refunding")
    <3>1. row'.status = to
      BY <1>0, <2>1, OutcomeWrites DEF JobStatus, Ended
    <3>2. sweep'[s].pc = "refunding"
      BY <1>0, <2>1, SweepSteps DEF SweepPc
    <3>3. Final'
      BY <1>0, <1>3, <1>8, <3>1 DEF Final, holds, isTerminal, TERMINAL_STATUSES, Ended
    <3> QED BY <1>5, <1>8, <3>1, <3>2, <3>3 DEF SweepSettles, sweepAt, RecoverTerminal
  <2> QED BY <1>7, <1>8, <2>1 DEF RecoverTerminal
<1>9. CASE RecoverCancelled(s) \/ RecoverSpent(s)
  BY <1>8, <1>9 DEF RecoverCancelled, RecoverSpent, ErrorCategory, Ended
<1>10. CASE RecoverRequeue(s)
  <2>1. CASE sweepTo(s, "delivering")
    <3>1. sweep'[s].pc = "delivering"
      BY <1>0, <2>1, SweepSteps DEF SweepPc
    <3> QED BY <1>5, <1>10, <3>1 DEF SweepSettles, sweepAt, RecoverRequeue
  <2> QED BY <1>7, <1>10, <2>1 DEF RecoverRequeue
<1>11. CASE SweepDeliver(s) \/ SweepSettle(s)
  BY <1>2, <1>7, <1>11 DEF SweepDeliver, SweepSettle, SweepSettles, Answering
<1>12. ~SweepUndo(s)
  BY <1>2 DEF SweepUndo, SweepSettles, sweepAt
<1> QED BY <1>6, <1>9, <1>10, <1>11, <1>12 DEF SweepStep

LEMMA RequestSettling ==
    ASSUME Orderly, Answering, TypeOK, LicenceInv, WorkInv, SettleInv,
           NEW c \in Request, RequestStep(c)
    PROVE  SettleInv'
<1>0. /\ row \in Row /\ request \in [Request -> RequestState]
      /\ UNCHANGED <<worker, sweep, settlement>>
  BY DEF TypeOK, RequestStep, RequestContinues, QueueJob, CancelRead, UserRetryRead,
         CancelOutright, RequestCancel, Flag, ConfirmLatest, UserRetryWrite,
         UserRetryClearFlag, RequestDeliver, RequestUndo
<1>1. Final => Final' /\ (row.status \in Ended => row'.status \in Ended)
  BY FinalStays DEF Next
<1>2. ~UserRetryRead(c) /\ ~UserRetryWrite(c)
  BY DEF Orderly, UserRetryRead, UserRetryWrite, LicenceInv, NoUserRetry
<1>3. ~RequestUndo(c)
  BY DEF SettleInv, RequestSettles, RequestUndo, reqAt
<1>4. \A d \in Request : RequestSettles(d)'
  <2> SUFFICES /\ \A d \in Request : d # c => request'[d] = request[d]
               /\ RequestSettles(c)'
    BY DEF SettleInv, RequestSettles
  <2>1. CASE QueueJob(c)
    <3>1. ended("failed", row.attempts, "retryable") \in Row
      BY <1>0, OutcomeWrites DEF Row, JobStatus, ErrorCategory
    <3> QED BY <1>0, <2>1, <3>1, RequestSteps DEF QueueJob, RequestPc, RequestSettles
  <2>2. CASE CancelRead(c)
    BY <1>0, <2>2, RequestSteps DEF CancelRead, RequestPc, RequestSettles
  <2>3. CASE CancelOutright(c) \/ RequestCancel(c) \/ Flag(c)
    BY <1>0, <2>3, RequestSteps DEF CancelOutright, RequestCancel, Flag, RequestPc, RequestSettles
  <2>4. CASE ConfirmLatest(c) \/ UserRetryClearFlag(c) \/ RequestDeliver(c)
    BY <1>0, <2>4, RequestSteps
       DEF ConfirmLatest, UserRetryClearFlag, RequestDeliver, RequestPc, RequestSettles, Answering
  <2> QED BY <1>2, <1>3, <2>1, <2>2, <2>3, <2>4 DEF RequestStep, RequestContinues
<1>5. /\ row'.attempts = row.attempts
      /\ row'.status = "running" => row.status = "running"
  <2>1. CASE QueueJob(c)
    BY <1>0, <2>1, StatusWrites DEF QueueJob, JobStatus
  <2>2. CASE CancelOutright(c)
    BY <1>0, <2>2, CancelWrites DEF CancelOutright
  <2>3. CASE RequestCancel(c)
    BY <1>0, <2>3, WishWrites DEF RequestCancel
  <2>4. CASE UNCHANGED row
    BY <2>4
  <2> QED BY <1>2, <1>3, <2>1, <2>2, <2>3, <2>4
          DEF RequestStep, RequestContinues, CancelRead, Flag, ConfirmLatest,
              UserRetryClearFlag, RequestDeliver
<1>6. \A s \in Sweeper : SweepSettles(s)'
  BY <1>0, <1>1, <1>5 DEF SettleInv, SweepSettles, sweepAt
<1> QED BY <1>0, <1>1, <1>4, <1>5, <1>6, OthersSettle

LEMMA WorldSettling ==
    ASSUME Orderly, TypeOK, LicenceInv, WorkInv, SettleInv,
           LeaseExpires \/ TTLPasses \/ ExpireJob \/ Crash
    PROVE  SettleInv'
<1>0. row \in Row /\ worker \in [Worker -> WorkerState] /\ UNCHANGED settlement
  BY DEF TypeOK, LeaseExpires, TTLPasses, ExpireJob, Crash, CrashStandalone, CrashSweep, CrashWeb
<1>1. Final => Final' /\ (row.status \in Ended => row'.status \in Ended)
  BY FinalStays DEF Next
<1>2. CASE LeaseExpires \/ TTLPasses \/ ExpireJob
  <2>1. /\ row'.attempts = row.attempts
        /\ row'.status = "running" => row.status = "running"
        /\ UNCHANGED <<worker, sweep, request>>
    BY <1>0, <1>2, LeaseWrites, StatusWrites DEF LeaseExpires, TTLPasses, ExpireJob, JobStatus
  <2>2. \A s \in Sweeper : SweepSettles(s)'
    BY <1>1, <2>1 DEF SettleInv, SweepSettles, sweepAt
  <2>3. \A c \in Request : RequestSettles(c)'
    BY <2>1 DEF SettleInv, RequestSettles
  <2> QED BY <1>0, <1>1, <2>1, <2>2, <2>3, OthersSettle
<1>3. CASE Crash
  <2>1. UNCHANGED row
    BY <1>3 DEF Crash, CrashStandalone, CrashSweep, CrashWeb
  <2>2. \A w \in Worker : worker'[w] = worker[w] \/ worker'[w].pc = "idle"
    <3>1. CASE \E v \in Worker : CrashStandalone(v)
      BY <1>0, <3>1, IdlingHolds DEF CrashStandalone
    <3>2. CASE \E s \in Sweeper : CrashSweep(s)
      BY <3>2 DEF CrashSweep
    <3>3. CASE CrashWeb
      BY <1>0, <3>3 DEF CrashWeb, IdleWorker
    <3> QED BY <1>3, <3>1, <3>2, <3>3 DEF Crash
  <2>3. \A s \in Sweeper : sweep'[s] = sweep[s] \/ sweep'[s].pc = "idle"
    <3>1. CASE \E t \in Sweeper : CrashSweep(t)
      BY <3>1, SweepSteps DEF CrashSweep, TypeOK, SweepPc
    <3> QED BY <1>3, <3>1 DEF Crash, CrashStandalone, CrashWeb, Idle, TypeOK
  <2>4. \A c \in Request : request'[c] = request[c] \/ request'[c].pc = "idle"
    BY <1>3 DEF Crash, CrashStandalone, CrashSweep, CrashWeb, Idle
  <2>5. ASSUME NEW w \in Worker
        PROVE  WorkerSettles(w)'
    BY <1>1, <2>1, <2>2 DEF SettleInv, WorkerSettles, at, fenced
  <2>6. ASSUME NEW s \in Sweeper
        PROVE  SweepSettles(s)'
    BY <1>1, <2>1, <2>3 DEF SettleInv, SweepSettles, sweepAt
  <2>7. ASSUME NEW c \in Request
        PROVE  RequestSettles(c)'
    BY <2>4 DEF SettleInv, RequestSettles
  <2> QED BY <1>0, <1>1, <2>5, <2>6, <2>7 DEF SettleInv
<1> QED BY <1>2, <1>3

LEMMA EndIsSettled == ASSUME Orderly, Answering PROVE Spec => []SettleInv
<1>1. Init => SettleInv
  BY DEF Init, SettleInv, WorkerSettles, SweepSettles, RequestSettles, IdleWorker, Idle, at, sweepAt
<1>2. TypeOK /\ LicenceInv /\ WorkInv /\ KeptInv /\ SettleInv /\ [Next]_vars => SettleInv'
  <2> SUFFICES ASSUME TypeOK, LicenceInv, WorkInv, KeptInv, SettleInv, [Next]_vars
               PROVE  SettleInv'
    OBVIOUS
  <2>1. CASE UNCHANGED vars
    BY <2>1 DEF vars, SettleInv, WorkerSettles, SweepSettles, RequestSettles, Final, holds, at,
                sweepAt, fenced
  <2>2. CASE \E w \in Worker : WorkerStep(w)
    BY <2>2, WorkerSettling
  <2>3. CASE \E s \in Sweeper : SweepStep(s)
    BY <2>3, SweepSettling
  <2>4. CASE \E c \in Request : RequestStep(c)
    BY <2>4, RequestSettling
  <2>5. CASE LeaseExpires \/ TTLPasses \/ ExpireJob \/ Crash
    BY <2>5, WorldSettling
  <2> QED BY <2>1, <2>2, <2>3, <2>4, <2>5 DEF Next
<1>3. ~StoreFaults
  BY DEF Answering
<1> QED BY <1>1, <1>2, <1>3, Typing, LicenceIsExclusive, WorkIsKept, KeepersArePublished, PTL DEF Spec

\* A worker charges at most the attempt it is fenced by, or leaves the count.
LEMMA WorkersCount ==
    ASSUME TypeOK, WorkInv, NEW w \in Worker, WorkerStep(w)
    PROVE  row'.attempts >= row.attempts
<1>0. /\ row \in Row /\ row.attempts \in Nat /\ worker[w].seen \in Row
      /\ attempt(w) \in Nat /\ worker[w].category \in ErrorCategory
  BY LocalsAreTyped DEF TypeOK, Row
<1>1. CASE UNCHANGED row
  BY <1>0, <1>1
<1>2. CASE Claim(w) \/ DeadLetter(w) \/ StopBeforeWork(w)
  BY <1>0, <1>1, <1>2, StatusWrites DEF Claim, DeadLetter, StopBeforeWork, written, JobStatus
<1>3. CASE RecordStage(w)
  BY <1>0, <1>3, LeaseWrites DEF RecordStage
<1>4. fenced(w) => attempt(w) >= row.attempts
  BY <1>0 DEF fenced, attempt
<1>5. CASE CompleteJob(w)
  BY <1>0, <1>1, <1>4, <1>5, OutcomeWrites
     DEF CompleteJob, publishable, published, JobStatus, ErrorCategory
<1>6. CASE MarkCancelled(w) \/ FailJob(w)
  BY <1>0, <1>1, <1>4, <1>6, OutcomeWrites DEF MarkCancelled, FailJob, JobStatus, ErrorCategory
<1>7. ~CountThrow(w)
  BY DEF WorkInv, LocalsKeep, CountThrow
<1>8. CASE RetryWrite(w)
  BY <1>0, <1>1, <1>8, RetryWrites DEF RetryWrite
<1>9. CASE RetryUndo(w)
  BY <1>0, <1>1, <1>9, RestoringWrites DEF RetryUndo, written
<1> QED BY <1>1, <1>2, <1>3, <1>5, <1>6, <1>7, <1>8, <1>9
        DEF WorkerStep, Pull, Begin, PollCancel, ProcessSucceeds, ProcessFails, StoreOutput,
            RecordFile, DiscardOutput, DisputeRefusal, CleanUp, OwnFailure, HandlerThrows,
            RetryRead, RetryClearFlag, RetryDeliver, SettleOutcome, Leave

LEMMA OthersCount ==
    ASSUME TypeOK, SettleInv,
           \/ \E s \in Sweeper : SweepStep(s)
           \/ \E c \in Request : RequestStep(c)
           \/ LeaseExpires \/ TTLPasses \/ ExpireJob \/ Crash
    PROVE  row'.attempts >= row.attempts
<1>0. /\ row \in Row /\ row.attempts \in Nat /\ sweep \in [Sweeper -> SweepState]
      /\ request \in [Request -> RequestState]
  BY DEF TypeOK, Row
<1>1. CASE UNCHANGED row
  BY <1>0, <1>1
<1>2. ASSUME NEW s \in Sweeper, SweepStep(s)
      PROVE  row'.attempts >= row.attempts
  <2>1. charged(s) \in Nat /\ ~SweepUndo(s)
    BY <1>0, SweepSteps DEF SettleInv, SweepSettles, SweepUndo, sweepAt, SweepPc
  <2>2. sweepAt(s, "deciding") => charged(s) >= row.attempts
    BY <1>0 DEF SettleInv, SweepSettles, charged
  <2>3. CASE RecoverCancelled(s) \/ RecoverSpent(s)
    BY <1>0, <1>1, <2>1, <2>2, <2>3, OutcomeWrites
       DEF RecoverCancelled, RecoverSpent, RecoverTerminal, JobStatus, ErrorCategory
  <2>4. CASE RecoverRequeue(s)
    BY <1>0, <1>1, <2>1, <2>2, <2>4, RequeueWrites DEF RecoverRequeue
  <2> QED BY <1>1, <1>2, <2>1, <2>3, <2>4 DEF SweepStep, ListStale, SweepDeliver, SweepSettle
<1>3. ASSUME NEW c \in Request, RequestStep(c)
      PROVE  row'.attempts >= row.attempts
  <2>1. request[c].seen \in Row
    BY <1>0, RequestSteps DEF RequestPc
  <2>2. CASE QueueJob(c)
    BY <1>0, <2>2, StatusWrites DEF QueueJob, JobStatus
  <2>3. CASE CancelOutright(c)
    <3>1. CASE row' = [ended("cancelled", row.attempts, "cancelled") EXCEPT !.cancelRequested = TRUE]
      BY <1>0, <3>1, CancelWrites
    <3> QED BY <1>1, <2>3, <3>1 DEF CancelOutright
  <2>4. CASE RequestCancel(c)
    BY <1>0, <2>4, WishWrites DEF RequestCancel
  <2>5. CASE UserRetryWrite(c)
    BY <1>0, <1>1, <2>5, RetryWrites DEF UserRetryWrite
  <2>6. CASE RequestUndo(c)
    BY <1>0, <1>1, <2>1, <2>6, RestoringWrites DEF RequestUndo, written
  <2> QED BY <1>1, <1>3, <2>2, <2>3, <2>4, <2>5, <2>6
          DEF RequestStep, RequestContinues, CancelRead, UserRetryRead, Flag, ConfirmLatest,
              UserRetryClearFlag, RequestDeliver
<1>4. CASE LeaseExpires \/ ExpireJob
  <2>1. CASE LeaseExpires
    BY <1>0, <2>1, LeaseWrites DEF LeaseExpires
  <2>2. CASE ExpireJob
    BY <1>0, <2>2, StatusWrites DEF ExpireJob, JobStatus
  <2> QED BY <1>4, <2>1, <2>2
<1>5. CASE TTLPasses \/ Crash
  BY <1>1, <1>5 DEF TTLPasses, Crash, CrashStandalone, CrashSweep, CrashWeb
<1> QED BY <1>2, <1>3, <1>4, <1>5

\* No retry, recovery, rollback or crash lowers the attempt count, which is at once the
\* budget and the fence of every write a worker makes.
THEOREM CountNeverFalls == ASSUME Orderly, Answering PROVE Spec => AttemptsNeverFall
<1>1. TypeOK /\ WorkInv /\ SettleInv /\ [Next]_vars => [row'.attempts >= row.attempts]_vars
  <2> SUFFICES ASSUME TypeOK, WorkInv, SettleInv, [Next]_vars
               PROVE  [row'.attempts >= row.attempts]_vars
    OBVIOUS
  <2>1. CASE Next
    BY <2>1, WorkersCount, OthersCount DEF Next
  <2> QED BY <2>1
<1>2. ~StoreFaults
  BY DEF Answering
<1> QED BY <1>1, <1>2, Typing, WorkIsKept, EndIsSettled, PTL DEF Spec, AttemptsNeverFall

--------------------------------------------------------------------------------
(* The refinement: every step is a step of the contract, or none.             *)

LEMMA Phases ==
    ASSUME row \in Row
    PROVE  /\ Phase = "published" <=> row.status = "completed"
           /\ Phase = "expired" <=> row.status = "expired"
           /\ Phase = "over" <=> row.status \in Ended
           /\ Phase = "pending" <=> row.status \in {"created", "queued", "running"}
<1>1. row.status \in JobStatus
  BY DEF Row
<1> QED BY <1>1 DEF Phase, JobStatus, Ended

\* What one step may do to the three things the contract speaks of: settle once, touch
\* the output of a job that is not published, or move the job on.
ContractStep ==
    \/ UNCHANGED <<settlement, output>> /\ row'.status = row.status
    \/ UNCHANGED <<settlement, row>> /\ Phase # "published"
    \/ /\ UNCHANGED <<row, output>> /\ settlement = "none"
       /\ \/ settlement' = "kept" /\ Phase \in {"published", "expired"}
          \/ settlement' = "refunded" /\ Phase = "over"
    \/ /\ UNCHANGED <<settlement, output>>
       /\ \/ Phase = "pending" /\ Phase' \in {"pending", "over", "expired"}
          \/ Phase = "pending" /\ output /\ Phase' = "published"
          \/ Phase = "published" /\ Phase' = "expired"
          \/ Phase = "over" /\ Phase' = "pending" /\ settlement = "none"

LEMMA ContractSteps ==
    ASSUME TypeOK, TypeOK', ContractStep
    PROVE  [Contract!Next]_(Contract!vars)
<1>1. row'.status = row.status => Phase' = Phase
  BY DEF Phase
<1>2. row' = row => Phase' = Phase
  BY DEF Phase
<1>3. output' \in BOOLEAN
  BY DEF TypeOK
<1> QED BY <1>1, <1>2, <1>3
        DEF ContractStep, Contract!Next, Contract!vars, Contract!Draft, Contract!Publish,
            Contract!GiveUp, Contract!Reopen, Contract!Expire, Contract!Keep, Contract!Refund

\* From where the moves that matter to the owner are granted.
LEMMA MovesOfContract ==
    ASSUME row \in Row
    PROVE  /\ \A to \in {"running", "failed", "cancelled", "completed"} :
                mayMove(to, "ordinary") => Phase = "pending"
           /\ mayMove("queued", "recover") => Phase = "pending"
           /\ mayMove("queued", "retry") => Phase \in {"pending", "over"}
<1>1. row.status \in JobStatus
  BY DEF Row
<1> QED BY <1>1 DEF mayMove, isTransitionAllowed, ALLOWED_TRANSITIONS, RETRYABLE_FROM,
                    RECOVERABLE_FROM, JobStatus, Phase

LEMMA WorkersKeepContract ==
    ASSUME Orderly, Answering, TypeOK, TypeOK', LicenceInv, WorkInv, KeptInv, SettleInv,
           NEW w \in Worker, WorkerStep(w)
    PROVE  ContractStep
<1>0. /\ row \in Row /\ row' \in Row /\ attempt(w) \in Nat
      /\ worker[w].category \in ErrorCategory
  BY LocalsAreTyped DEF TypeOK
<1>1. HolderKeeps(w) /\ LocalsKeep(w) /\ WorkerSettles(w)
  BY DEF WorkInv, SettleInv
<1>2. /\ Phase = "published" <=> row.status = "completed"
      /\ Phase = "expired" <=> row.status = "expired"
      /\ Phase = "over" <=> row.status \in Ended
      /\ Phase = "pending" <=> row.status \in {"created", "queued", "running"}
  BY <1>0, Phases
<1>3. /\ Phase' = "published" <=> row'.status = "completed"
      /\ Phase' = "expired" <=> row'.status = "expired"
      /\ Phase' = "over" <=> row'.status \in Ended
      /\ Phase' = "pending" <=> row'.status \in {"created", "queued", "running"}
  <2>1. row'.status \in JobStatus
    BY <1>0 DEF Row
  <2> QED BY <2>1 DEF Phase, JobStatus, Ended
<1>4. CASE UNCHANGED <<row, output, settlement>>
  BY <1>4 DEF ContractStep
<1>5. CASE StoreOutput(w) \/ DiscardOutput(w) \/ CleanUp(w)
  <2>1. holds(w) /\ UNCHANGED <<row, settlement>>
    BY <1>5 DEF StoreOutput, DiscardOutput, CleanUp, holds, Holding, Running, at
  <2> QED BY <1>1, <1>2, <2>1 DEF HolderKeeps, ContractStep, Ended
<1>6. CASE Claim(w)
  <2>1. CASE mayMove("running", "ordinary") /\ row' = toStatus("running")
    <3>1. row'.status = "running" /\ Phase = "pending"
      BY <1>0, <2>1, StatusWrites, MovesOfContract DEF JobStatus
    <3> QED BY <1>3, <1>6, <3>1 DEF Claim, ContractStep
  <2> QED BY <1>4, <1>6, <2>1 DEF Claim
<1>7. CASE DeadLetter(w) \/ StopBeforeWork(w)
  <2>1. row' = row \/ (row'.status \in Ended /\ Phase = "pending")
    BY <1>0, <1>7, StatusWrites, MovesOfContract
       DEF DeadLetter, StopBeforeWork, written, JobStatus, Ended
  <2>2. UNCHANGED <<output, settlement>>
    BY <1>7 DEF DeadLetter, StopBeforeWork
  <2> QED BY <1>3, <1>4, <2>1, <2>2 DEF ContractStep
<1>8. CASE RecordStage(w)
  BY <1>0, <1>8, LeaseWrites DEF RecordStage, ContractStep
<1>9. CASE CompleteJob(w)
  <2>1. CASE publishable(w) /\ row' = published(w)
    <3>1. row'.status = "completed" /\ Phase = "pending"
      BY <1>0, <2>1, OutcomeWrites, MovesOfContract DEF published, publishable, JobStatus, ErrorCategory
    <3>2. output /\ UNCHANGED <<output, settlement>>
      BY <1>1, <1>9 DEF HolderKeeps, CompleteJob, at
    <3> QED BY <1>3, <3>1, <3>2 DEF ContractStep
  <2> QED BY <1>4, <1>9, <2>1 DEF CompleteJob, Answering
<1>10. CASE MarkCancelled(w) \/ FailJob(w)
  <2>1. row' = row \/ (row'.status \in Ended /\ Phase = "pending")
    BY <1>0, <1>10, OutcomeWrites, MovesOfContract
       DEF MarkCancelled, FailJob, JobStatus, ErrorCategory, Ended
  <2>2. UNCHANGED <<output, settlement>>
    BY <1>10 DEF MarkCancelled, FailJob
  <2> QED BY <1>3, <1>4, <2>1, <2>2 DEF ContractStep
<1>11. ~CountThrow(w) /\ ~RetryUndo(w)
  BY <1>1 DEF CountThrow, RetryUndo, LocalsKeep, WorkerSettles, at
<1>12. CASE RetryWrite(w)
  <2>1. CASE mayMove("queued", "retry") /\ row' = retried
    <3>1. holds(w)
      BY <1>12 DEF RetryWrite, at, holds, Holding
    <3>2. settlement = "none"
      BY <3>1 DEF SettleInv, Final
    <3>3. row'.status = "queued"
      BY <1>0, <2>1, RetryWrites
    <3>4. Phase \in {"pending", "over"}
      BY <1>0, <2>1, MovesOfContract
    <3>5. UNCHANGED <<output, settlement>>
      BY <1>12 DEF RetryWrite
    <3> QED BY <1>3, <3>2, <3>3, <3>4, <3>5 DEF ContractStep
  <2> QED BY <1>4, <1>12, <2>1 DEF RetryWrite
<1>13. CASE SettleOutcome(w)
  <2>1. at(w, "keeping") => Phase \in {"published", "expired"}
    BY <1>2 DEF KeptInv, KeepersPublished, Publication
  <2>2. at(w, "refunding") => Phase = "over"
    BY <1>1, <1>2 DEF WorkerSettles
  <2> QED BY <1>4, <1>13, <2>1, <2>2 DEF SettleOutcome, settle, ContractStep
<1> QED BY <1>4, <1>5, <1>6, <1>7, <1>8, <1>9, <1>10, <1>11, <1>12, <1>13
        DEF WorkerStep, Pull, Begin, PollCancel, ProcessSucceeds, ProcessFails, RecordFile,
            DisputeRefusal, OwnFailure, HandlerThrows, RetryRead, RetryClearFlag,
            RetryDeliver, Leave

LEMMA OthersKeepContract ==
    ASSUME Orderly, TypeOK, TypeOK', LicenceInv, SettleInv,
           \/ \E s \in Sweeper : SweepStep(s)
           \/ \E c \in Request : RequestStep(c)
           \/ LeaseExpires \/ TTLPasses \/ ExpireJob \/ Crash
    PROVE  ContractStep
<1>0. /\ row \in Row /\ row' \in Row /\ sweep \in [Sweeper -> SweepState]
  BY DEF TypeOK
<1>1. /\ Phase = "published" <=> row.status = "completed"
      /\ Phase = "over" <=> row.status \in Ended
      /\ Phase = "pending" <=> row.status \in {"created", "queued", "running"}
  BY <1>0, Phases
<1>2. /\ Phase' = "expired" <=> row'.status = "expired"
      /\ Phase' = "over" <=> row'.status \in Ended
      /\ Phase' = "pending" <=> row'.status \in {"created", "queued", "running"}
  <2>1. row'.status \in JobStatus
    BY <1>0 DEF Row
  <2> QED BY <2>1 DEF Phase, JobStatus, Ended
<1>3. CASE UNCHANGED <<row, output, settlement>>
  BY <1>3 DEF ContractStep
<1>4. ASSUME NEW s \in Sweeper, SweepStep(s)
      PROVE  ContractStep
  <2>1. charged(s) \in Nat /\ SweepSettles(s)
    BY <1>0, SweepSteps DEF SettleInv, SweepPc
  <2>2. CASE RecoverCancelled(s) \/ RecoverSpent(s)
    <3>1. row' = row \/ (row'.status \in Ended /\ Phase = "pending")
      BY <1>0, <2>1, <2>2, OutcomeWrites, MovesOfContract
         DEF RecoverCancelled, RecoverSpent, RecoverTerminal, JobStatus, ErrorCategory, Ended
    <3>2. UNCHANGED <<output, settlement>>
      BY <2>2 DEF RecoverCancelled, RecoverSpent, RecoverTerminal
    <3> QED BY <1>2, <1>3, <3>1, <3>2 DEF ContractStep
  <2>3. CASE RecoverRequeue(s)
    <3>1. row' = row \/ (row'.status = "queued" /\ Phase = "pending")
      BY <1>0, <2>1, <2>3, RequeueWrites, MovesOfContract DEF RecoverRequeue
    <3>2. UNCHANGED <<output, settlement>>
      BY <2>3 DEF RecoverRequeue
    <3> QED BY <1>2, <1>3, <3>1, <3>2 DEF ContractStep
  <2>4. CASE SweepSettle(s)
    BY <1>1, <1>3, <2>1, <2>4 DEF SweepSettle, SweepSettles, settle, ContractStep
  <2>5. ~SweepUndo(s)
    BY <2>1 DEF SweepUndo, SweepSettles, sweepAt
  <2> QED BY <1>3, <1>4, <2>2, <2>3, <2>4, <2>5 DEF SweepStep, ListStale, SweepDeliver
<1>5. ASSUME NEW c \in Request, RequestStep(c)
      PROVE  ContractStep
  <2>1. ~UserRetryRead(c) /\ ~UserRetryWrite(c) /\ ~RequestUndo(c)
    BY DEF Orderly, UserRetryRead, UserRetryWrite, LicenceInv, NoUserRetry,
           SettleInv, RequestSettles, RequestUndo, reqAt
  <2>2. CASE QueueJob(c)
    <3>1. row'.status = "queued"
      BY <1>0, <2>2, StatusWrites DEF QueueJob, JobStatus
    <3> QED BY <1>1, <1>2, <2>2, <3>1 DEF QueueJob, ContractStep
  <2>3. CASE CancelOutright(c)
    <3>1. CASE mayMove("cancelled", "ordinary")
               /\ row' = [ended("cancelled", row.attempts, "cancelled") EXCEPT !.cancelRequested = TRUE]
      <4>1. row'.status = "cancelled" /\ Phase = "pending"
        BY <1>0, <3>1, CancelWrites, MovesOfContract
      <4> QED BY <1>2, <2>3, <4>1 DEF CancelOutright, ContractStep, Ended
    <3> QED BY <1>3, <2>3, <3>1 DEF CancelOutright
  <2>4. CASE RequestCancel(c)
    BY <1>0, <2>4, WishWrites DEF RequestCancel, ContractStep
  <2> QED BY <1>3, <1>5, <2>1, <2>2, <2>3, <2>4
          DEF RequestStep, RequestContinues, CancelRead, Flag, ConfirmLatest,
              UserRetryClearFlag, RequestDeliver
<1>6. CASE LeaseExpires
  BY <1>0, <1>6, LeaseWrites DEF LeaseExpires, ContractStep
<1>7. CASE ExpireJob
  <2>1. Phase \in {"pending", "published"}
    BY <1>0, <1>1, <1>7 DEF ExpireJob, EXPIRABLE_STATUSES, ALLOWED_TRANSITIONS, JobStatus
  <2>2. row'.status = "expired"
    BY <1>0, <1>7, StatusWrites DEF ExpireJob, JobStatus
  <2> QED BY <1>2, <1>7, <2>1, <2>2 DEF ExpireJob, ContractStep
<1>8. CASE TTLPasses \/ Crash
  BY <1>3, <1>8 DEF TTLPasses, Crash, CrashStandalone, CrashSweep, CrashWeb
<1> QED BY <1>4, <1>5, <1>6, <1>7, <1>8

\* The lifecycle, with its workers, sweeps, requests, crashes and expiring leases, is an
\* implementation of the owner's contract: results are published once and kept, quota is
\* decided once and as the outcome says, and a refunded job never runs again.
THEOREM LifecycleKeepsContract == ASSUME Orderly, Answering PROVE Spec => KeepsContract
<1>1. Init => Contract!Init
  BY DEF Init, NewRow, Phase, Contract!Init
<1>2. TypeOK /\ TypeOK' /\ LicenceInv /\ WorkInv /\ KeptInv /\ SettleInv /\ [Next]_vars
        => [Contract!Next]_(Contract!vars)
  <2> SUFFICES ASSUME TypeOK, TypeOK', LicenceInv, WorkInv, KeptInv, SettleInv, [Next]_vars
               PROVE  [Contract!Next]_(Contract!vars)
    OBVIOUS
  <2>1. CASE UNCHANGED vars
    BY <2>1, ContractSteps DEF vars, ContractStep
  <2>2. CASE \E w \in Worker : WorkerStep(w)
    BY <2>2, WorkersKeepContract, ContractSteps
  <2>3. CASE \/ \E s \in Sweeper : SweepStep(s)
             \/ \E c \in Request : RequestStep(c)
             \/ LeaseExpires \/ TTLPasses \/ ExpireJob \/ Crash
    BY <2>3, OthersKeepContract, ContractSteps
  <2> QED BY <2>1, <2>2, <2>3 DEF Next
<1>3. ~StoreFaults
  BY DEF Answering
<1> QED BY <1>1, <1>2, <1>3, Typing, LicenceIsExclusive, WorkIsKept, KeepersArePublished, EndIsSettled,
           PTL DEF Spec, KeepsContract, Contract!Spec

--------------------------------------------------------------------------------
(* Nothing is left behind: no assumption on leases, sweeps, queue or users.   *)

\* A worker that has stored an object and still has to publish or delete it.
carries(w) == worker[w].pc \in {"recording", "publishing", "discarding"}

\* The invariant that carries it: every object is published or somebody's to settle.
OutputIsAccounted == output => Publication \/ \E w \in Worker : carries(w)

LEMMA WorkerAccounts ==
    ASSUME ~StoreFaults, TypeOK, OutputIsAccounted, NEW w \in Worker, WorkerStep(w)
    PROVE  OutputIsAccounted'
<1>0. row \in Row /\ worker \in [Worker -> WorkerState] /\ attempt(w) \in Nat
  BY LocalsAreTyped DEF TypeOK
<1>1. Publication => Publication'
  BY WorkerKeepsPublication
<1>2. \A v \in Worker : v # w => worker'[v] = worker[v]
  BY KeepersWin
<1>3. CASE StoreOutput(w)
  BY <1>0, <1>3, GotoHolds DEF StoreOutput, OutputIsAccounted, carries, WorkerPc
<1>4. CASE RecordFile(w)
  BY <1>0, <1>4, UploadHolds DEF RecordFile, OutputIsAccounted, carries, WorkerPc
<1>5. CASE CompleteJob(w)
  <2>1. CASE publishable(w) /\ row' = published(w)
    <3>1. row'.status = "completed"
      BY <1>0, <2>1, OutcomeWrites DEF published, JobStatus, ErrorCategory
    <3> QED BY <3>1 DEF OutputIsAccounted, Publication
  <2>2. CASE goto(w, "discarding")
    BY <1>0, <2>2, GotoHolds DEF OutputIsAccounted, carries, WorkerPc
  <2> QED BY <1>5, <2>1, <2>2 DEF CompleteJob
<1>6. CASE DiscardOutput(w)
  BY <1>6 DEF DiscardOutput, OutputIsAccounted
<1>7. CASE CleanUp(w)
  <2>1. output' => output
    BY <1>7 DEF CleanUp, TypeOK
  <2>2. ~carries(w)
    BY <1>7 DEF CleanUp, carries, at
  <2> QED BY <1>1, <1>2, <2>1, <2>2 DEF OutputIsAccounted, carries
<1>8. CASE RecordStage(w)
  BY <1>1, <1>8 DEF RecordStage, OutputIsAccounted, carries
<1>9. CASE UNCHANGED output /\ ~carries(w)
  BY <1>1, <1>2, <1>9 DEF OutputIsAccounted, carries
<1> QED BY <1>3, <1>4, <1>5, <1>6, <1>7, <1>8, <1>9
        DEF WorkerStep, Pull, Claim, Begin, DeadLetter, StopBeforeWork, PollCancel,
            ProcessSucceeds, ProcessFails, DisputeRefusal, OwnFailure, MarkCancelled, FailJob,
            HandlerThrows, CountThrow, RetryRead, RetryWrite, RetryClearFlag, RetryDeliver,
            RetryUndo, SettleOutcome, Leave, at, carries

LEMMA OthersAccount ==
    ASSUME ~Crashes, TypeOK, OutputIsAccounted,
           \/ \E s \in Sweeper : SweepStep(s)
           \/ \E c \in Request : RequestStep(c)
           \/ LeaseExpires \/ TTLPasses \/ ExpireJob \/ Crash
    PROVE  OutputIsAccounted'
<1>1. Publication => Publication'
  BY OthersKeepPublication
<1>2. ~Crash
  BY DEF Crash, CrashStandalone, CrashSweep, CrashWeb
<1>3. UNCHANGED <<output, worker>>
  BY <1>2 DEF SweepStep, ListStale, RecoverCancelled, RecoverSpent, RecoverTerminal,
              RecoverRequeue, SweepDeliver, SweepUndo, SweepSettle, RequestStep,
              RequestContinues, QueueJob, CancelRead, UserRetryRead, CancelOutright,
              RequestCancel, Flag, ConfirmLatest, UserRetryWrite, UserRetryClearFlag,
              RequestDeliver, RequestUndo, LeaseExpires, TTLPasses, ExpireJob
<1> QED BY <1>1, <1>3 DEF OutputIsAccounted, carries

\* While the storage answers and no process dies, an ended job without a result leaves no
\* object behind, however many workers a slow lease let run it, however often it is
\* cancelled, recovered and retried (the deletes of ProcessingJobHandler).
THEOREM NothingIsOrphaned == ASSUME ~StoreFaults, ~Crashes PROVE Spec => []NoOrphanOutput
<1>1. Init => OutputIsAccounted
  BY DEF Init, OutputIsAccounted
<1>2. TypeOK /\ OutputIsAccounted /\ [Next]_vars => OutputIsAccounted'
  <2> SUFFICES ASSUME TypeOK, OutputIsAccounted, [Next]_vars
               PROVE  OutputIsAccounted'
    OBVIOUS
  <2>1. CASE UNCHANGED vars
    BY <2>1 DEF vars, OutputIsAccounted, Publication, carries
  <2> QED BY <2>1, WorkerAccounts, OthersAccount DEF Next
<1>3. OutputIsAccounted => NoOrphanOutput
  BY DEF OutputIsAccounted, NoOrphanOutput, Publication, carries, holds, Holding, Running
<1> QED BY <1>1, <1>2, <1>3, Typing, PTL DEF Spec
================================================================================
