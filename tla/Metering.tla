------------------------------- MODULE Metering --------------------------------
(***************************************************************************)
(* The allowance of one owner: what a submission reserves at admission,    *)
(* what it gives back when it fails, and what the job's outcome refunds.   *)
(* UsageMeteringService keeps two daily counters per owner and no list of  *)
(* who holds what, so every path has to give back exactly what it took.    *)
(*                                                                         *)
(* Definitions named x_y are x with a plausible bug y: they are not part   *)
(* of the specification, and show that the properties notice the bug.      *)
(*                                                                         *)
(* One action is one awaited call.  Of the job only what metering sees is  *)
(* kept; JobLifecycle has the rest, and shows that quota is kept only for  *)
(* a job that was published.  Requests run in the process Web; outcomes    *)
(* are settled by whichever process ran, or swept, the job.                *)
(***************************************************************************)
EXTENDS Integers, FiniteSets

CONSTANTS
    Submission,     \* requests, each of which runs once
    Key,            \* idempotency keys; a key is one job
    KeyOf,          \* the key a submission carries (a replay carries the same)
    Bytes,          \* the size of the file submitted under a key
    Limit,          \* the plan's allowance per meter
    MaxActive,      \* the plan's maxConcurrentJobs
    Process, Web,   \* processes that settle; the one that also serves requests
    Enforce,        \* limit mode: enforce, or observe
    LastDay,        \* bound on the days that pass
    MaxRetries,     \* bound on the retries of a job by its user
    CounterFaults,  \* may a counter call reject?
    ClaimFaults,    \* may the settlement claim reject?
    StoreFaults,    \* may staging or a jobs-table call reject?
    Crashes         \* may processes die?

Meter == {"ops", "bytes"}
Day   == 1..LastDay

ASSUME MeteringAssumption ==
    /\ IsFiniteSet(Submission) /\ IsFiniteSet(Key)
    /\ KeyOf \in [Submission -> Key]
    /\ Bytes \in [Key -> Nat \ {0}]
    /\ Limit \in [Meter -> Nat]
    /\ MaxActive \in Nat \ {0} /\ MaxRetries \in Nat /\ LastDay \in Nat \ {0}
    /\ Web \in Process
    /\ {Enforce, CounterFaults, ClaimFaults, StoreFaults, Crashes} \subseteq BOOLEAN

VARIABLES
    today,
    counter,     \* usage_counters: per day and meter
    submission,  \* what each request holds between two awaits
    job,         \* the jobs table, with the payload's usage reference
    claimed,     \* usage_settlements: the keys claimed
    settling,    \* each process's settlement calls under way
    remembered,  \* each process's fallback set of settled keys
    retries,     \* how often its user retried a job
    refunds      \* history: how often a job's amounts were given back

vars == <<today, counter, submission, job, claimed, settling, remembered, retries, refunds>>

JobStatus == {"none", "created", "queued", "running", "completed", "failed", "cancelled"}

\* day is that of the reservation the payload records, 0 when it records none.
Job == [status: JobStatus, day: 0..LastDay]

SubmissionPc == {"idle", "counting", "takingOps", "takingBytes", "uploading", "finding",
                 "creating", "queueing", "givingOps", "givingBytes", "done"}

Answer == {"none", "refused", "failed", "replayed", "accepted", "lost"}

SubmissionState == [pc: SubmissionPc, day: Day, seen: [Meter -> Int], held: BOOLEAN,
                    answer: Answer]

Settling == {"idle", "keeping", "refunding", "returningOps", "returningBytes"}

Zero == [m \in Meter |-> 0]

Amount(k) == [m \in Meter |-> IF m = "ops" THEN 1 ELSE Bytes[k]]

Init ==
    /\ today = 1
    /\ counter = [d \in Day |-> Zero]
    /\ submission = [s \in Submission |->
           [pc |-> "idle", day |-> 1, seen |-> Zero, held |-> FALSE, answer |-> "none"]]
    /\ job = [k \in Key |-> [status |-> "none", day |-> 0]]
    /\ claimed = {}
    /\ settling = [p \in Process |-> [k \in Key |-> "idle"]]
    /\ remembered = [p \in Process |-> {}]
    /\ retries = [k \in Key |-> 0]
    /\ refunds = [k \in Key |-> Zero]

--------------------------------------------------------------------------------
(* The policy and the counters.                                               *)

\* evaluateLimits: a limit admits the operation that brings the total to exactly it.
fits_ignoresRequest(used, k) == \A m \in Meter : used[m] <= Limit[m]
fits(used, k) ==
    \A m \in Meter : (IF used[m] > 0 THEN used[m] ELSE 0) + Amount(k)[m] <= Limit[m]

active == Cardinality({k \in Key : job[k].status \in {"queued", "running"}})

\* What is given back was taken from the same row, so the row exists and the clamp on
\* a row created by a refund does not apply.
add(d, m, n) == counter' = [counter EXCEPT ![d][m] = @ + n]

--------------------------------------------------------------------------------
(* A submission: authorize, stage the file, create the job, queue it.         *)

key(s) == KeyOf[s]

at(s, pc) == submission[s].pc = pc

goto(s, pc) == submission' = [submission EXCEPT ![s].pc = pc]

answers(s, answer) ==
    submission' = [submission EXCEPT ![s].pc = "done", ![s].answer = answer, ![s].held = FALSE]

\* release: the reservation object is emptied before the counters are written.
releases(s, answer) ==
    submission' = [submission EXCEPT ![s].pc = IF submission[s].held THEN "givingOps" ELSE "done",
                                     ![s].answer = answer, ![s].held = FALSE]

ReadCounters(s) ==
    /\ at(s, "idle")
    /\ \/ submission' = [submission EXCEPT ![s].pc = "counting", ![s].day = today,
                                           ![s].seen = counter[today]]
       \/ CounterFaults /\ goto(s, "uploading")
    /\ UNCHANGED <<today, counter, job, claimed, settling, remembered, retries, refunds>>

\* The count of active jobs arrives, and the policy decides on both readings.
CountActive(s) ==
    /\ at(s, "counting")
    /\ \/ IF Enforce /\ (active >= MaxActive \/ ~fits(submission[s].seen, key(s)))
          THEN answers(s, "refused") ELSE goto(s, "takingOps")
       \/ CounterFaults /\ goto(s, "uploading")
    /\ UNCHANGED <<today, counter, job, claimed, settling, remembered, retries, refunds>>

\* incrementCounters is one upsert per meter, each with its post-increment reading.
TakeOps(s) ==
    /\ at(s, "takingOps")
    /\ \/ /\ add(submission[s].day, "ops", 1)
          /\ submission' = [submission EXCEPT ![s].pc = "takingBytes",
                                ![s].seen["ops"] = counter[submission[s].day]["ops"] + 1]
       \/ CounterFaults /\ goto(s, "uploading") /\ UNCHANGED counter
    /\ UNCHANGED <<today, job, claimed, settling, remembered, retries, refunds>>

\* The totals this submission's own increments read back, less what it added.
prior(s) == [ops |-> submission[s].seen["ops"] - 1,
             bytes |-> counter[submission[s].day]["bytes"]]

TakeBytes(s) ==
    /\ at(s, "takingBytes")
    /\ \/ /\ add(submission[s].day, "bytes", Bytes[key(s)])
          /\ IF Enforce /\ ~fits(prior(s), key(s))
             THEN submission' = [submission EXCEPT ![s].pc = "givingOps", ![s].answer = "refused"]
             ELSE submission' = [submission EXCEPT ![s].pc = "uploading", ![s].held = TRUE]
       \/ CounterFaults /\ goto(s, "uploading") /\ UNCHANGED counter
    /\ UNCHANGED <<today, job, claimed, settling, remembered, retries, refunds>>

GiveBackOps(s) ==
    /\ at(s, "givingOps")
    /\ \/ add(submission[s].day, "ops", -1) /\ goto(s, "givingBytes")
       \/ CounterFaults /\ goto(s, "done") /\ UNCHANGED counter
    /\ UNCHANGED <<today, job, claimed, settling, remembered, retries, refunds>>

GiveBackBytes(s) ==
    /\ at(s, "givingBytes")
    /\ \/ add(submission[s].day, "bytes", -Bytes[key(s)])
       \/ CounterFaults /\ UNCHANGED counter
    /\ goto(s, "done")
    /\ UNCHANGED <<today, job, claimed, settling, remembered, retries, refunds>>

Upload(s) ==
    /\ at(s, "uploading")
    /\ goto(s, "finding") \/ (StoreFaults /\ releases(s, "failed"))
    /\ UNCHANGED <<today, counter, job, claimed, settling, remembered, retries, refunds>>

\* A replayed key is answered with the job it named, and pays for nothing.
FindKey_keeps(s) ==
    /\ at(s, "finding")
    /\ IF job[key(s)].status = "none" THEN goto(s, "creating") ELSE answers(s, "replayed")
    /\ UNCHANGED <<today, counter, job, claimed, settling, remembered, retries, refunds>>

FindKey(s) ==
    /\ at(s, "finding")
    /\ \/ IF job[key(s)].status = "none" THEN goto(s, "creating") ELSE releases(s, "replayed")
       \/ StoreFaults /\ releases(s, "failed")
    /\ UNCHANGED <<today, counter, job, claimed, settling, remembered, retries, refunds>>

\* The unique index on the key refuses the second of two creators.
CreateJob(s) ==
    /\ at(s, "creating")
    /\ \/ /\ job[key(s)].status = "none"
          /\ job' = [job EXCEPT ![key(s)] =
                 [status |-> "created", day |-> IF submission[s].held THEN submission[s].day ELSE 0]]
          /\ submission' = [submission EXCEPT ![s].pc = "queueing", ![s].held = FALSE]
       \/ /\ job[key(s)].status # "none" \/ StoreFaults
          /\ releases(s, "failed")
          /\ UNCHANGED job
    /\ UNCHANGED <<today, counter, claimed, settling, remembered, retries, refunds>>

\* A failed queueJob gives nothing back: its row is failed, and may be retried.
QueueJob_releases(s) ==
    /\ at(s, "queueing")
    /\ \/ /\ job[key(s)].status = "created"
          /\ job' = [job EXCEPT ![key(s)].status = "queued"]
          /\ answers(s, "accepted")
       \/ /\ StoreFaults
          /\ job' = [job EXCEPT ![key(s)].status = "failed"]
          /\ submission' = [submission EXCEPT ![s].pc = "givingOps", ![s].answer = "failed"]
    /\ UNCHANGED <<today, counter, claimed, settling, remembered, retries, refunds>>

QueueJob(s) ==
    /\ at(s, "queueing")
    /\ \/ /\ job[key(s)].status = "created"
          /\ job' = [job EXCEPT ![key(s)].status = "queued"]
          /\ answers(s, "accepted")
       \/ /\ StoreFaults /\ job[key(s)].status = "created"
          /\ job' = [job EXCEPT ![key(s)].status = "failed"]
          /\ answers(s, "failed")
       \/ /\ StoreFaults \/ job[key(s)].status # "created"
          /\ UNCHANGED job
          /\ answers(s, "failed")
    /\ UNCHANGED <<today, counter, claimed, settling, remembered, retries, refunds>>

SubmissionStep(s) ==
    \/ ReadCounters(s) \/ CountActive(s) \/ TakeOps(s) \/ TakeBytes(s)
    \/ GiveBackOps(s) \/ GiveBackBytes(s) \/ Upload(s) \/ FindKey(s)
    \/ CreateJob(s) \/ QueueJob(s)

--------------------------------------------------------------------------------
(* The job, as far as metering sees it.                                       *)

Start(k) ==
    /\ job[k].status = "queued"
    /\ job' = [job EXCEPT ![k].status = "running"]
    /\ UNCHANGED <<today, counter, submission, claimed, settling, remembered, retries, refunds>>

\* cancelJob on a job that waits: no worker hears of it, and nothing is settled.
CancelWaiting(k) ==
    /\ job[k].status \in {"created", "queued"}
    /\ job' = [job EXCEPT ![k].status = "cancelled"]
    /\ UNCHANGED <<today, counter, submission, claimed, settling, remembered, retries, refunds>>

UserRetry(k) ==
    /\ job[k].status \in {"failed", "cancelled"} /\ retries[k] < MaxRetries
    /\ job' = [job EXCEPT ![k].status = "queued"]
    /\ retries' = [retries EXCEPT ![k] = @ + 1]
    /\ UNCHANGED <<today, counter, submission, claimed, settling, remembered, refunds>>

settlingGoes(p, k, pc) == settling' = [settling EXCEPT ![p][k] = pc]

\* The worker, or a sweep, has written the job's last outcome and calls
\* settleProcessingOutcome with it.
Finish(p, k) ==
    /\ job[k].status = "running" /\ settling[p][k] = "idle"
    /\ \E outcome \in {"completed", "failed", "cancelled"} :
          /\ job' = [job EXCEPT ![k].status = outcome]
          /\ settlingGoes(p, k, IF outcome = "completed" THEN "keeping" ELSE "refunding")
    /\ UNCHANGED <<today, counter, submission, claimed, remembered, retries, refunds>>

--------------------------------------------------------------------------------
(* settleProcessingOutcome: claim the key, then refund.                       *)

\* The claim is an insert against the primary key.
claimable_always(k) == TRUE
claimable(k) == k \notin claimed

won(p, k) ==
    settlingGoes(p, k, IF settling[p][k] = "refunding" /\ job[k].day # 0
                       THEN "returningOps" ELSE "idle")

Claim(p, k) ==
    /\ settling[p][k] \in {"keeping", "refunding"}
    /\ IF claimable(k) THEN won(p, k) ELSE settlingGoes(p, k, "idle")
    /\ claimed' = claimed \cup {k}
    /\ UNCHANGED <<today, counter, submission, job, remembered, retries, refunds>>

\* The claim rejects, before or after its insert: the process's own set decides.
ClaimBlind(p, k) ==
    /\ ClaimFaults
    /\ settling[p][k] \in {"keeping", "refunding"}
    /\ IF k \in remembered[p] THEN settlingGoes(p, k, "idle") ELSE won(p, k)
    /\ remembered' = [remembered EXCEPT ![p] = @ \cup {k}]
    /\ claimed' \in {claimed, claimed \cup {k}}
    /\ UNCHANGED <<today, counter, submission, job, retries, refunds>>

\* A refund goes to the window the reservation was taken in.
window(k) == job[k].day

returned(k, m) ==
    /\ add(window(k), m, -Amount(k)[m])
    /\ refunds' = [refunds EXCEPT ![k][m] = @ + 1]

ReturnOps(p, k) ==
    /\ settling[p][k] = "returningOps"
    /\ \/ returned(k, "ops") /\ settlingGoes(p, k, "returningBytes")
       \/ CounterFaults /\ settlingGoes(p, k, "idle") /\ UNCHANGED <<counter, refunds>>
    /\ UNCHANGED <<today, submission, job, claimed, remembered, retries>>

ReturnBytes(p, k) ==
    /\ settling[p][k] = "returningBytes"
    /\ returned(k, "bytes") \/ (CounterFaults /\ UNCHANGED <<counter, refunds>>)
    /\ settlingGoes(p, k, "idle")
    /\ UNCHANGED <<today, submission, job, claimed, remembered, retries>>

SettlementStep(p, k) ==
    Finish(p, k) \/ Claim(p, k) \/ ClaimBlind(p, k) \/ ReturnOps(p, k) \/ ReturnBytes(p, k)

--------------------------------------------------------------------------------

DayPasses ==
    /\ today < LastDay
    /\ today' = today + 1
    /\ UNCHANGED <<counter, submission, job, claimed, settling, remembered, retries, refunds>>

lost(s) == [submission[s] EXCEPT !.pc = "done", !.answer = "lost", !.held = FALSE]

Crash(p) ==
    /\ Crashes
    /\ settling' = [settling EXCEPT ![p] = [k \in Key |-> "idle"]]
    /\ remembered' = [remembered EXCEPT ![p] = {}]
    /\ submission' = [s \in Submission |->
           IF p = Web /\ submission[s].pc \notin {"idle", "done"} THEN lost(s) ELSE submission[s]]
    /\ UNCHANGED <<today, counter, job, claimed, retries, refunds>>

Next ==
    \/ \E s \in Submission : SubmissionStep(s)
    \/ \E k \in Key : Start(k) \/ CancelWaiting(k) \/ UserRetry(k)
    \/ \E p \in Process, k \in Key : SettlementStep(p, k)
    \/ DayPasses
    \/ \E p \in Process : Crash(p)

Spec == Init /\ [][Next]_vars

--------------------------------------------------------------------------------
(* Properties.                                                                *)

\* What a set of holders have of a meter, each its amount, counted unit by unit.
Units(holders, amount) == UNION {{h} \X (1..amount[h]) : h \in holders}
Total(holders, amount) == Cardinality(Units(holders, amount))

\* The amounts of the requests, and of the jobs, whose reservations are meant.
OfRequests(requests, m) == Total(requests, [s \in Submission |-> Amount(key(s))[m]])
OfJobs(jobs, m) == Total(jobs, [k \in Key |-> Amount(k)[m]])

\* The jobs that have not been given their reservation of a day back.
Charged(d, m) == {k \in Key : job[k].day = d /\ refunds[k][m] = 0}

\* What is still owed to a day's counter: the reservations requests hold, and those of jobs.
Standing(d, m) ==
    OfRequests({s \in Submission : submission[s].held /\ submission[s].day = d}, m)
    + OfJobs(Charged(d, m), m)

\* The shapes of all state; a counter that went below zero would grant free work.
TypeOK ==
    /\ today \in Day
    /\ counter \in [Day -> [Meter -> Nat]]
    /\ submission \in [Submission -> SubmissionState]
    /\ job \in [Key -> Job]
    /\ claimed \subseteq Key
    /\ settling \in [Process -> [Key -> Settling]]
    /\ remembered \in [Process -> SUBSET Key]
    /\ retries \in [Key -> 0..MaxRetries]
    /\ refunds \in [Key -> [Meter -> Nat]]

\* Allowance is never minted: whatever is still held is still counted, in the window it
\* was taken in (processingJobSubmit: "the one direction this must never fail in").
NeverMints == \A d \in Day, m \in Meter : counter[d][m] >= Standing(d, m)

\* Under enforcement the reservations of a day stay within the plan, however many
\* submissions race for the last slot (reserve's increment-first gate).
LimitHolds == Enforce => \A d \in Day, m \in Meter : Standing(d, m) <= Limit[m]

\* A job's reservation comes back at most once, though its worker, a sweep and the
\* worker of a retry may all settle it (claimSettlement).
RefundedOnce == \A k \in Key, m \in Meter : refunds[k][m] <= 1

AtRest ==
    /\ \A s \in Submission : submission[s].pc \in {"idle", "done"}
    /\ \A p \in Process, k \in Key : settling[p][k] = "idle"

\* Nothing leaks: when no call is under way the counters hold the standing reservations
\* and no more, so a refused, failed or replayed submission gave back all it took.
Balanced == AtRest => \A d \in Day, m \in Meter : counter[d][m] = Standing(d, m)

\* Of submissions that would each fit, a race for the last slot lets one through.
FinalSlotIsTaken == ~\A s \in Submission : submission[s].answer = "refused"

\* A replayed key is answered with its job, never refused for want of allowance.
ReplayIsAnswered ==
    [][\A s \in Submission :
          submission[s].answer = "none" /\ submission'[s].answer = "refused"
              => job[key(s)].status = "none"]_vars

\* A cancelled job's reservation comes back.
CancelledIsRefunded ==
    \A k \in Key :
        /\ job[k].status = "cancelled" /\ job[k].day # 0
        /\ \A p \in Process : settling[p][k] = "idle"
        => refunds[k]["ops"] = 1

================================================================================
