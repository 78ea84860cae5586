---------------------------- MODULE JobStateMachine ----------------------------
(***************************************************************************)
(* The pure lifecycle of a processing job: which status may follow which,  *)
(* and the two privileged commands (a deliberate retry, a stale-lease      *)
(* recovery) that unlock one extra edge each.  Every status write of the   *)
(* system goes through isTransitionAllowed, so this module is the contract *)
(* the other modules are measured against.                                 *)
(***************************************************************************)

JobStatus ==
    {"created", "queued", "running", "completed", "failed", "cancelled", "expired"}

\* The ordinary table: from |-> the statuses it may enter.
ALLOWED_TRANSITIONS ==
    [from \in JobStatus |->
        CASE from = "created"   -> {"queued", "cancelled", "failed"}
          [] from = "queued"    -> {"running", "cancelled", "failed", "expired"}
          [] from = "running"   -> {"completed", "failed", "cancelled"}
          [] from = "completed" -> {"expired"}
          [] OTHER              -> {}]

RETRYABLE_FROM_completed == {"failed", "cancelled", "completed"}
RETRYABLE_FROM   == {"failed", "cancelled"}
RECOVERABLE_FROM == {"running"}
TERMINAL_STATUSES == {"completed", "failed", "cancelled", "expired"}
EXPIRABLE_STATUSES == {from \in JobStatus : "expired" \in ALLOWED_TRANSITIONS[from]}

\* The privilege a caller of jobRepo.transition claims.
Command == {"ordinary", "retry", "recover"}

isTerminal(status) == status \in TERMINAL_STATUSES

isTransitionAllowed(from, to, command) ==
    \/ to \in ALLOWED_TRANSITIONS[from]
    \/ command = "retry"   /\ to = "queued" /\ from \in RETRYABLE_FROM
    \/ command = "recover" /\ to = "queued" /\ from \in RECOVERABLE_FROM

(***************************************************************************)
(* Failure categories, by what the retry policy tells apart.  "retryable"  *)
(* stands for processor_timeout, processor_failed, dependency_unavailable  *)
(* and internal_error; "permanent" for the categories that describe the    *)
(* input.  "none" is the null column, which toJobErrorCategory coerces to  *)
(* internal_error and which is therefore retryable too.                    *)
(***************************************************************************)
ErrorCategory == {"none", "retryable", "permanent", "cancelled"}

isRetryableCategory(category) == category \in {"none", "retryable"}

================================================================================
