----------------------------- MODULE InstanceLease -----------------------------
(***************************************************************************)
(* Which process serves.  One row of the database is the lease, and every  *)
(* process of the deployment runs the same loop: beat while it holds the   *)
(* lease, try to take it while it does not.  The ingress guard passes      *)
(* requests exactly while the process believes the lease held.             *)
(*                                                                         *)
(* A call is one beat() or one boot: it reads the clock once, then awaits  *)
(* one or two statements, and acts on the answer later.  Nothing stops     *)
(* the interval from starting the next beat before the last one ended.     *)
(*                                                                         *)
(* Time is kept as ages: how long ago the row's last writer read its       *)
(* clock, how long ago a call did, and how long ago the interval fired.    *)
(*                                                                         *)
(* Definitions named x_y are x with a plausible bug y: they are not part   *)
(* of the specification, and show that the properties notice the bug.      *)
(***************************************************************************)
EXTENDS Naturals, FiniteSets

CONSTANTS
    Process,    \* every process that is ever started: a restart is another holder
    Nobody,     \* no holder: the row does not exist
    Ttl,        \* LEASE_TTL_MS
    Grace,      \* CLOCK_GRACE_MS
    Heartbeat,  \* HEARTBEAT_MS
    Latency,    \* a call is answered, or fails, within this time
    Misses,     \* consecutive calls of one process that may fail
    MaxCalls    \* bound on the calls of one process in flight

ASSUME LeaseAssumption ==
    /\ Nobody \notin Process
    /\ Ttl \in Nat \ {0} /\ Grace \in Nat /\ Heartbeat \in Nat \ {0} /\ Latency \in Nat
    /\ Misses \in Nat /\ MaxCalls \in Nat \ {0}

VARIABLES
    row,       \* holder, and the age of the clock reading it was last written with
    lease,     \* the process's own belief: ingressState().lease
    calls,     \* its calls in flight
    interval,  \* the heartbeat interval runs
    since,     \* time since it last fired
    misses,    \* calls failed since the last one answered
    draining   \* the process was told to stop

vars == <<row, lease, calls, interval, since, misses, draining>>

\* "off" and "gone" are the process before it starts and after it exits.
LeaseStatus == {"off", "pending", "held", "refused", "lost", "released", "gone"}

\* A statement under way, or the answer to it under way back.
Step == {"create", "take", "beat", "delete", "won", "beaten", "kept", "stolen", "deleted"}

Call == [step: Step, age: 0..Latency, boot: BOOLEAN]

\* Older than this, a row is stealable whatever the age of the call that looks.
MaxAge == Latency + Ttl + Grace + 1

up(p) == lease[p] \notin {"off", "gone"}

\* SERVING in the guard; a process that drains is on its way out.
serves(p) == lease[p] = "held" /\ ~draining[p]

Init ==
    /\ row = [holder |-> Nobody, age |-> 0]
    /\ lease = [p \in Process |-> "off"]
    /\ calls = [p \in Process |-> {}]
    /\ interval = [p \in Process |-> FALSE]
    /\ since = [p \in Process |-> 0]
    /\ misses = [p \in Process |-> 0]
    /\ draining = [p \in Process |-> FALSE]

--------------------------------------------------------------------------------
(* Starting calls.                                                            *)

sends(p, step, boot) ==
    calls' = [calls EXCEPT ![p] = @ \cup {[step |-> step, age |-> 0, boot |-> boot]}]

\* startInstanceLease, up to its first await.
Boot(p) ==
    /\ lease[p] = "off"
    /\ lease' = [lease EXCEPT ![p] = "pending"]
    /\ sends(p, "create", TRUE)
    /\ UNCHANGED <<row, interval, since, misses, draining>>

\* Held: renew.  Not held: try again, which is what makes a refused process a standby.
Beat_heldOnly(p) ==
    /\ interval[p] /\ since[p] = Heartbeat
    /\ Cardinality(calls[p]) < MaxCalls
    /\ IF lease[p] = "held" THEN sends(p, "beat", FALSE) ELSE UNCHANGED calls
    /\ since' = [since EXCEPT ![p] = 0]
    /\ UNCHANGED <<row, lease, interval, misses, draining>>

Beat(p) ==
    /\ interval[p] /\ since[p] = Heartbeat
    /\ Cardinality(calls[p]) < MaxCalls
    /\ sends(p, IF lease[p] = "held" THEN "beat" ELSE "create", FALSE)
    /\ since' = [since EXCEPT ![p] = 0]
    /\ UNCHANGED <<row, lease, interval, misses, draining>>

\* SIGTERM: the row is deleted only by a process that believes it holds it.
Shutdown(p) ==
    /\ up(p) /\ ~draining[p]
    /\ draining' = [draining EXCEPT ![p] = TRUE]
    /\ interval' = [interval EXCEPT ![p] = FALSE]
    /\ lease' = [lease EXCEPT ![p] = "released"]
    /\ IF lease[p] = "held" THEN sends(p, "delete", FALSE) ELSE UNCHANGED calls
    /\ UNCHANGED <<row, since, misses>>

--------------------------------------------------------------------------------
(* The database: each statement reads and writes the row at once.             *)

answers(p, c, step) ==
    calls' = [calls EXCEPT ![p] = (@ \ {c}) \cup {[c EXCEPT !.step = step]}]

writes(p, c) == row' = [holder |-> p, age |-> c.age]

\* expiresAt < now - grace, by the clock reading of the call.
stealable_noGrace(c) == row.age > c.age + Ttl
stealable(c) == row.age > c.age + Ttl + Grace

\* The row exists: the same call tries the update next.
CreateLands(p, c) ==
    /\ c.step = "create"
    /\ IF row.holder = Nobody
       THEN writes(p, c) /\ answers(p, c, "won")
       ELSE UNCHANGED row /\ answers(p, c, "take")

TakeLands(p, c) ==
    /\ c.step = "take"
    /\ IF row.holder = p \/ (row.holder # Nobody /\ stealable(c))
       THEN writes(p, c) /\ answers(p, c, "won")
       ELSE UNCHANGED row /\ answers(p, c, "beaten")

BeatLands(p, c) ==
    /\ c.step = "beat"
    /\ IF row.holder = p
       THEN writes(p, c) /\ answers(p, c, "kept")
       ELSE UNCHANGED row /\ answers(p, c, "stolen")

DeleteLands(p, c) ==
    /\ c.step = "delete"
    /\ row' = IF row.holder = p THEN [holder |-> Nobody, age |-> 0] ELSE row
    /\ answers(p, c, "deleted")

Land(p) ==
    /\ \E c \in calls[p] :
         CreateLands(p, c) \/ TakeLands(p, c) \/ BeatLands(p, c) \/ DeleteLands(p, c)
    /\ UNCHANGED <<lease, interval, since, misses, draining>>

--------------------------------------------------------------------------------
(* Answers.  None of them asks whether the status changed in the meantime.    *)

believes(p, c) ==
    CASE c.step = "won" -> "held"
      [] c.step = "beaten" /\ c.boot -> "refused"
      [] c.step = "stolen" -> "lost"
      [] OTHER -> lease[p]

\* Booting ends with the interval, whatever came of it.
ends(p, c) ==
    /\ calls' = [calls EXCEPT ![p] = @ \ {c}]
    /\ interval' = [interval EXCEPT ![p] = @ \/ c.boot]
    /\ since' = [since EXCEPT ![p] = IF c.boot THEN 0 ELSE @]

Answer(p) ==
    /\ \E c \in calls[p] :
         /\ c.step \in {"won", "beaten", "kept", "stolen", "deleted"}
         /\ lease' = [lease EXCEPT ![p] = believes(p, c)]
         /\ ends(p, c)
    /\ misses' = [misses EXCEPT ![p] = 0]
    /\ UNCHANGED <<row, draining>>

\* A database error, before or after the statement took effect: the status stays.
Fail(p) ==
    /\ misses[p] < Misses
    /\ \E c \in calls[p] :
         /\ lease' = [lease EXCEPT ![p] = IF c.boot THEN "pending" ELSE @]
         /\ ends(p, c)
    /\ misses' = [misses EXCEPT ![p] = @ + 1]
    /\ UNCHANGED <<row, draining>>

--------------------------------------------------------------------------------
(* Processes and time.                                                        *)

\* A kill, or the exit that ends a shutdown: it waits for the release at most for
\* a while, so it may come at any time.
Exit(p) ==
    /\ up(p)
    /\ lease' = [lease EXCEPT ![p] = "gone"]
    /\ calls' = [calls EXCEPT ![p] = {}]
    /\ interval' = [interval EXCEPT ![p] = FALSE]
    /\ since' = [since EXCEPT ![p] = 0]
    /\ misses' = [misses EXCEPT ![p] = 0]
    /\ draining' = [draining EXCEPT ![p] = FALSE]
    /\ UNCHANGED row

atMost(m, n) == IF n > m THEN m ELSE n

Tick_lateTimers ==
    /\ \A p \in Process : \A c \in calls[p] : c.age < Latency
    /\ row' = [row EXCEPT !.age = IF row.holder = Nobody THEN 0 ELSE atMost(MaxAge, @ + 1)]
    /\ calls' = [p \in Process |-> {[c EXCEPT !.age = @ + 1] : c \in calls[p]}]
    /\ since' = [p \in Process |-> IF interval[p] THEN since[p] + 1 ELSE since[p]]
    /\ UNCHANGED <<lease, interval, misses, draining>>

\* No call outlives Latency and the interval fires on time.
Tick ==
    /\ \A p \in Process : interval[p] => since[p] < Heartbeat
    /\ \A p \in Process : \A c \in calls[p] : c.age < Latency
    /\ row' = [row EXCEPT !.age = IF row.holder = Nobody THEN 0 ELSE atMost(MaxAge, @ + 1)]
    /\ calls' = [p \in Process |-> {[c EXCEPT !.age = @ + 1] : c \in calls[p]}]
    /\ since' = [p \in Process |-> IF interval[p] THEN since[p] + 1 ELSE since[p]]
    /\ UNCHANGED <<lease, interval, misses, draining>>

Runs(p) == Beat(p) \/ Land(p) \/ Answer(p)

Next ==
    \/ Tick
    \/ \E p \in Process : Boot(p) \/ Runs(p) \/ Shutdown(p) \/ Fail(p) \/ Exit(p)

Spec == Init /\ [][Next]_vars

\* A live process runs its interval and its awaits, and one that drains exits.
FairSpec ==
    /\ Spec
    /\ WF_vars(Tick)
    /\ \A p \in Process : WF_vars(Runs(p)) /\ WF_vars(draining[p] /\ Exit(p))

--------------------------------------------------------------------------------
(* Properties.                                                                *)

\* The shapes of all state.
TypeOK ==
    /\ row \in [holder: Process \cup {Nobody}, age: 0..MaxAge]
    /\ lease \in [Process -> LeaseStatus]
    /\ calls \in [Process -> SUBSET Call]
    /\ interval \in [Process -> BOOLEAN] /\ draining \in [Process -> BOOLEAN]
    /\ since \in [Process -> 0..Heartbeat]
    /\ misses \in [Process -> 0..Misses]

\* Mutual exclusion, not a declaration: no two processes serve at once, although
\* each acts on answers that are old when they arrive.
OneServes == \A p, q \in Process : serves(p) /\ serves(q) => p = q

\* A process that serves owns the row: nobody takes it over, or deletes it, and a
\* rate limit counted in its memory is the deployment's.
ServerOwnsRow == \A p \in Process : serves(p) => row.holder = p

\* A warm standby takes over: while a process that is not draining runs, somebody
\* ends up serving, though the holder was killed and left its row behind.
standby(p) == interval[p] /\ up(p) /\ ~draining[p]

StandbyTakesOver ==
    \A p \in Process : standby(p) ~> (\E q \in Process : serves(q)) \/ ~standby(p)

================================================================================
