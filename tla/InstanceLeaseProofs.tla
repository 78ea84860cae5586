-------------------------- MODULE InstanceLeaseProofs --------------------------
(***************************************************************************)
(* One process serves, for any number of processes and any timing that     *)
(* leaves room for the calls that may fail in a row: nobody finds the row  *)
(* of a serving process stealable, however late its answers come.          *)
(***************************************************************************)
EXTENDS InstanceLease, TLAPS

\* The row outlives every renewal a serving process may miss: after Misses failed
\* beats the next one lands before any call finds the row past Ttl and Grace.
LeaseOutlastsMisses ==
    /\ Latency < Heartbeat
    /\ Ttl + Grace >= (Misses + 1) * Heartbeat + 2 * Latency

\* How much older the row may be for m beats that did not renew it.
owed(m) == m * Heartbeat

--------------------------------------------------------------------------------
(* One call at a time, and of the kind the status asks for.                   *)

Sequential(p) ==
    /\ \A c, d \in calls[p] : c = d
    /\ \A c \in calls[p] : c.boot <=> ~interval[p]
    /\ interval[p] => \A c \in calls[p] : c.age = since[p]

Matching(p) ==
    /\ lease[p] = "held" => interval[p] /\ \A c \in calls[p] : c.step \in {"beat", "kept"}
    /\ lease[p] # "held" =>
          \A c \in calls[p] : c.step \in {"create", "take", "won", "beaten"}
    /\ lease[p] = "off" => calls[p] = {} /\ ~interval[p]

(* What is left of the row's life.                                            *)

Fresh(p) ==
    /\ calls[p] = {} => row.age <= since[p] + Latency + owed(misses[p])
    /\ \A c \in calls[p] :
          /\ row.age <= c.age + Latency + owed(misses[p] + 1)
          /\ c.step = "kept" => row.age <= c.age

Winning(p) ==
    \A c \in calls[p] : c.step = "won" => row.holder = p /\ row.age <= c.age

ProcessInv(p) ==
    /\ Sequential(p)
    /\ Matching(p)
    /\ lease[p] = "held" => row.holder = p /\ Fresh(p)
    /\ Winning(p)

LeaseInv == \A p \in Process : ~draining[p] => ProcessInv(p)

--------------------------------------------------------------------------------
(* Types.                                                                     *)

LEMMA TypeInit == Init => TypeOK
  BY LeaseAssumption DEF Init, TypeOK, LeaseStatus, MaxAge

\* A call that only moves on to another step keeps its type.
LEMMA SentTypes ==
    ASSUME TypeOK, NEW p \in Process, NEW step \in Step, NEW boot \in BOOLEAN,
           sends(p, step, boot)
    PROVE  calls' \in [Process -> SUBSET Call]
  BY LeaseAssumption DEF TypeOK, sends, Call

LEMMA AnsweredTypes ==
    ASSUME TypeOK, NEW p \in Process, NEW c \in calls[p], NEW step \in Step,
           answers(p, c, step)
    PROVE  calls' \in [Process -> SUBSET Call]
<1>1. c \in Call
  BY DEF TypeOK
<1>2. [c EXCEPT !.step = step] \in Call
  BY <1>1 DEF Call
<1> QED BY <1>2 DEF TypeOK, answers

LEMMA LandTypes ==
    ASSUME TypeOK, NEW p \in Process, Land(p)
    PROVE  TypeOK'
<1>1. PICK c \in calls[p] :
         CreateLands(p, c) \/ TakeLands(p, c) \/ BeatLands(p, c) \/ DeleteLands(p, c)
  BY DEF Land
<1>2. \E step \in Step : answers(p, c, step)
  BY <1>1 DEF CreateLands, TakeLands, BeatLands, DeleteLands, Step
<1>3. calls' \in [Process -> SUBSET Call]
  BY <1>2, AnsweredTypes
<1>4. row' \in [holder: Process \cup {Nobody}, age: 0..MaxAge]
  <2>1. c.age \in 0..MaxAge
    BY LeaseAssumption DEF TypeOK, Call, MaxAge
  <2>2. row' = row \/ row' = [holder |-> p, age |-> c.age] \/ row' = [holder |-> Nobody, age |-> 0]
    BY <1>1 DEF CreateLands, TakeLands, BeatLands, DeleteLands, writes
  <2> QED BY <2>1, <2>2, LeaseAssumption DEF TypeOK, MaxAge
<1> QED BY <1>3, <1>4 DEF Land, TypeOK

LEMMA TickTypes ==
    ASSUME TypeOK, Tick
    PROVE  TypeOK'
<1>1. row' \in [holder: Process \cup {Nobody}, age: 0..MaxAge]
  BY LeaseAssumption DEF Tick, TypeOK, MaxAge, atMost
<1>2. calls' \in [Process -> SUBSET Call]
  <2> SUFFICES ASSUME NEW p \in Process, NEW c \in calls[p]
               PROVE  [c EXCEPT !.age = @ + 1] \in Call
    BY DEF Tick
  <2>1. c \in Call /\ c.age < Latency
    BY DEF Tick, TypeOK
  <2> QED BY <2>1, LeaseAssumption DEF Call
<1>3. since' \in [Process -> 0..Heartbeat]
  BY LeaseAssumption DEF Tick, TypeOK
<1> QED BY <1>1, <1>2, <1>3 DEF Tick, TypeOK

LEMMA TypeStep ==
    ASSUME TypeOK, [Next]_vars
    PROVE  TypeOK'
<1>1. CASE Tick
  BY <1>1, TickTypes
<1>2. ASSUME NEW p \in Process, Boot(p)
      PROVE  TypeOK'
  <2>1. calls' \in [Process -> SUBSET Call]
    BY <1>2, SentTypes DEF Boot, Step
  <2> QED BY <1>2, <2>1 DEF Boot, TypeOK, LeaseStatus
<1>3. ASSUME NEW p \in Process, Beat(p)
      PROVE  TypeOK'
  <2>1. calls' \in [Process -> SUBSET Call]
    BY <1>3, SentTypes DEF Beat, Step
  <2>2. since' \in [Process -> 0..Heartbeat]
    <3>1. since' = [since EXCEPT ![p] = 0]
      BY <1>3 DEF Beat
    <3> QED BY <3>1, LeaseAssumption DEF TypeOK
  <2>3. UNCHANGED <<row, lease, interval, misses, draining>>
    BY <1>3 DEF Beat
  <2> QED BY <2>1, <2>2, <2>3 DEF TypeOK
<1>4. ASSUME NEW p \in Process, Land(p)
      PROVE  TypeOK'
  BY <1>4, LandTypes
<1>5. ASSUME NEW p \in Process, Answer(p)
      PROVE  TypeOK'
  <2>1. PICK c \in calls[p] : lease' = [lease EXCEPT ![p] = believes(p, c)] /\ ends(p, c)
    BY <1>5 DEF Answer
  <2>2. c.boot \in BOOLEAN
    BY DEF TypeOK, Call
  <2>3. lease' \in [Process -> LeaseStatus]
    BY <2>1 DEF TypeOK, believes, LeaseStatus
  <2> QED BY <1>5, <2>1, <2>2, <2>3, LeaseAssumption DEF Answer, ends, TypeOK
<1>6. ASSUME NEW p \in Process, Fail(p)
      PROVE  TypeOK'
  <2>1. PICK c \in calls[p] :
           /\ lease' = [lease EXCEPT ![p] = IF c.boot THEN "pending" ELSE @]
           /\ ends(p, c)
    BY <1>6 DEF Fail
  <2>2. c.boot \in BOOLEAN
    BY DEF TypeOK, Call
  <2>3. lease' \in [Process -> LeaseStatus]
    BY <2>1 DEF TypeOK, LeaseStatus
  <2> QED BY <1>6, <2>1, <2>2, <2>3, LeaseAssumption DEF Fail, ends, TypeOK
<1>7. ASSUME NEW p \in Process, Shutdown(p)
      PROVE  TypeOK'
  <2>1. calls' \in [Process -> SUBSET Call]
    BY <1>7, SentTypes DEF Shutdown, Step, TypeOK
  <2> QED BY <1>7, <2>1 DEF Shutdown, TypeOK, LeaseStatus
<1>8. ASSUME NEW p \in Process, Exit(p)
      PROVE  TypeOK'
  BY <1>8, LeaseAssumption DEF Exit, TypeOK, LeaseStatus
<1>9. CASE UNCHANGED vars
  BY <1>9 DEF TypeOK, vars
<1> QED BY <1>1, <1>2, <1>3, <1>4, <1>5, <1>6, <1>7, <1>8, <1>9 DEF Next, Runs

\* Type correctness: the ages and the counts of failures stay in their bounds, a
\* status is one of ingressState()'s, whatever the timing.
THEOREM Typing == Spec => []TypeOK
<1>1. Init => TypeOK
  BY TypeInit
<1>2. TypeOK /\ [Next]_vars => TypeOK'
  BY TypeStep
<1> QED BY <1>1, <1>2, PTL DEF Spec

--------------------------------------------------------------------------------
(* What the hypothesis on the timing gives.                                   *)

LEMMA Owing ==
    /\ owed(0) = 0
    /\ \A m \in Nat : owed(m) \in Nat /\ owed(m + 1) = owed(m) + Heartbeat
<1>1. Heartbeat \in Nat
  BY LeaseAssumption
<1>2. ASSUME NEW m \in Nat
      PROVE  owed(m) \in Nat /\ owed(m + 1) = owed(m) + Heartbeat
  <2>1. m * Heartbeat \in Nat
    BY <1>1
  <2>2. (m + 1) * Heartbeat = m * Heartbeat + Heartbeat
    BY <1>1
  <2> QED BY <2>1, <2>2 DEF owed
<1>3. owed(0) = 0
  BY <1>1 DEF owed
<1> QED BY <1>2, <1>3

LEMMA OwingGrows ==
    ASSUME NEW m \in 0..Misses
    PROVE  owed(m) <= owed(Misses)
<1>1. m \in Nat /\ Misses \in Nat /\ Heartbeat \in Nat /\ Misses - m \in Nat
  BY LeaseAssumption
<1>2. PICK k \in Nat : Misses = m + k
  BY <1>1
<1>3. k * Heartbeat \in Nat /\ m * Heartbeat \in Nat
  BY <1>1, <1>2
<1>4. (m + k) * Heartbeat = m * Heartbeat + k * Heartbeat
  BY <1>1, <1>2
<1> QED BY <1>2, <1>3, <1>4 DEF owed

\* The row of a process that serves, or is about to, is not yet stealable.
LEMMA Lasting ==
    ASSUME LeaseOutlastsMisses, TypeOK, NEW p \in Process, ProcessInv(p),
           lease[p] = "held" \/ \E c \in calls[p] : c.step = "won"
    PROVE  row.holder = p /\ row.age <= Ttl + Grace
<1>1. /\ Ttl \in Nat /\ Grace \in Nat /\ Heartbeat \in Nat /\ Latency \in Nat /\ Misses \in Nat
      /\ row.age \in Nat /\ since[p] \in 0..Heartbeat /\ misses[p] \in 0..Misses
      /\ \A c \in calls[p] : c.age \in 0..Latency
  BY LeaseAssumption DEF TypeOK, MaxAge, Call
<1>2. owed(Misses) \in Nat /\ Ttl + Grace >= owed(Misses) + Heartbeat + 2 * Latency
  <2>1. owed(Misses + 1) = owed(Misses) + Heartbeat /\ owed(Misses) \in Nat
    BY <1>1, Owing
  <2>2. Ttl + Grace >= owed(Misses + 1) + 2 * Latency
    BY DEF LeaseOutlastsMisses, owed
  <2> QED BY <1>1, <2>1, <2>2
<1>3. /\ owed(misses[p]) \in Nat /\ owed(misses[p]) <= owed(Misses)
      /\ owed(misses[p] + 1) = owed(misses[p]) + Heartbeat
  BY <1>1, Owing, OwingGrows
<1>4. CASE \E c \in calls[p] : c.step = "won"
  <2>1. PICK c \in calls[p] : row.holder = p /\ row.age <= c.age
    BY <1>4 DEF ProcessInv, Winning
  <2> QED BY <1>1, <1>2, <2>1
<1>5. CASE lease[p] = "held" /\ calls[p] = {}
  <2>1. row.holder = p /\ row.age <= since[p] + Latency + owed(misses[p])
    BY <1>5 DEF ProcessInv, Fresh
  <2> QED BY <1>1, <1>2, <1>3, <2>1
<1>6. CASE lease[p] = "held" /\ calls[p] # {}
  <2>1. PICK c \in calls[p] : TRUE
    BY <1>6
  <2>2. row.holder = p /\ row.age <= c.age + Latency + owed(misses[p] + 1)
    BY <1>6 DEF ProcessInv, Fresh
  <2> QED BY <1>1, <1>2, <1>3, <2>2
<1> QED BY <1>4, <1>5, <1>6

\* A statement of another process leaves such a row as it is.
LEMMA Unstolen ==
    ASSUME LeaseOutlastsMisses, TypeOK, NEW p \in Process, NEW q \in Process, q # p,
           row.holder = p, row.age <= Ttl + Grace, Land(q)
    PROVE  UNCHANGED row
<1>1. PICK c \in calls[q] :
         CreateLands(q, c) \/ TakeLands(q, c) \/ BeatLands(q, c) \/ DeleteLands(q, c)
  BY DEF Land
<1>2. row.holder # Nobody /\ row.holder # q
  BY LeaseAssumption
<1>3. ~stealable(c)
  <2>1. c.age \in Nat /\ row.age \in Nat /\ Ttl \in Nat /\ Grace \in Nat
    BY LeaseAssumption DEF TypeOK, MaxAge, Call
  <2> QED BY <2>1 DEF stealable
<1> QED BY <1>1, <1>2, <1>3 DEF CreateLands, TakeLands, BeatLands, DeleteLands

--------------------------------------------------------------------------------
(* The invariant is inductive: one lemma per action, for the process itself.  *)

\* What a process knows of itself, apart from the row.
Own(p) == <<lease[p], calls[p], interval[p], since[p], misses[p], draining[p]>>

\* Others write the row only when it is not this process's to keep.
LEMMA StepOfAnother ==
    ASSUME LeaseOutlastsMisses, TypeOK, NEW p \in Process, NEW q \in Process, q # p,
           ProcessInv(p), UNCHANGED Own(p), Land(q) \/ UNCHANGED row
    PROVE  ProcessInv(p)'
<1>1. Sequential(p)' /\ Matching(p)'
  BY DEF ProcessInv, Sequential, Matching, Own
<1>2. CASE lease[p] = "held" \/ \E c \in calls[p] : c.step = "won"
  <2>1. UNCHANGED row
    BY <1>2, Lasting, Unstolen
  <2>2. Winning(p)' /\ (lease'[p] = "held" => row'.holder = p /\ Fresh(p)')
    BY <2>1 DEF ProcessInv, Winning, Fresh, Own, owed
  <2> QED BY <1>1, <2>2 DEF ProcessInv
<1>3. CASE lease[p] # "held" /\ \A c \in calls[p] : c.step # "won"
  BY <1>1, <1>3 DEF ProcessInv, Winning, Own
<1> QED BY <1>2, <1>3

LEMMA BootKeeps ==
    ASSUME TypeOK, NEW p \in Process, ProcessInv(p), Boot(p)
    PROVE  ProcessInv(p)'
<1>1. calls[p] = {} /\ ~interval[p] /\ lease[p] = "off"
  BY DEF Boot, ProcessInv, Matching
<1>2. /\ calls'[p] = {[step |-> "create", age |-> 0, boot |-> TRUE]}
      /\ lease'[p] = "pending" /\ ~interval'[p]
  BY <1>1 DEF Boot, sends, TypeOK
<1> QED BY <1>2 DEF ProcessInv, Sequential, Matching, Winning

LEMMA BeatKeeps ==
    ASSUME LeaseOutlastsMisses, TypeOK, NEW p \in Process, ProcessInv(p), Beat(p)
    PROVE  ProcessInv(p)'
<1>1. /\ Heartbeat \in Nat /\ Latency \in Nat /\ row.age \in Nat /\ misses[p] \in Nat
      /\ \A c \in calls[p] : c.age \in 0..Latency
  BY LeaseAssumption DEF TypeOK, MaxAge, Call
<1>2. interval[p] /\ since[p] = Heartbeat
  BY DEF Beat
<1>3. calls[p] = {}
  BY <1>1, <1>2 DEF ProcessInv, Sequential, LeaseOutlastsMisses
<1> DEFINE step == IF lease[p] = "held" THEN "beat" ELSE "create"
           c == [step |-> step, age |-> 0, boot |-> FALSE]
<1>4. sends(p, step, FALSE) /\ since' = [since EXCEPT ![p] = 0]
  BY DEF Beat
<1>5. calls'[p] = {c} /\ since'[p] = 0
  BY <1>3, <1>4 DEF sends, TypeOK
<1>6. UNCHANGED <<row, lease, interval, misses, draining>>
  BY DEF Beat
<1>7. Sequential(p)' /\ Matching(p)' /\ Winning(p)'
  BY <1>2, <1>5, <1>6 DEF ProcessInv, Sequential, Matching, Winning
<1>8. ASSUME lease[p] = "held"
      PROVE  row'.holder = p /\ Fresh(p)'
  <2>1. row.holder = p /\ row.age <= Heartbeat + Latency + owed(misses[p])
    BY <1>2, <1>3, <1>8 DEF ProcessInv, Fresh
  <2>2. owed(misses[p]) \in Nat /\ owed(misses[p] + 1) = owed(misses[p]) + Heartbeat
    BY <1>1, Owing
  <2>3. row.age <= 0 + Latency + owed(misses[p] + 1)
    BY <1>1, <2>1, <2>2
  <2>4. owed(misses[p] + 1)' = owed(misses[p] + 1)
    BY <1>6 DEF owed
  <2>5. c.step # "kept" /\ c.age = 0
    OBVIOUS
  <2> QED BY <1>5, <1>6, <2>1, <2>3, <2>4, <2>5 DEF Fresh
<1> QED BY <1>6, <1>7, <1>8 DEF ProcessInv

LEMMA LandKeeps ==
    ASSUME TypeOK, NEW p \in Process, ProcessInv(p), Land(p)
    PROVE  ProcessInv(p)'
<1>1. PICK c \in calls[p] :
         CreateLands(p, c) \/ TakeLands(p, c) \/ BeatLands(p, c) \/ DeleteLands(p, c)
  BY DEF Land
<1>2. UNCHANGED <<lease, interval, since, misses, draining>>
  BY DEF Land
<1>3. calls[p] = {c} /\ c \in Call
  BY DEF ProcessInv, Sequential, TypeOK
<1>4. PICK step \in Step : answers(p, c, step)
  BY <1>1 DEF CreateLands, TakeLands, BeatLands, DeleteLands, Step
<1> DEFINE d == [c EXCEPT !.step = step]
<1>5. calls'[p] = {d} /\ d.step = step /\ d.age = c.age /\ d.boot = c.boot
  BY <1>3, <1>4 DEF answers, TypeOK, Call
<1>6. Sequential(p)'
  BY <1>2, <1>3, <1>5 DEF ProcessInv, Sequential
<1>7. CASE lease[p] = "held"
  <2>1. BeatLands(p, c) /\ row.holder = p
    BY <1>1, <1>7 DEF ProcessInv, Matching, CreateLands, TakeLands, BeatLands, DeleteLands
  <2>2. row' = [holder |-> p, age |-> c.age] /\ answers(p, c, "kept")
    BY <2>1 DEF BeatLands, writes
  <2>3. d.step = "kept"
    <3>1. calls'[p] = {[c EXCEPT !.step = "kept"]}
      BY <1>3, <2>2 DEF answers, TypeOK
    <3> QED BY <1>3, <1>5, <3>1 DEF Call
  <2>4. Matching(p)' /\ Winning(p)'
    BY <1>2, <1>5, <1>7, <2>3 DEF ProcessInv, Matching, Winning
  <2>5. Fresh(p)'
    <3>1. misses[p] \in Nat /\ c.age \in Nat /\ Latency \in Nat
      BY <1>3, LeaseAssumption DEF TypeOK, Call
    <3>2. owed(misses[p] + 1) \in Nat
      BY <3>1, Owing
    <3>3. owed(misses[p] + 1)' = owed(misses[p] + 1)
      BY <1>2 DEF owed
    <3>4. row'.age = c.age /\ c.age <= c.age + Latency + owed(misses[p] + 1)
      BY <2>2, <3>1, <3>2
    <3>5. calls'[p] # {}
      BY <1>5
    <3>6. ASSUME NEW e \in calls'[p]
          PROVE  row'.age <= e.age + Latency + owed(misses[p] + 1)' /\ row'.age <= e.age
      <4>1. e.age = c.age
        BY <1>5
      <4> QED BY <3>1, <3>3, <3>4, <4>1
    <3> QED BY <3>5, <3>6 DEF Fresh
  <2> QED BY <1>6, <2>2, <2>4, <2>5 DEF ProcessInv
<1>8. CASE lease[p] # "held"
  <2>1. CreateLands(p, c) \/ TakeLands(p, c)
    BY <1>1, <1>8 DEF ProcessInv, Matching, BeatLands, DeleteLands
  <2>2. \/ row' = [holder |-> p, age |-> c.age] /\ answers(p, c, "won")
        \/ answers(p, c, "take") \/ answers(p, c, "beaten")
    BY <2>1 DEF CreateLands, TakeLands, writes
  <2>3. \/ row' = [holder |-> p, age |-> c.age] /\ d.step = "won"
        \/ d.step \in {"take", "beaten"}
    <3>1. \A s \in Step : answers(p, c, s) => d.step = s
      <4> SUFFICES ASSUME NEW s \in Step, answers(p, c, s)
                   PROVE  d.step = s
        OBVIOUS
      <4>1. calls'[p] = {[c EXCEPT !.step = s]}
        BY <1>3 DEF answers, TypeOK
      <4> QED BY <1>3, <1>5, <4>1 DEF Call
    <3> QED BY <2>2, <3>1 DEF Step
  <2>4. Matching(p)'
    BY <1>2, <1>3, <1>5, <1>8, <2>3 DEF ProcessInv, Matching
  <2>5. Winning(p)'
    BY <1>3, <1>5, <2>3 DEF Winning, Call
  <2> QED BY <1>2, <1>6, <1>8, <2>4, <2>5 DEF ProcessInv
<1> QED BY <1>7, <1>8

\* A call that ends leaves its process with no call, and the interval running.
LEMMA Ending ==
    ASSUME TypeOK, NEW p \in Process, Sequential(p), NEW c \in calls[p], ends(p, c)
    PROVE  /\ calls'[p] = {} /\ interval'[p]
           /\ since'[p] = IF c.boot THEN 0 ELSE c.age
<1>1. calls[p] = {c} /\ c \in Call
  BY DEF Sequential, TypeOK
<1> QED BY <1>1 DEF ends, Sequential, TypeOK, Call

LEMMA AnswerKeeps ==
    ASSUME TypeOK, NEW p \in Process, ProcessInv(p), Answer(p)
    PROVE  ProcessInv(p)'
<1>1. PICK c \in calls[p] :
         /\ c.step \in {"won", "beaten", "kept", "stolen", "deleted"}
         /\ lease' = [lease EXCEPT ![p] = believes(p, c)]
         /\ ends(p, c)
  BY DEF Answer
<1>2. /\ calls'[p] = {} /\ interval'[p]
      /\ since'[p] = IF c.boot THEN 0 ELSE c.age
  BY <1>1, Ending DEF ProcessInv
<1>3. lease'[p] = believes(p, c) /\ misses'[p] = 0 /\ UNCHANGED row
  BY <1>1 DEF Answer, TypeOK
<1>4. c.step \in {"won", "beaten", "kept"} /\ (c.step = "kept" <=> lease[p] = "held")
  BY <1>1 DEF ProcessInv, Matching
<1>5. lease'[p] # "off"
  BY <1>3, <1>4 DEF believes, ProcessInv, Matching
<1>6. Sequential(p)' /\ Matching(p)' /\ Winning(p)'
  BY <1>2, <1>5 DEF Sequential, Matching, Winning
<1>7. ASSUME lease'[p] = "held"
      PROVE  row'.holder = p /\ Fresh(p)'
  <2>1. c.step \in {"won", "kept"}
    BY <1>3, <1>4, <1>7 DEF believes
  <2>2. row.holder = p /\ row.age <= c.age
    BY <1>4, <2>1 DEF ProcessInv, Winning, Fresh
  <2>3. /\ row.age \in Nat /\ c.age \in 0..Latency /\ Latency \in Nat
    BY LeaseAssumption DEF TypeOK, MaxAge, Call
  <2>4. owed(misses[p])' = 0
    BY <1>3, Owing DEF owed
  <2>5. row.age <= since'[p] + Latency + 0
    BY <1>2, <2>2, <2>3
  <2> QED BY <1>2, <1>3, <2>2, <2>4, <2>5 DEF Fresh
<1> QED BY <1>6, <1>7 DEF ProcessInv

LEMMA FailKeeps ==
    ASSUME TypeOK, NEW p \in Process, ProcessInv(p), Fail(p)
    PROVE  ProcessInv(p)'
<1>1. PICK c \in calls[p] :
         /\ lease' = [lease EXCEPT ![p] = IF c.boot THEN "pending" ELSE @]
         /\ ends(p, c)
  BY DEF Fail
<1>2. /\ calls'[p] = {} /\ interval'[p]
      /\ since'[p] = IF c.boot THEN 0 ELSE c.age
  BY <1>1, Ending DEF ProcessInv
<1>3. /\ lease'[p] = IF c.boot THEN "pending" ELSE lease[p]
      /\ misses'[p] = misses[p] + 1 /\ UNCHANGED row
  BY <1>1 DEF Fail, TypeOK
<1>4. lease'[p] # "off"
  BY <1>3 DEF ProcessInv, Matching
<1>5. Sequential(p)' /\ Matching(p)' /\ Winning(p)'
  BY <1>2, <1>4 DEF Sequential, Matching, Winning
<1>6. ASSUME lease'[p] = "held"
      PROVE  row'.holder = p /\ Fresh(p)'
  <2>1. ~c.boot /\ lease[p] = "held"
    BY <1>3, <1>6
  <2>2. row.holder = p /\ row.age <= c.age + Latency + owed(misses[p] + 1)
    BY <2>1 DEF ProcessInv, Fresh
  <2>3. owed(misses[p])' = owed(misses[p] + 1)
    BY <1>3 DEF owed
  <2> QED BY <1>2, <1>3, <2>1, <2>2, <2>3 DEF Fresh
<1> QED BY <1>5, <1>6 DEF ProcessInv

LEMMA TickKeeps ==
    ASSUME TypeOK, NEW p \in Process, ProcessInv(p), Tick
    PROVE  ProcessInv(p)'
<1> DEFINE older(c) == [c EXCEPT !.age = @ + 1]
<1>1. /\ calls'[p] = {older(c) : c \in calls[p]}
      /\ since'[p] = IF interval[p] THEN since[p] + 1 ELSE since[p]
      /\ UNCHANGED <<lease, interval, misses, draining>>
  BY DEF Tick
<1>2. \A c \in calls[p] :
         older(c).age = c.age + 1 /\ older(c).step = c.step /\ older(c).boot = c.boot
  BY DEF TypeOK, Call
<1>3. row'.holder = row.holder /\ (row.holder # Nobody => row'.age <= row.age + 1)
  BY LeaseAssumption DEF Tick, TypeOK, MaxAge, atMost
<1>4. Sequential(p)'
  BY <1>1, <1>2 DEF ProcessInv, Sequential
<1>5. Matching(p)'
  BY <1>1, <1>2 DEF ProcessInv, Matching
<1>6. /\ row.age \in Nat /\ row'.age \in Nat /\ Latency \in Nat /\ since[p] \in Nat
      /\ misses[p] \in Nat /\ \A c \in calls[p] : c.age \in Nat
  <2>1. TypeOK'
    BY TickTypes
  <2> QED BY <2>1, LeaseAssumption DEF TypeOK, MaxAge, Call
<1>7. Winning(p)'
  <2> SUFFICES ASSUME NEW c \in calls[p], c.step = "won"
               PROVE  row'.holder = p /\ row'.age <= c.age + 1
    BY <1>1, <1>2 DEF Winning
  <2>1. row.holder = p /\ row.age <= c.age
    BY DEF ProcessInv, Winning
  <2> QED BY <1>3, <1>6, <2>1, LeaseAssumption
<1>8. ASSUME lease'[p] = "held"
      PROVE  row'.holder = p /\ Fresh(p)'
  <2>1. lease[p] = "held"
    BY <1>1, <1>8
  <2>2. row.holder = p /\ interval[p] /\ Fresh(p)
    BY <2>1 DEF ProcessInv, Matching
  <2>3. row'.age <= row.age + 1
    BY <1>3, <2>2, LeaseAssumption
  <2>4. /\ owed(misses[p]) \in Nat /\ owed(misses[p] + 1) \in Nat
        /\ owed(misses[p])' = owed(misses[p]) /\ owed(misses[p] + 1)' = owed(misses[p] + 1)
    BY <1>1, <1>6, Owing DEF owed
  <2>5. CASE calls[p] = {}
    <3>1. row.age <= since[p] + Latency + owed(misses[p])
      BY <2>2, <2>5 DEF Fresh
    <3>2. row'.age <= since'[p] + Latency + owed(misses[p])
      BY <1>1, <1>6, <2>2, <2>3, <2>4, <3>1
    <3>3. calls'[p] = {}
      BY <1>1, <2>5
    <3> QED BY <1>3, <2>2, <2>4, <3>2, <3>3 DEF Fresh
  <2>6. CASE calls[p] # {}
    <3>1. calls'[p] # {}
      BY <1>1, <2>6
    <3>2. ASSUME NEW c \in calls[p]
          PROVE  /\ row'.age <= c.age + 1 + Latency + owed(misses[p] + 1)
                 /\ c.step = "kept" => row'.age <= c.age + 1
      <4>1. /\ row.age <= c.age + Latency + owed(misses[p] + 1)
            /\ c.step = "kept" => row.age <= c.age
        BY <2>2 DEF Fresh
      <4> QED BY <1>6, <2>3, <2>4, <4>1
    <3>3. \A d \in calls'[p] :
             /\ row'.age <= d.age + Latency + owed(misses[p] + 1)'
             /\ d.step = "kept" => row'.age <= d.age
      BY <1>1, <1>2, <2>4, <3>2
    <3> QED BY <1>3, <2>2, <3>1, <3>3 DEF Fresh
  <2> QED BY <2>5, <2>6
<1> QED BY <1>4, <1>5, <1>7, <1>8 DEF ProcessInv

LEMMA LeaseInit == Init => LeaseInv
  BY DEF Init, LeaseInv, ProcessInv, Sequential, Matching, Winning

LEMMA LeaseStep ==
    ASSUME LeaseOutlastsMisses, TypeOK, LeaseInv, [Next]_vars
    PROVE  LeaseInv'
<1> SUFFICES ASSUME NEW p \in Process, ~draining'[p]
             PROVE  ProcessInv(p)'
  BY DEF LeaseInv
<1>1. CASE Tick
  BY <1>1, TickKeeps DEF LeaseInv, Tick
<1>2. ASSUME NEW q \in Process, q # p, Boot(q) \/ Runs(q) \/ Shutdown(q) \/ Fail(q) \/ Exit(q)
      PROVE  ProcessInv(p)'
  <2>1. UNCHANGED Own(p)
    BY <1>2 DEF Own, Runs, Boot, Beat, Land, Answer, Shutdown, Fail, Exit, sends, ends,
               CreateLands, TakeLands, BeatLands, DeleteLands, answers, TypeOK
  <2>2. Land(q) \/ UNCHANGED row
    BY <1>2 DEF Runs, Boot, Beat, Answer, Shutdown, Fail, Exit
  <2>3. ProcessInv(p)
    BY <2>1 DEF Own, LeaseInv
  <2> QED BY <1>2, <2>1, <2>2, <2>3, StepOfAnother
<1>3. CASE Boot(p)
  BY <1>3, BootKeeps DEF LeaseInv, Boot
<1>4. CASE Beat(p)
  BY <1>4, BeatKeeps DEF LeaseInv, Beat
<1>5. CASE Land(p)
  BY <1>5, LandKeeps DEF LeaseInv, Land
<1>6. CASE Answer(p)
  BY <1>6, AnswerKeeps DEF LeaseInv, Answer
<1>7. CASE Fail(p)
  BY <1>7, FailKeeps DEF LeaseInv, Fail
<1>8. CASE Shutdown(p)
  BY <1>8 DEF Shutdown, TypeOK
<1>9. CASE Exit(p)
  <2>1. calls'[p] = {} /\ lease'[p] = "gone" /\ ~interval'[p]
    BY <1>9 DEF Exit, TypeOK
  <2> QED BY <2>1 DEF ProcessInv, Sequential, Matching, Winning
<1>10. CASE UNCHANGED vars
  BY <1>10 DEF vars, LeaseInv, ProcessInv, Sequential, Matching, Winning, Fresh, owed
<1> QED BY <1>1, <1>2, <1>3, <1>4, <1>5, <1>6, <1>7, <1>8, <1>9, <1>10 DEF Next, Runs

--------------------------------------------------------------------------------

\* A process that serves owns the row, for every deployment whose calls answer
\* within a heartbeat and whose lease outlasts the failures of one process: the
\* guard lets requests through in one process only, and nobody takes its row over.
THEOREM ServingIsOwning ==
    ASSUME LeaseOutlastsMisses
    PROVE  Spec => []ServerOwnsRow
<1>1. Init => TypeOK /\ LeaseInv
  BY TypeInit, LeaseInit
<1>2. TypeOK /\ LeaseInv /\ [Next]_vars => TypeOK' /\ LeaseInv'
  BY TypeStep, LeaseStep
<1>3. LeaseInv => ServerOwnsRow
  BY DEF LeaseInv, ProcessInv, ServerOwnsRow, serves
<1> QED BY <1>1, <1>2, <1>3, PTL DEF Spec

\* Mutual exclusion: two processes never serve at once, because the row has one
\* holder.
THEOREM OneServing ==
    ASSUME LeaseOutlastsMisses
    PROVE  Spec => []OneServes
<1>1. ServerOwnsRow => OneServes
  BY DEF ServerOwnsRow, OneServes
<1> QED BY <1>1, ServingIsOwning, PTL

================================================================================
