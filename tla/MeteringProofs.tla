---------------------------- MODULE MeteringProofs ----------------------------
(***************************************************************************)
(* The allowance of one owner, for any submissions, keys, sizes, processes,*)
(* days and retries, as long as the settlement claim itself answers: a     *)
(* reservation comes back at most once, no allowance is minted, no day     *)
(* goes beyond the plan, and when every call answers nothing leaks.        *)
(*                                                                         *)
(* Two sums are followed.  Owed is what requests and jobs still have to    *)
(* give back to a counter; each step moves both alike, or leaves the       *)
(* counter the higher.  Promise is the part of it that will stand if       *)
(* nothing more is refused; it grows only for a request that has just read *)
(* a counter within the plan.  Standing <= Promise <= Owed <= counter.     *)
(* A sum is the cardinality of a set of units, so that what a step adds to *)
(* it follows from the cardinality of a union.                             *)
(***************************************************************************)
EXTENDS Metering, FiniteSetTheorems, FunctionTheorems, TLAPS

--------------------------------------------------------------------------------
(* Refunds.                                                                   *)

Returning == {"returningOps", "returningBytes"}

RefundTypes ==
    /\ settling \in [Process -> [Key -> Settling]]
    /\ refunds \in [Key -> [Meter -> Nat]]

\* Who returns a reservation has won its claim, and wins it alone.
OneReturner ==
    \A k \in Key :
        /\ \A p \in Process : settling[p][k] \in Returning => k \in claimed
        /\ \A p, q \in Process :
              settling[p][k] \in Returning /\ settling[q][k] \in Returning => p = q

\* Nothing came back before the claim, and of what the returner has yet to return
\* nothing came back before.
RefundsFollowClaims ==
    \A k \in Key :
        /\ k \notin claimed => refunds[k] = Zero
        /\ \A p \in Process :
              /\ settling[p][k] = "returningOps" => refunds[k] = Zero
              /\ settling[p][k] = "returningBytes" => refunds[k]["bytes"] = 0

RefundInv == RefundTypes /\ OneReturner /\ RefundsFollowClaims /\ RefundedOnce

LEMMA RefundInit == Init => RefundInv
  BY DEF Init, RefundInv, RefundTypes, OneReturner, RefundsFollowClaims, RefundedOnce,
         Returning, Settling, Zero, Meter

LEMMA RefundStep ==
    ASSUME ~ClaimFaults, RefundInv, [Next]_vars
    PROVE  RefundInv'
<1> USE DEF RefundInv, RefundTypes, OneReturner, RefundsFollowClaims, RefundedOnce,
            Returning
<1>1. ASSUME NEW s \in Submission, SubmissionStep(s)
      PROVE  RefundInv'
  BY <1>1 DEF SubmissionStep, ReadCounters, CountActive, TakeOps, TakeBytes, GiveBackOps,
              GiveBackBytes, Upload, FindKey, CreateJob, QueueJob
<1>2. ASSUME NEW k \in Key, Start(k) \/ CancelWaiting(k) \/ UserRetry(k)
      PROVE  RefundInv'
  BY <1>2 DEF Start, CancelWaiting, UserRetry
<1>3. ASSUME NEW p \in Process, NEW k \in Key, Finish(p, k)
      PROVE  RefundInv'
  BY <1>3 DEF Finish, settlingGoes, Settling
<1>4. ASSUME NEW p \in Process, NEW k \in Key, Claim(p, k)
      PROVE  RefundInv'
  <2>1. /\ UNCHANGED refunds
        /\ claimed' = claimed \cup {k}
        /\ settling[p][k] \notin Returning
    BY <1>4 DEF Claim
  <2>2. PICK pc \in {"idle", "returningOps"} :
           /\ settling' = [settling EXCEPT ![p][k] = pc]
           /\ k \in claimed => pc = "idle"
    BY <1>4 DEF Claim, claimable, won, settlingGoes
  <2>3. /\ settling' \in [Process -> [Key -> Settling]]
        /\ settling'[p][k] = pc
        /\ \A q \in Process, l \in Key :
              q # p \/ l # k => settling'[q][l] = settling[q][l]
    BY <2>2 DEF Settling
  <2>4. RefundTypes' /\ RefundedOnce'
    BY <2>1, <2>3
  <2>5. OneReturner'
    BY <2>1, <2>2, <2>3
  <2>6. RefundsFollowClaims'
    BY <2>1, <2>2, <2>3 DEF Zero
  <2> QED BY <2>4, <2>5, <2>6
<1>5. ASSUME NEW p \in Process, NEW k \in Key, ReturnOps(p, k)
      PROVE  RefundInv'
  <2>1. /\ UNCHANGED claimed
        /\ settling[p][k] = "returningOps"
        /\ k \in claimed
    BY <1>5 DEF ReturnOps
  <2>2. PICK pc \in {"idle", "returningBytes"} :
           settling' = [settling EXCEPT ![p][k] = pc]
    BY <1>5 DEF ReturnOps, settlingGoes
  <2>3. /\ settling' \in [Process -> [Key -> Settling]]
        /\ settling'[p][k] = pc
        /\ \A q \in Process, l \in Key :
              q # p \/ l # k => settling'[q][l] = settling[q][l]
    BY <2>2 DEF Settling
  <2>4. refunds' = [refunds EXCEPT ![k]["ops"] = @ + 1] \/ UNCHANGED refunds
    BY <1>5 DEF ReturnOps, returned
  <2>5. refunds[k]["ops"] = 0
    BY <2>1 DEF Zero, Meter
  <2>6. /\ refunds' \in [Key -> [Meter -> Nat]]
        /\ \A l \in Key, m \in Meter :
              refunds'[l][m] = refunds[l][m] \/ (l = k /\ m = "ops" /\ refunds'[l][m] = 1)
        /\ \A l \in Key : l # k => refunds'[l] = refunds[l]
    BY <2>4, <2>5 DEF Meter
  <2>7. RefundTypes' /\ RefundedOnce'
    <3>1. RefundTypes'
      BY <2>3, <2>6
    <3>2. RefundedOnce'
      <4> SUFFICES ASSUME NEW l \in Key, NEW m \in Meter
                   PROVE  refunds'[l][m] <= 1
        OBVIOUS
      <4>1. refunds[l][m] <= 1
        OBVIOUS
      <4> QED BY <2>6, <4>1
    <3> QED BY <3>1, <3>2
  <2>8. OneReturner'
    BY <2>1, <2>2, <2>3
  <2>9. RefundsFollowClaims'
    <3> SUFFICES ASSUME NEW l \in Key
                 PROVE  /\ l \notin claimed => refunds'[l] = Zero
                        /\ \A q \in Process :
                              /\ settling'[q][l] = "returningOps" => refunds'[l] = Zero
                              /\ settling'[q][l] = "returningBytes" => refunds'[l]["bytes"] = 0
      BY <2>1
    <3>1. CASE l # k
      BY <2>3, <2>6, <3>1
    <3>2. CASE l = k
      <4>1. refunds'[k]["bytes"] = 0
        BY <2>1, <2>6 DEF Zero, Meter
      <4>2. \A q \in Process : settling'[q][k] # "returningOps"
        BY <2>1, <2>2, <2>3
      <4> QED BY <2>1, <3>2, <4>1, <4>2
    <3> QED BY <3>1, <3>2
  <2> QED BY <2>7, <2>8, <2>9
<1>6. ASSUME NEW p \in Process, NEW k \in Key, ReturnBytes(p, k)
      PROVE  RefundInv'
  <2>1. /\ UNCHANGED claimed
        /\ settling[p][k] = "returningBytes"
        /\ k \in claimed
    BY <1>6 DEF ReturnBytes
  <2>2. PICK pc \in {"idle"} :
           settling' = [settling EXCEPT ![p][k] = pc]
    BY <1>6 DEF ReturnBytes, settlingGoes
  <2>3. /\ settling' \in [Process -> [Key -> Settling]]
        /\ settling'[p][k] = pc
        /\ \A q \in Process, l \in Key :
              q # p \/ l # k => settling'[q][l] = settling[q][l]
    BY <2>2 DEF Settling
  <2>4. refunds' = [refunds EXCEPT ![k]["bytes"] = @ + 1] \/ UNCHANGED refunds
    BY <1>6 DEF ReturnBytes, returned
  <2>5. refunds[k]["bytes"] = 0
    BY <2>1 DEF Zero, Meter
  <2>6. /\ refunds' \in [Key -> [Meter -> Nat]]
        /\ \A l \in Key, m \in Meter :
              refunds'[l][m] = refunds[l][m] \/ (l = k /\ m = "bytes" /\ refunds'[l][m] = 1)
        /\ \A l \in Key : l # k => refunds'[l] = refunds[l]
    <3>1. CASE UNCHANGED refunds
      BY <3>1
    <3>2. CASE refunds' = [refunds EXCEPT ![k]["bytes"] = @ + 1]
      <4>1. refunds[k] \in [Meter -> Nat] /\ "bytes" \in Meter
        BY DEF Meter
      <4>2. [refunds[k] EXCEPT !["bytes"] = 1] \in [Meter -> Nat]
        BY <4>1
      <4>3. refunds' = [refunds EXCEPT ![k] = [refunds[k] EXCEPT !["bytes"] = 1]]
        BY <2>5, <3>2
      <4>4. refunds' \in [Key -> [Meter -> Nat]]
        BY <4>2, <4>3
      <4>5. \A l \in Key : l # k => refunds'[l] = refunds[l]
        BY <4>3
      <4>6. refunds'[k] = [refunds[k] EXCEPT !["bytes"] = 1]
        BY <4>3
      <4> QED BY <4>1, <4>4, <4>5, <4>6
    <3> QED BY <2>4, <3>1, <3>2
  <2>7. RefundTypes' /\ RefundedOnce'
    <3>1. RefundTypes'
      BY <2>3, <2>6
    <3>2. RefundedOnce'
      <4> SUFFICES ASSUME NEW l \in Key, NEW m \in Meter
                   PROVE  refunds'[l][m] <= 1
        OBVIOUS
      <4>1. refunds[l][m] <= 1
        OBVIOUS
      <4> QED BY <2>6, <4>1
    <3> QED BY <3>1, <3>2
  <2>8. OneReturner'
    BY <2>1, <2>2, <2>3
  <2>9. RefundsFollowClaims'
    BY <2>1, <2>2, <2>3, <2>6 DEF Zero, Meter
  <2> QED BY <2>7, <2>8, <2>9
<1>7. ASSUME DayPasses
      PROVE  RefundInv'
  BY <1>7 DEF DayPasses
<1>8. ASSUME NEW p \in Process, Crash(p)
      PROVE  RefundInv'
  BY <1>8 DEF Crash, Settling
<1>9. CASE UNCHANGED vars
  BY <1>9 DEF vars
<1>10. ASSUME NEW p \in Process, NEW k \in Key
       PROVE  ~ClaimBlind(p, k)
  BY DEF ClaimBlind
<1> QED
  BY <1>1, <1>2, <1>3, <1>4, <1>5, <1>6, <1>7, <1>8, <1>9, <1>10 DEF Next, SettlementStep

--------------------------------------------------------------------------------
(* Sums: a holder's units are a slice of their own.                           *)

LEMMA UnitsAreFinite ==
    ASSUME NEW S, IsFiniteSet(S), NEW a, \A h \in S : a[h] \in Nat
    PROVE  IsFiniteSet(Units(S, a)) /\ Total(S, a) \in Nat
<1> DEFINE part == [h \in S |-> {h} \X (1..a[h])]
           parts == {{h} \X (1..a[h]) : h \in S}
<1>1. part \in Surjection(S, parts)
  BY DEF Surjection
<1>2. IsFiniteSet(parts)
  BY <1>1, FS_Surjection
<1>3. \A T \in parts : IsFiniteSet(T)
  <2> SUFFICES ASSUME NEW h \in S PROVE IsFiniteSet({h} \X (1..a[h]))
    OBVIOUS
  <2>1. IsFiniteSet({h})
    BY FS_Singleton
  <2>2. PICK n \in Nat : n = a[h]
    OBVIOUS
  <2>3. IsFiniteSet(1..n)
    BY FS_Interval
  <2> QED BY <2>1, <2>2, <2>3, FS_Product
<1>4. IsFiniteSet(UNION parts)
  BY <1>2, <1>3, FS_UNION
<1> QED BY <1>4, FS_CardinalityType DEF Units, Total

LEMMA TotalOfNone ==
    ASSUME NEW a
    PROVE  Total({}, a) = 0
<1>1. Units({}, a) = {}
  BY DEF Units
<1> QED BY <1>1, FS_EmptySet DEF Total

LEMMA TotalAdds ==
    ASSUME NEW S, IsFiniteSet(S), NEW x, x \notin S, NEW a, \A h \in S \cup {x} : a[h] \in Nat
    PROVE  Total(S \cup {x}, a) = Total(S, a) + a[x]
<1> DEFINE own == {x} \X (1..a[x])
<1>1. Units(S \cup {x}, a) = Units(S, a) \cup own
  BY DEF Units
<1>2. Units(S, a) \cap own = {}
  BY DEF Units
<1>3. IsFiniteSet(own) /\ Cardinality(own) = a[x]
  <2>1. IsFiniteSet({x}) /\ Cardinality({x}) = 1
    BY FS_Singleton
  <2>2. PICK n \in Nat : n = a[x]
    OBVIOUS
  <2>3. IsFiniteSet(1..n) /\ Cardinality(1..n) = n
    BY FS_Interval
  <2>4. PICK one, units : one = {x} /\ units = 1..n
    OBVIOUS
  <2>5. IsFiniteSet(one \X units) /\ Cardinality(one \X units) = Cardinality(one) * Cardinality(units)
    BY <2>1, <2>3, <2>4, FS_Product
  <2> QED BY <2>1, <2>2, <2>3, <2>4, <2>5
<1>4. IsFiniteSet(Units(S, a)) /\ Cardinality(Units(S, a)) \in Nat
  BY UnitsAreFinite DEF Total
<1>5. Cardinality(Units(S, a) \cup own) = Cardinality(Units(S, a)) + Cardinality(own) - Cardinality({})
  <2> HIDE DEF own
  <2> QED BY <1>2, <1>3, <1>4, FS_Union
<1>6. Total(S \cup {x}, a) = Total(S, a) + a[x] - 0
  BY <1>1, <1>3, <1>5, FS_EmptySet DEF Total
<1> QED BY <1>4, <1>6 DEF Total

LEMMA TotalGrows ==
    ASSUME NEW S, NEW T, IsFiniteSet(T), S \subseteq T, NEW a, \A h \in T : a[h] \in Nat
    PROVE  Total(S, a) <= Total(T, a)
<1>1. Units(S, a) \subseteq Units(T, a)
  BY DEF Units
<1>2. IsFiniteSet(Units(T, a))
  BY UnitsAreFinite
<1> QED BY <1>1, <1>2, FS_Subset DEF Total

\* What one holder contributes.
LEMMA TotalTurns ==
    ASSUME NEW S, NEW T, IsFiniteSet(S), IsFiniteSet(T), NEW x, S \ {x} = T \ {x},
           NEW a, \A h \in S \cup T : a[h] \in Nat
    PROVE  /\ x \in S /\ x \notin T => Total(S, a) = Total(T, a) + a[x]
           /\ x \in T /\ x \notin S => Total(T, a) = Total(S, a) + a[x]
           /\ (x \in S <=> x \in T) => Total(S, a) = Total(T, a)
<1>1. CASE x \in S <=> x \in T
  <2>1. S = T
    BY <1>1
  <2> QED BY <1>1, <2>1
<1>2. CASE x \in S /\ x \notin T
  <2>1. S = T \cup {x}
    BY <1>2
  <2>2. Total(T \cup {x}, a) = Total(T, a) + a[x]
    BY <1>2, <2>1, TotalAdds
  <2> QED BY <1>2, <2>1, <2>2
<1>3. CASE x \in T /\ x \notin S
  <2>1. T = S \cup {x}
    BY <1>3
  <2>2. Total(S \cup {x}, a) = Total(S, a) + a[x]
    BY <1>3, <2>1, TotalAdds
  <2> QED BY <1>3, <2>1, <2>2
<1> QED BY <1>1, <1>2, <1>3

--------------------------------------------------------------------------------
(* What is owed to the counters.                                              *)

\* The shapes, without saying that a counter stays above zero: that follows from what is owed.
Shapes ==
    /\ today \in Day
    /\ counter \in [Day -> [Meter -> Int]]
    /\ submission \in [Submission -> SubmissionState]
    /\ job \in [Key -> Job]
    /\ claimed \subseteq Key
    /\ remembered \in [Process -> SUBSET Key]
    /\ retries \in [Key -> 0..MaxRetries]

\* A request gives back what it holds, and what it took and did not come to hold.
Owes(s, m) ==
    \/ submission[s].held
    \/ m = "ops" /\ submission[s].pc \in {"takingBytes", "givingOps"}
    \/ m = "bytes" /\ submission[s].pc \in {"givingOps", "givingBytes"}
Owing(d, m) == {s \in Submission : Owes(s, m) /\ submission[s].day = d}
Owed(d, m) == OfRequests(Owing(d, m), m) + OfJobs(Charged(d, m), m)

\* A request may come to hold what it took when its own reading is within the plan.
Promised(s, m) ==
    \/ submission[s].held
    \/ m = "ops" /\ submission[s].pc = "takingBytes" /\ submission[s].seen["ops"] <= Limit["ops"]
Promising(d, m) == {s \in Submission : Promised(s, m) /\ submission[s].day = d}
Promise(d, m) == OfRequests(Promising(d, m), m) + OfJobs(Charged(d, m), m)

\* Only a request past admission and before its job holds a reservation; a job that is not there
\* was never settled, and one being given back was charged.
HoldersUpload == \A s \in Submission : submission[s].held => submission[s].pc \in {"uploading", "finding", "creating"}
Fresh ==
    \A k \in Key : job[k].status = "none" =>
        job[k].day = 0 /\ refunds[k] = Zero /\ k \notin claimed /\ \A p \in Process : settling[p][k] = "idle"
Dated == \A p \in Process, k \in Key : settling[p][k] \in Returning => job[k].day # 0

Covered == \A d \in Day, m \in Meter : counter[d][m] >= Owed(d, m)
WithinPlan == Enforce => \A d \in Day, m \in Meter : Promise(d, m) <= Limit[m]

Orders == HoldersUpload /\ Fresh /\ Dated

LEMMA Amounts ==
    ASSUME NEW k \in Key
    PROVE  Amount(k)["ops"] = 1 /\ Amount(k)["bytes"] = Bytes[k] /\ Bytes[k] \in Nat
           /\ \A m \in Meter : Amount(k)[m] \in Nat
BY MeteringAssumption DEF Amount, Meter

LEMMA KeyOfRequest == ASSUME NEW s \in Submission PROVE key(s) \in Key
BY MeteringAssumption DEF key

\* One request comes to be counted, or no longer is.
LEMMA RequestTurns ==
    ASSUME NEW R \in SUBSET Submission, NEW T \in SUBSET Submission, NEW s \in Submission, R \ {s} = T \ {s},
           NEW m \in Meter
    PROVE  /\ OfRequests(R, m) \in Nat /\ OfRequests(T, m) \in Nat
           /\ s \in R /\ s \notin T => OfRequests(R, m) = OfRequests(T, m) + Amount(key(s))[m]
           /\ s \in T /\ s \notin R => OfRequests(T, m) = OfRequests(R, m) + Amount(key(s))[m]
           /\ (s \in R <=> s \in T) => OfRequests(R, m) = OfRequests(T, m)
<1> DEFINE a == [r \in Submission |-> Amount(key(r))[m]]
<1>1. \A r \in Submission : a[r] \in Nat
  BY KeyOfRequest, Amounts
<1>2. IsFiniteSet(R) /\ IsFiniteSet(T)
  BY MeteringAssumption, FS_Subset
<1>3. a[s] = Amount(key(s))[m]
  OBVIOUS
<1> HIDE DEF a
<1>4. Total(R, a) \in Nat /\ Total(T, a) \in Nat
  BY <1>1, <1>2, UnitsAreFinite
<1>5. /\ s \in R /\ s \notin T => Total(R, a) = Total(T, a) + a[s]
      /\ s \in T /\ s \notin R => Total(T, a) = Total(R, a) + a[s]
      /\ (s \in R <=> s \in T) => Total(R, a) = Total(T, a)
  BY <1>1, <1>2, TotalTurns
<1>6. OfRequests(R, m) = Total(R, a) /\ OfRequests(T, m) = Total(T, a)
  BY DEF OfRequests, a
<1> QED BY <1>3, <1>4, <1>5, <1>6

LEMMA JobTurns ==
    ASSUME NEW R \in SUBSET Key, NEW T \in SUBSET Key, NEW k \in Key, R \ {k} = T \ {k}, NEW m \in Meter
    PROVE  /\ OfJobs(R, m) \in Nat
           /\ OfJobs(T, m) = OfJobs(R, m) + (IF k \in T THEN Amount(k)[m] ELSE 0) - (IF k \in R THEN Amount(k)[m] ELSE 0)
<1> DEFINE a == [l \in Key |-> Amount(l)[m]]
<1>1. \A l \in Key : a[l] \in Nat
  BY Amounts
<1>2. IsFiniteSet(R) /\ IsFiniteSet(T)
  BY MeteringAssumption, FS_Subset
<1>3. a[k] = Amount(k)[m]
  OBVIOUS
<1> HIDE DEF a
<1>4. Total(R, a) \in Nat /\ Total(T, a) \in Nat /\ a[k] \in Nat
  BY <1>1, <1>2, UnitsAreFinite
<1>5. /\ k \in R /\ k \notin T => Total(R, a) = Total(T, a) + a[k]
      /\ k \in T /\ k \notin R => Total(T, a) = Total(R, a) + a[k]
      /\ (k \in R <=> k \in T) => Total(R, a) = Total(T, a)
  BY <1>1, <1>2, TotalTurns
<1>6. OfJobs(R, m) = Total(R, a) /\ OfJobs(T, m) = Total(T, a)
  BY DEF OfJobs, a
<1>7. Total(T, a) = Total(R, a) + (IF k \in T THEN a[k] ELSE 0) - (IF k \in R THEN a[k] ELSE 0)
  BY <1>4, <1>5
<1> QED BY <1>3, <1>4, <1>6, <1>7

\* Fewer requests have no more.
LEMMA RequestsGrow ==
    ASSUME NEW R, NEW T \in SUBSET Submission, R \subseteq T, NEW m \in Meter
    PROVE  OfRequests(R, m) \in Nat /\ OfRequests(T, m) \in Nat /\ OfRequests(R, m) <= OfRequests(T, m)
<1> DEFINE a == [r \in Submission |-> Amount(key(r))[m]]
<1>1. \A r \in Submission : a[r] \in Nat
  BY KeyOfRequest, Amounts
<1>2. IsFiniteSet(R) /\ IsFiniteSet(T)
  BY MeteringAssumption, FS_Subset
<1> HIDE DEF a
<1>3. Total(R, a) \in Nat /\ Total(T, a) \in Nat /\ Total(R, a) <= Total(T, a)
  BY <1>1, <1>2, UnitsAreFinite, TotalGrows
<1> QED BY <1>3 DEF OfRequests, a

LEMMA JobsCount ==
    ASSUME NEW R \in SUBSET Key, NEW m \in Meter
    PROVE  OfJobs(R, m) \in Nat
<1> DEFINE a == [l \in Key |-> Amount(l)[m]]
<1>1. \A l \in Key : a[l] \in Nat
  BY Amounts
<1>2. IsFiniteSet(R)
  BY MeteringAssumption, FS_Subset
<1> HIDE DEF a
<1>3. Total(R, a) \in Nat
  BY <1>1, <1>2, UnitsAreFinite
<1> QED BY <1>3 DEF OfJobs, a

--------------------------------------------------------------------------------
(* A job that is not retried is settled once, whatever the claim answers.     *)

\* Of what is being given back nothing came back before.
RefundsDue ==
    \A p \in Process, k \in Key :
        /\ settling[p][k] = "returningOps" => refunds[k] = Zero
        /\ settling[p][k] = "returningBytes" => refunds[k]["bytes"] = 0

Over(k) == job[k].status \in {"completed", "failed", "cancelled"}

\* A job has one settlement at a time, once it is over, and until then nothing came back.
FinishInv ==
    \A k \in Key :
        /\ ~Over(k) => refunds[k] = Zero /\ \A p \in Process : settling[p][k] = "idle"
        /\ \A p, q \in Process : settling[p][k] # "idle" /\ settling[q][k] # "idle" => p = q
        /\ \A p \in Process : settling[p][k] \in {"keeping", "refunding"} => refunds[k] = Zero

\* Either the settlement claim decides, or no job has a second outcome.
OneSettlement == ~ClaimFaults \/ MaxRetries = 0

Once ==
    /\ RefundTypes /\ RefundsDue /\ RefundedOnce
    /\ ~ClaimFaults => RefundInv
    /\ MaxRetries = 0 => FinishInv

LEMMA FinishStep ==
    ASSUME MaxRetries = 0, Shapes, RefundTypes, RefundsDue, RefundedOnce, FinishInv, [Next]_vars
    PROVE  (RefundTypes /\ RefundsDue /\ RefundedOnce /\ FinishInv)'
<1> DEFINE Goal == (RefundTypes /\ RefundsDue /\ RefundedOnce /\ FinishInv)'
<1>0. job \in [Key -> Job] /\ \A k \in Key : retries[k] = 0
  BY DEF Shapes
<1>1. ASSUME UNCHANGED <<settling, refunds>>, \A k \in Key : Over(k) => Over(k)'
      PROVE  Goal
  BY <1>1 DEF RefundTypes, RefundsDue, RefundedOnce, FinishInv, Over
<1>2. ASSUME NEW s \in Submission, SubmissionStep(s)
      PROVE  Goal
  <2>1. /\ UNCHANGED <<settling, refunds>>
        /\ \/ UNCHANGED job
           \/ job[key(s)].status \in {"none", "created"} /\ \E row \in Job : job' = [job EXCEPT ![key(s)] = row]
    <3>1. CASE CreateJob(s)
      <4>1. PICK day \in 0..LastDay : day = IF submission[s].held THEN submission[s].day ELSE 0
        BY MeteringAssumption DEF Shapes, SubmissionState, Day
      <4>2. [status |-> "created", day |-> day] \in Job
        BY DEF Job, JobStatus
      <4> QED BY <3>1, <4>1, <4>2 DEF CreateJob
    <3>2. CASE QueueJob(s)
      <4>1. key(s) \in Key
        BY KeyOfRequest
      <4>2. /\ UNCHANGED <<settling, refunds>>
            /\ \/ UNCHANGED job
               \/ /\ job[key(s)].status = "created"
                  /\ \E status \in JobStatus : job' = [job EXCEPT ![key(s)].status = status]
        BY <3>2 DEF QueueJob, JobStatus
      <4>3. \A status \in JobStatus : [job[key(s)] EXCEPT !.status = status] \in Job
        BY <1>0, <4>1 DEF Job
      <4> QED BY <4>2, <4>3
    <3> QED BY <1>2, <3>1, <3>2 DEF SubmissionStep, ReadCounters, CountActive, TakeOps, TakeBytes,
              GiveBackOps, GiveBackBytes, Upload, FindKey
  <2> QED BY <1>0, <1>1, <2>1 DEF Over
<1>3. ASSUME NEW k \in Key, Start(k) \/ CancelWaiting(k) \/ UserRetry(k)
      PROVE  Goal
  <2>1. ~UserRetry(k)
    BY <1>0 DEF UserRetry
  <2> QED BY <1>0, <1>1, <1>3, <2>1 DEF Start, CancelWaiting, Over
<1>4. ASSUME NEW p \in Process, NEW k \in Key, NEW pc \in Settling,
             settling' = [settling EXCEPT ![p][k] = pc], \A l \in Key : l # k => refunds'[l] = refunds[l],
             refunds' \in [Key -> [Meter -> Nat]], \A m \in Meter : refunds'[k][m] <= 1,
             \A q \in Process : settling[q][k] # "idle" => q = p,
             pc \in {"keeping", "refunding", "returningOps"} => refunds'[k] = Zero,
             pc = "returningBytes" => refunds'[k]["bytes"] = 0,
             Over(k)', \A l \in Key : l # k => Over(l)' = Over(l)
      PROVE  Goal
  <2>1. /\ settling' \in [Process -> [Key -> Settling]]
        /\ \A q \in Process, l \in Key : settling'[q][l] = IF q = p /\ l = k THEN pc ELSE settling[q][l]
    BY <1>4 DEF RefundTypes
  <2>2. RefundTypes' /\ RefundedOnce'
    BY <1>4, <2>1 DEF RefundTypes, RefundedOnce
  <2>3. RefundsDue'
    BY <1>4, <2>1 DEF RefundsDue
  <2>4. FinishInv'
    BY <1>4, <2>1 DEF FinishInv
  <2> QED BY <2>2, <2>3, <2>4
<1>5. ASSUME NEW p \in Process, NEW k \in Key, Finish(p, k)
      PROVE  Goal
  <2>1. /\ job[k].status = "running" /\ UNCHANGED refunds
        /\ \E status \in {"completed", "failed", "cancelled"} : job' = [job EXCEPT ![k].status = status]
        /\ \E pc \in {"keeping", "refunding"} : settling' = [settling EXCEPT ![p][k] = pc]
    BY <1>5 DEF Finish, settlingGoes
  <2>2. ~Over(k) /\ Over(k)' /\ \A l \in Key : l # k => Over(l)' = Over(l)
    BY <1>0, <2>1 DEF Over
  <2>3. refunds[k] = Zero /\ \A q \in Process : settling[q][k] = "idle"
    BY <2>2 DEF FinishInv
  <2>4. refunds' \in [Key -> [Meter -> Nat]] /\ \A m \in Meter : refunds'[k][m] <= 1
    BY <2>1 DEF RefundTypes, RefundedOnce
  <2>5. PICK pc \in Settling : settling' = [settling EXCEPT ![p][k] = pc] /\ pc \in {"keeping", "refunding"}
    BY <2>1 DEF Settling
  <2> QED BY <1>4, <2>1, <2>2, <2>3, <2>4, <2>5
<1>6. ASSUME NEW p \in Process, NEW k \in Key, Claim(p, k) \/ ClaimBlind(p, k)
      PROVE  Goal
  <2>1. /\ settling[p][k] \in {"keeping", "refunding"} /\ UNCHANGED <<job, refunds>>
        /\ \E pc \in {"idle", "returningOps"} : settling' = [settling EXCEPT ![p][k] = pc]
    BY <1>6 DEF Claim, ClaimBlind, won, settlingGoes
  <2>2. Over(k) /\ refunds[k] = Zero /\ \A q \in Process : settling[q][k] # "idle" => q = p
    BY <2>1 DEF FinishInv
  <2>3. Over(k)' /\ \A l \in Key : Over(l)' = Over(l)
    BY <2>1, <2>2 DEF Over
  <2>4. refunds' \in [Key -> [Meter -> Nat]] /\ \A m \in Meter : refunds'[k][m] <= 1
    BY <2>1 DEF RefundTypes, RefundedOnce
  <2>5. PICK pc \in Settling : settling' = [settling EXCEPT ![p][k] = pc] /\ pc \in {"idle", "returningOps"}
    BY <2>1 DEF Settling
  <2> QED BY <1>4, <2>1, <2>2, <2>3, <2>4, <2>5
<1>7. ASSUME NEW p \in Process, NEW k \in Key, ReturnOps(p, k) \/ ReturnBytes(p, k)
      PROVE  Goal
  <2>1. settling[p][k] \in Returning /\ UNCHANGED job
    BY <1>7 DEF ReturnOps, ReturnBytes, Returning
  <2>2. Over(k) /\ \A q \in Process : settling[q][k] # "idle" => q = p
    BY <2>1 DEF FinishInv, Returning
  <2>3. Over(k)' /\ \A l \in Key : Over(l)' = Over(l)
    BY <2>1, <2>2 DEF Over
  <2>4. PICK m \in Meter : /\ refunds[k][m] = 0 \/ UNCHANGED refunds
                           /\ UNCHANGED refunds \/ refunds' = [refunds EXCEPT ![k][m] = @ + 1]
                           /\ settling[p][k] = "returningOps" => m = "ops" /\ refunds[k] = Zero
    BY <1>7 DEF ReturnOps, ReturnBytes, returned, RefundsDue, Zero, Meter
  <2>5. /\ refunds' \in [Key -> [Meter -> Nat]] /\ \A n \in Meter : refunds'[k][n] <= 1
        /\ \A l \in Key : l # k => refunds'[l] = refunds[l]
        /\ settling[p][k] = "returningOps" => refunds'[k]["bytes"] = 0
    <3>1. /\ refunds' \in [Key -> [Meter -> Nat]] /\ \A l \in Key : l # k => refunds'[l] = refunds[l]
          /\ \A n \in Meter : refunds'[k][n] = refunds[k][n] \/ (n = m /\ refunds'[k][n] = 1)
      <4>1. CASE UNCHANGED refunds
        BY <4>1 DEF RefundTypes
      <4>2. CASE refunds[k][m] = 0 /\ refunds' = [refunds EXCEPT ![k][m] = @ + 1]
        <5>1. refunds' = [refunds EXCEPT ![k][m] = 1]
          BY <4>2
        <5> QED BY <5>1 DEF RefundTypes
      <4> QED BY <2>4, <4>1, <4>2
    <3>2. \A n \in Meter : refunds[k][n] <= 1
      BY DEF RefundedOnce
    <3> QED BY <2>4, <3>1, <3>2 DEF Zero, Meter
  <2>6. PICK pc \in Settling : /\ settling' = [settling EXCEPT ![p][k] = pc]
                               /\ pc = "idle" \/ (pc = "returningBytes" /\ settling[p][k] = "returningOps")
    BY <1>7 DEF ReturnOps, ReturnBytes, settlingGoes, Settling
  <2> QED BY <1>4, <2>2, <2>3, <2>5, <2>6
<1>8. ASSUME NEW p \in Process, Crash(p)
      PROVE  Goal
  <2>1. /\ settling' \in [Process -> [Key -> Settling]] /\ UNCHANGED <<job, refunds>>
        /\ \A q \in Process, k \in Key : settling'[q][k] \in {settling[q][k], "idle"}
    BY <1>8 DEF Crash, RefundTypes, Settling
  <2> QED BY <2>1 DEF RefundTypes, RefundsDue, RefundedOnce, FinishInv, Over
<1>9. CASE DayPasses \/ UNCHANGED vars
  BY <1>1, <1>9 DEF DayPasses, vars, Over
<1> QED BY <1>2, <1>3, <1>5, <1>6, <1>7, <1>8, <1>9 DEF Next, SettlementStep

LEMMA OnceInit == Init => Once
BY RefundInit DEF Init, Once, RefundInv, RefundsDue, FinishInv, Over, Zero

LEMMA OnceStep ==
    ASSUME OneSettlement, Shapes, Once, [Next]_vars
    PROVE  Once'
<1>1. CASE ~ClaimFaults
  <2>1. RefundInv'
    BY <1>1, RefundStep DEF Once
  <2>2. RefundTypes' /\ RefundsDue' /\ RefundedOnce'
    BY <2>1 DEF RefundInv, RefundsFollowClaims, RefundsDue
  <2>3. (MaxRetries = 0 => FinishInv)'
    BY FinishStep DEF Once
  <2> QED BY <2>1, <2>2, <2>3 DEF Once
<1>2. CASE ClaimFaults /\ MaxRetries = 0
  BY <1>2, FinishStep DEF Once
<1> QED BY <1>1, <1>2 DEF OneSettlement

--------------------------------------------------------------------------------
(* What a request's step changes.                                             *)

\* What a step of request s makes of it; the other requests stay.
Becomes(s, pc, day, held) ==
    /\ submission'[s].pc = pc /\ submission'[s].day = day /\ submission'[s].held = held
    /\ \A r \in Submission : r # s => submission'[r] = submission[r]

LEMMA Goes ==
    ASSUME submission \in [Submission -> SubmissionState], NEW s \in Submission, NEW pc \in SubmissionPc, goto(s, pc)
    PROVE  /\ submission' \in [Submission -> SubmissionState]
           /\ Becomes(s, pc, submission[s].day, submission[s].held)
           /\ submission'[s].seen = submission[s].seen
BY DEF goto, Becomes, SubmissionState

LEMMA AnswersIt ==
    ASSUME submission \in [Submission -> SubmissionState], NEW s \in Submission, NEW answer \in Answer, answers(s, answer)
    PROVE  /\ submission' \in [Submission -> SubmissionState]
           /\ Becomes(s, "done", submission[s].day, FALSE)
BY DEF answers, Becomes, SubmissionState, SubmissionPc

LEMMA Releases ==
    ASSUME submission \in [Submission -> SubmissionState], NEW s \in Submission, NEW answer \in Answer, releases(s, answer)
    PROVE  /\ submission' \in [Submission -> SubmissionState]
           /\ Becomes(s, IF submission[s].held THEN "givingOps" ELSE "done", submission[s].day, FALSE)
<1>1. PICK pc \in SubmissionPc : pc = IF submission[s].held THEN "givingOps" ELSE "done"
  BY DEF SubmissionPc
<1>2. submission' = [submission EXCEPT ![s].pc = pc, ![s].answer = answer, ![s].held = FALSE]
  BY <1>1 DEF releases
<1>3. submission' \in [Submission -> SubmissionState] /\ Becomes(s, pc, submission[s].day, FALSE)
  BY <1>2 DEF Becomes, SubmissionState
<1> QED BY <1>1, <1>3 DEF Becomes

LEMMA Adds ==
    ASSUME counter \in [Day -> [Meter -> Int]], NEW d \in Day, NEW m \in Meter, NEW n \in Int, add(d, m, n)
    PROVE  /\ counter' \in [Day -> [Meter -> Int]]
           /\ \A e \in Day, l \in Meter :
                counter'[e][l] = IF e = d /\ l = m THEN counter[e][l] + n ELSE counter[e][l]
BY DEF add

\* What request s has of a counter.
Out(s, d, m) == IF Owes(s, m) /\ submission[s].day = d THEN Amount(key(s))[m] ELSE 0

\* The counters follow the requests: at least, and exactly while no counter call rejects.
Follows(s) ==
    \A d \in Day, m \in Meter :
       /\ counter'[d][m] - counter[d][m] >= Out(s, d, m)' - Out(s, d, m)
       /\ ~CounterFaults => counter'[d][m] - counter[d][m] = Out(s, d, m)' - Out(s, d, m)

\* A request that comes to be promised something read a counter within the plan.
Admitted(s) ==
    Enforce => \A m \in Meter : Promised(s, m)' =>
        \/ Promised(s, m) /\ submission'[s].day = submission[s].day
        \/ counter'[submission'[s].day][m] <= Limit[m]

Moved(s) ==
    /\ Shapes' /\ \A r \in Submission : r # s => submission'[r] = submission[r]
    /\ submission'[s].held => submission'[s].pc \in {"uploading", "finding", "creating"}
    /\ UNCHANGED <<settling, claimed, refunds>>

LEMMA SubmissionMoves ==
    ASSUME Shapes, HoldersUpload, NEW s \in Submission, SubmissionStep(s), ~CreateJob(s)
    PROVE  Moved(s) /\ Follows(s) /\ Admitted(s)
           /\ \A k \in Key : job'[k].day = job[k].day /\ (job'[k].status = "none" <=> job[k].status = "none")
<1> PICK me : me = submission[s]
  OBVIOUS
<1>0. /\ me \in SubmissionState /\ me.day \in Day /\ me.held \in BOOLEAN /\ me.pc \in SubmissionPc
      /\ me.held => me.pc \in {"uploading", "finding", "creating"}
      /\ submission \in [Submission -> SubmissionState] /\ counter \in [Day -> [Meter -> Int]]
      /\ key(s) \in Key /\ Amount(key(s))["ops"] = 1 /\ Amount(key(s))["bytes"] = Bytes[key(s)]
      /\ Bytes[key(s)] \in Nat /\ Meter = {"ops", "bytes"} /\ "ops" \in Meter /\ "bytes" \in Meter
  BY KeyOfRequest, Amounts DEF Shapes, HoldersUpload, SubmissionState, Meter
<1>1. CASE ReadCounters(s)
  <2>1. me.pc = "idle" /\ UNCHANGED <<today, counter, job, claimed, settling, remembered, retries, refunds>>
    BY <1>1 DEF ReadCounters, at
  <2>2. /\ submission' \in [Submission -> SubmissionState]
        /\ \E pc \in {"counting", "uploading"}, d \in Day : Becomes(s, pc, d, FALSE)
    <3>1. CASE submission' = [submission EXCEPT ![s].pc = "counting", ![s].day = today, ![s].seen = counter[today]]
      <4>1. today \in Day /\ counter[today] \in [Meter -> Int]
        BY DEF Shapes
      <4>2. ~me.held
        BY <1>0, <2>1
      <4> QED BY <1>0, <3>1, <4>1, <4>2 DEF Becomes, SubmissionState, SubmissionPc
    <3>2. CASE goto(s, "uploading")
      BY <1>0, <2>1, <3>2, Goes DEF SubmissionPc
    <3> QED BY <1>1, <3>1, <3>2 DEF ReadCounters
  <2> QED BY <1>0, <2>1, <2>2 DEF Becomes, Shapes, Moved, Follows, Admitted, Out, Owes, Promised
<1>2. CASE CountActive(s)
  <2>1. me.pc = "counting" /\ UNCHANGED <<today, counter, job, claimed, settling, remembered, retries, refunds>>
    BY <1>2 DEF CountActive, at
  <2>2. /\ submission' \in [Submission -> SubmissionState]
        /\ \E pc \in {"takingOps", "uploading", "done"} : Becomes(s, pc, me.day, FALSE)
    BY <1>0, <1>2, <2>1, Goes, AnswersIt DEF CountActive, SubmissionPc, Answer
  <2> QED BY <1>0, <2>1, <2>2 DEF Becomes, Shapes, Moved, Follows, Admitted, Out, Owes, Promised
<1>3. CASE TakeOps(s)
  <2>1. me.pc = "takingOps" /\ ~me.held /\ UNCHANGED <<today, job, claimed, settling, remembered, retries, refunds>>
    BY <1>0, <1>3 DEF TakeOps, at
  <2>2. CASE add(me.day, "ops", 1)
             /\ submission' = [submission EXCEPT ![s].pc = "takingBytes",
                                  ![s].seen["ops"] = counter[submission[s].day]["ops"] + 1]
    <3>1. /\ submission' \in [Submission -> SubmissionState] /\ Becomes(s, "takingBytes", me.day, FALSE)
          /\ submission'[s].seen["ops"] = counter[me.day]["ops"] + 1
      <4>1. PICK n \in Int : n = counter[me.day]["ops"] + 1
        BY <1>0
      <4>2. submission' = [submission EXCEPT ![s].pc = "takingBytes", ![s].seen["ops"] = n]
        BY <2>2, <4>1
      <4>3. me.seen \in [Meter -> Int]
        BY <1>0 DEF SubmissionState
      <4>4. [me.seen EXCEPT !["ops"] = n] \in [Meter -> Int] /\ [me.seen EXCEPT !["ops"] = n]["ops"] = n
        BY <1>0, <4>3
      <4>5. submission' = [submission EXCEPT ![s] = [me EXCEPT !.pc = "takingBytes", !.seen = [me.seen EXCEPT !["ops"] = n]]]
        BY <1>0, <4>2
      <4> HIDE DEF SubmissionState
      <4>6. [me EXCEPT !.pc = "takingBytes", !.seen = [me.seen EXCEPT !["ops"] = n]] \in SubmissionState
        BY <1>0, <4>4 DEF SubmissionState, SubmissionPc
      <4> QED BY <1>0, <2>1, <4>1, <4>4, <4>5, <4>6 DEF Becomes, SubmissionState
    <3>2. /\ counter' \in [Day -> [Meter -> Int]]
          /\ \A e \in Day, l \in Meter :
                counter'[e][l] = IF e = me.day /\ l = "ops" THEN counter[e][l] + 1 ELSE counter[e][l]
      BY <1>0, <2>2, Adds
    <3>3. Shapes' /\ Moved(s)
      BY <2>1, <3>1, <3>2 DEF Becomes, Shapes, Moved
    <3>4. Follows(s)
      BY <1>0, <2>1, <3>1, <3>2 DEF Becomes, Follows, Out, Owes
    <3>5. Admitted(s)
      BY <1>0, <2>1, <3>1, <3>2 DEF Becomes, Admitted, Promised
    <3> QED BY <2>1, <3>3, <3>4, <3>5
  <2>3. CASE CounterFaults /\ goto(s, "uploading") /\ UNCHANGED counter
    <3>1. submission' \in [Submission -> SubmissionState] /\ Becomes(s, "uploading", me.day, FALSE)
      BY <1>0, <2>1, <2>3, Goes DEF SubmissionPc
    <3> QED BY <1>0, <2>1, <2>3, <3>1 DEF Becomes, Shapes, Moved, Follows, Admitted, Out, Owes, Promised
  <2> QED BY <1>3, <2>2, <2>3 DEF TakeOps
<1>4. CASE TakeBytes(s)
  <2>1. me.pc = "takingBytes" /\ ~me.held /\ UNCHANGED <<today, job, claimed, settling, remembered, retries, refunds>>
    BY <1>0, <1>4 DEF TakeBytes, at
  <2> PICK size \in Nat : size = Bytes[key(s)]
    BY <1>0
  <2>2. CASE /\ add(me.day, "bytes", Bytes[key(s)])
             /\ IF Enforce /\ ~fits(prior(s), key(s))
                THEN submission' = [submission EXCEPT ![s].pc = "givingOps", ![s].answer = "refused"]
                ELSE submission' = [submission EXCEPT ![s].pc = "uploading", ![s].held = TRUE]
    <3>2. /\ counter' \in [Day -> [Meter -> Int]]
          /\ \A e \in Day, l \in Meter :
                counter'[e][l] = IF e = me.day /\ l = "bytes" THEN counter[e][l] + size ELSE counter[e][l]
      BY <1>0, <2>2, Adds
    <3>3. CASE Enforce /\ ~fits(prior(s), key(s))
               /\ submission' = [submission EXCEPT ![s].pc = "givingOps", ![s].answer = "refused"]
      <4>1. submission' \in [Submission -> SubmissionState] /\ Becomes(s, "givingOps", me.day, FALSE)
        BY <1>0, <2>1, <3>3 DEF Becomes, SubmissionState, SubmissionPc, Answer
      <4>2. Shapes' /\ Moved(s)
        BY <2>1, <3>2, <4>1 DEF Becomes, Shapes, Moved
      <4>3. Follows(s)
        BY <1>0, <2>1, <3>2, <4>1 DEF Becomes, Follows, Out, Owes
      <4>4. Admitted(s)
        BY <1>0, <2>1, <3>2, <4>1 DEF Becomes, Admitted, Promised
      <4> QED BY <2>1, <4>2, <4>3, <4>4
    <3>4. CASE ~(Enforce /\ ~fits(prior(s), key(s)))
               /\ submission' = [submission EXCEPT ![s].pc = "uploading", ![s].held = TRUE]
      <4>1. submission' \in [Submission -> SubmissionState] /\ Becomes(s, "uploading", me.day, TRUE)
        BY <1>0, <2>1, <3>4 DEF Becomes, SubmissionState, SubmissionPc, Answer
      <4>2. Shapes' /\ Moved(s)
        BY <2>1, <3>2, <4>1 DEF Becomes, Shapes, Moved
      <4>3. Follows(s)
        BY <1>0, <2>1, <3>2, <4>1 DEF Becomes, Follows, Out, Owes
      <4>4. Admitted(s)
        <5>1. /\ me.seen["ops"] \in Int /\ counter[me.day]["bytes"] \in Int
              /\ Limit["ops"] \in Nat /\ Limit["bytes"] \in Nat
          BY <1>0, MeteringAssumption DEF SubmissionState
        <5>2. prior(s).ops = me.seen["ops"] - 1 /\ prior(s).bytes = counter[me.day]["bytes"]
          BY DEF prior
        <5>3. Enforce => me.seen["ops"] <= Limit["ops"] /\ counter[me.day]["bytes"] + size <= Limit["bytes"]
          BY <1>0, <3>4, <5>1, <5>2 DEF fits
        <5>4. Enforce => Promised(s, "ops")
          BY <2>1, <5>3 DEF Promised
        <5>5. Enforce => counter'[me.day]["bytes"] <= Limit["bytes"]
          BY <1>0, <3>2, <5>3
        <5> QED BY <1>0, <4>1, <5>4, <5>5 DEF Becomes, Admitted
      <4> QED BY <2>1, <4>2, <4>3, <4>4
    <3> QED BY <2>2, <3>3, <3>4
  <2>3. CASE CounterFaults /\ goto(s, "uploading") /\ UNCHANGED counter
    <3>1. submission' \in [Submission -> SubmissionState] /\ Becomes(s, "uploading", me.day, FALSE)
      BY <1>0, <2>1, <2>3, Goes DEF SubmissionPc
    <3> QED BY <1>0, <2>1, <2>3, <3>1 DEF Becomes, Shapes, Moved, Follows, Admitted, Out, Owes, Promised
  <2> QED BY <1>4, <2>2, <2>3 DEF TakeBytes
<1>5. CASE GiveBackOps(s)
  <2>1. me.pc = "givingOps" /\ ~me.held /\ UNCHANGED <<today, job, claimed, settling, remembered, retries, refunds>>
    BY <1>0, <1>5 DEF GiveBackOps, at
  <2>2. CASE add(me.day, "ops", -1) /\ goto(s, "givingBytes")
    <3>1. submission' \in [Submission -> SubmissionState] /\ Becomes(s, "givingBytes", me.day, FALSE)
      BY <1>0, <2>1, <2>2, Goes DEF SubmissionPc
    <3>2. /\ counter' \in [Day -> [Meter -> Int]]
          /\ \A e \in Day, l \in Meter :
                counter'[e][l] = IF e = me.day /\ l = "ops" THEN counter[e][l] + (-1) ELSE counter[e][l]
      BY <1>0, <2>2, Adds
    <3>3. Shapes' /\ Moved(s)
      BY <2>1, <3>1, <3>2 DEF Becomes, Shapes, Moved
    <3>4. Follows(s)
      BY <1>0, <2>1, <3>1, <3>2 DEF Becomes, Follows, Out, Owes
    <3>5. Admitted(s)
      BY <1>0, <2>1, <3>1, <3>2 DEF Becomes, Admitted, Promised
    <3> QED BY <2>1, <3>3, <3>4, <3>5
  <2>3. CASE CounterFaults /\ goto(s, "done") /\ UNCHANGED counter
    <3>1. submission' \in [Submission -> SubmissionState] /\ Becomes(s, "done", me.day, FALSE)
      BY <1>0, <2>1, <2>3, Goes DEF SubmissionPc
    <3> QED BY <1>0, <2>1, <2>3, <3>1 DEF Becomes, Shapes, Moved, Follows, Admitted, Out, Owes, Promised
  <2> QED BY <1>5, <2>2, <2>3 DEF GiveBackOps
<1>6. CASE GiveBackBytes(s)
  <2>1. me.pc = "givingBytes" /\ ~me.held /\ UNCHANGED <<today, job, claimed, settling, remembered, retries, refunds>>
    BY <1>0, <1>6 DEF GiveBackBytes, at
  <2> PICK size \in Nat : size = Bytes[key(s)]
    BY <1>0
  <2>2. submission' \in [Submission -> SubmissionState] /\ Becomes(s, "done", me.day, FALSE)
    BY <1>0, <1>6, <2>1, Goes DEF GiveBackBytes, SubmissionPc
  <2>3. CASE add(me.day, "bytes", -Bytes[key(s)])
    <3>2. /\ counter' \in [Day -> [Meter -> Int]]
          /\ \A e \in Day, l \in Meter :
                counter'[e][l] = IF e = me.day /\ l = "bytes" THEN counter[e][l] + (-size) ELSE counter[e][l]
      BY <1>0, <2>3, Adds
    <3>3. Shapes' /\ Moved(s)
      BY <2>1, <2>2, <3>2 DEF Becomes, Shapes, Moved
    <3>4. Follows(s)
      BY <1>0, <2>1, <2>2, <3>2 DEF Becomes, Follows, Out, Owes
    <3>5. Admitted(s)
      BY <1>0, <2>1, <2>2, <3>2 DEF Becomes, Admitted, Promised
    <3> QED BY <2>1, <3>3, <3>4, <3>5
  <2>4. CASE CounterFaults /\ UNCHANGED counter
    BY <1>0, <2>1, <2>2, <2>4 DEF Becomes, Shapes, Moved, Follows, Admitted, Out, Owes, Promised
  <2> QED BY <1>6, <2>3, <2>4 DEF GiveBackBytes
<1>7. CASE Upload(s) \/ FindKey(s)
  <2>1. /\ me.pc \in {"uploading", "finding"}
        /\ UNCHANGED <<today, counter, job, claimed, settling, remembered, retries, refunds>>
    BY <1>7 DEF Upload, FindKey, at
  <2>2. /\ submission' \in [Submission -> SubmissionState]
        /\ \/ \E pc \in {"finding", "creating"} : Becomes(s, pc, me.day, me.held)
           \/ Becomes(s, IF me.held THEN "givingOps" ELSE "done", me.day, FALSE)
    BY <1>0, <1>7, <2>1, Goes, Releases DEF Upload, FindKey, SubmissionPc, Answer
  <2> QED BY <1>0, <2>1, <2>2 DEF Becomes, Shapes, Moved, Follows, Admitted, Out, Owes, Promised
<1>8. CASE QueueJob(s)
  <2>1. /\ me.pc = "queueing" /\ ~me.held
        /\ UNCHANGED <<today, counter, claimed, settling, remembered, retries, refunds>>
    BY <1>0, <1>8 DEF QueueJob, at
  <2>2. submission' \in [Submission -> SubmissionState] /\ Becomes(s, "done", me.day, FALSE)
    BY <1>0, <1>8, <2>1, AnswersIt DEF QueueJob, Answer
  <2>3. job' \in [Key -> Job]
        /\ \A k \in Key : job'[k].day = job[k].day /\ (job'[k].status = "none" <=> job[k].status = "none")
    <3>1. UNCHANGED job \/ (job[key(s)].status = "created"
            /\ \E status \in {"queued", "failed"} : job' = [job EXCEPT ![key(s)].status = status])
      BY <1>8 DEF QueueJob
    <3>2. job \in [Key -> Job]
      BY DEF Shapes
    <3> QED BY <1>0, <3>1, <3>2 DEF Job, JobStatus
  <2> QED BY <1>0, <2>1, <2>2, <2>3 DEF Becomes, Shapes, Moved, Follows, Admitted, Out, Owes, Promised
<1> QED BY <1>1, <1>2, <1>3, <1>4, <1>5, <1>6, <1>7, <1>8 DEF SubmissionStep

--------------------------------------------------------------------------------
(* What a step does to what is owed, and to what is promised.                 *)

\* What request s is promised of a counter, and what job k has of it.
Due(s, d, m) == IF Promised(s, m) /\ submission[s].day = d THEN Amount(key(s))[m] ELSE 0
Has(k, d, m) == IF job[k].day = d /\ refunds[k][m] = 0 THEN Amount(k)[m] ELSE 0

LEMMA RequestLedger ==
    ASSUME NEW s \in Submission, \A r \in Submission : r # s => submission'[r] = submission[r],
           NEW d \in Day, NEW m \in Meter
    PROVE  /\ OfRequests(Owing(d, m), m) \in Nat /\ OfRequests(Promising(d, m), m) \in Nat
           /\ OfRequests(Owing(d, m), m)' = OfRequests(Owing(d, m), m) + Out(s, d, m)' - Out(s, d, m)
           /\ OfRequests(Promising(d, m), m)' = OfRequests(Promising(d, m), m) + Due(s, d, m)' - Due(s, d, m)
<1>0. PICK n \in Nat : n = Amount(key(s))[m]
  BY KeyOfRequest, Amounts
<1>1. ASSUME NEW R \in SUBSET Submission, NEW T \in SUBSET Submission, R \ {s} = T \ {s}
      PROVE  /\ OfRequests(R, m) \in Nat /\ OfRequests(T, m) \in Nat
             /\ OfRequests(T, m) = OfRequests(R, m) + (IF s \in T THEN n ELSE 0) - (IF s \in R THEN n ELSE 0)
  <2>1. /\ OfRequests(R, m) \in Nat /\ OfRequests(T, m) \in Nat
        /\ s \in R /\ s \notin T => OfRequests(R, m) = OfRequests(T, m) + n
        /\ s \in T /\ s \notin R => OfRequests(T, m) = OfRequests(R, m) + n
        /\ (s \in R <=> s \in T) => OfRequests(R, m) = OfRequests(T, m)
    BY <1>0, <1>1, RequestTurns
  <2> QED BY <2>1
<1>2. PICK R, T : R = Owing(d, m) /\ T = Owing(d, m)'
  OBVIOUS
<1>3. /\ R \in SUBSET Submission /\ T \in SUBSET Submission /\ R \ {s} = T \ {s}
      /\ Out(s, d, m) = (IF s \in R THEN n ELSE 0) /\ Out(s, d, m)' = (IF s \in T THEN n ELSE 0)
  BY <1>0, <1>2 DEF Owing, Out, Owes
<1>4. /\ OfRequests(R, m) \in Nat
      /\ OfRequests(T, m) = OfRequests(R, m) + Out(s, d, m)' - Out(s, d, m)
  BY <1>1, <1>3
<1>5. PICK P, Q : P = Promising(d, m) /\ Q = Promising(d, m)'
  OBVIOUS
<1>6. /\ P \in SUBSET Submission /\ Q \in SUBSET Submission /\ P \ {s} = Q \ {s}
      /\ Due(s, d, m) = (IF s \in P THEN n ELSE 0) /\ Due(s, d, m)' = (IF s \in Q THEN n ELSE 0)
  BY <1>0, <1>5 DEF Promising, Due, Promised
<1>7. /\ OfRequests(P, m) \in Nat
      /\ OfRequests(Q, m) = OfRequests(P, m) + Due(s, d, m)' - Due(s, d, m)
  BY <1>1, <1>6
<1>8. OfRequests(Owing(d, m), m)' = OfRequests(T, m) /\ OfRequests(Promising(d, m), m)' = OfRequests(Q, m)
  BY <1>2, <1>5 DEF OfRequests, Amount, key
<1> QED BY <1>2, <1>4, <1>5, <1>7, <1>8

LEMMA JobLedger ==
    ASSUME NEW k \in Key, \A l \in Key : l # k => job'[l].day = job[l].day /\ refunds'[l] = refunds[l],
           NEW d \in Day, NEW m \in Meter
    PROVE  /\ OfJobs(Charged(d, m), m) \in Nat
           /\ OfJobs(Charged(d, m), m)' = OfJobs(Charged(d, m), m) + Has(k, d, m)' - Has(k, d, m)
<1>0. PICK n \in Nat : n = Amount(k)[m]
  BY Amounts
<1>2. PICK R, T : R = Charged(d, m) /\ T = Charged(d, m)'
  OBVIOUS
<1>3. /\ R \in SUBSET Key /\ T \in SUBSET Key /\ R \ {k} = T \ {k}
      /\ Has(k, d, m) = (IF k \in R THEN n ELSE 0) /\ Has(k, d, m)' = (IF k \in T THEN n ELSE 0)
  BY <1>0, <1>2 DEF Charged, Has
<1>4. /\ OfJobs(R, m) \in Nat
      /\ OfJobs(T, m) = OfJobs(R, m) + Has(k, d, m)' - Has(k, d, m)
  BY <1>0, <1>3, JobTurns
<1>5. OfJobs(Charged(d, m), m)' = OfJobs(T, m)
  BY <1>2 DEF OfJobs, Amount
<1> QED BY <1>2, <1>4, <1>5

\* The jobs' part stays when no job's reservation moves.
LEMMA JobsStay ==
    ASSUME \A k \in Key : job'[k].day = job[k].day, UNCHANGED refunds, NEW d \in Day, NEW m \in Meter
    PROVE  /\ OfJobs(Charged(d, m), m) \in Nat
           /\ OfJobs(Charged(d, m), m)' = OfJobs(Charged(d, m), m)
<1>1. PICK R \in SUBSET Key : R = Charged(d, m) /\ R = Charged(d, m)'
  BY DEF Charged
<1>2. OfJobs(Charged(d, m), m)' = OfJobs(R, m)
  BY <1>1 DEF OfJobs, Amount
<1> QED BY <1>1, <1>2, JobsCount

\* So does the requests' part.
LEMMA RequestsStay ==
    ASSUME UNCHANGED submission, NEW d \in Day, NEW m \in Meter
    PROVE  /\ OfRequests(Owing(d, m), m) \in Nat /\ OfRequests(Promising(d, m), m) \in Nat
           /\ OfRequests(Owing(d, m), m)' = OfRequests(Owing(d, m), m)
           /\ OfRequests(Promising(d, m), m)' = OfRequests(Promising(d, m), m)
<1>1. PICK R \in SUBSET Submission : R = Owing(d, m) /\ R = Owing(d, m)'
  BY DEF Owing, Owes
<1>2. PICK P \in SUBSET Submission : P = Promising(d, m) /\ P = Promising(d, m)'
  BY DEF Promising, Promised
<1>3. OfRequests(Owing(d, m), m)' = OfRequests(R, m) /\ OfRequests(Promising(d, m), m)' = OfRequests(P, m)
  BY <1>1, <1>2 DEF OfRequests, Amount, key
<1>4. OfRequests(R, m) \in Nat /\ OfRequests(P, m) \in Nat
  BY RequestsGrow
<1> QED BY <1>1, <1>2, <1>3, <1>4

\* The counter of a meter and what is owed to it move together.
Gap(d, m) == counter[d][m] - Owed(d, m)
Rising(d, m) == Gap(d, m)' >= Gap(d, m)
Level(d, m) == Gap(d, m)' = Gap(d, m)

\* No more is promised, or the counter that was read is within the plan.
Prudent(d, m) == Enforce => Promise(d, m)' <= Promise(d, m) \/ counter'[d][m] <= Limit[m]

\* What is promised is owed.
LEMMA Sums ==
    ASSUME NEW d \in Day, NEW m \in Meter
    PROVE  /\ Owed(d, m) \in Nat /\ Promise(d, m) \in Nat /\ Promise(d, m) <= Owed(d, m)
           /\ Standing(d, m) \in Nat /\ Standing(d, m) <= Promise(d, m)
<1> DEFINE holding == {s \in Submission : submission[s].held /\ submission[s].day = d}
<1>1. PICK H, P, R : H = holding /\ P = Promising(d, m) /\ R = Owing(d, m)
  OBVIOUS
<1>2. H \subseteq P /\ P \subseteq R /\ P \in SUBSET Submission /\ R \in SUBSET Submission
  BY <1>1 DEF Promising, Promised, Owing, Owes
<1>3. /\ OfRequests(H, m) \in Nat /\ OfRequests(P, m) \in Nat /\ OfRequests(R, m) \in Nat
      /\ OfRequests(H, m) <= OfRequests(P, m) /\ OfRequests(P, m) <= OfRequests(R, m)
  BY <1>2, RequestsGrow
<1>4. OfJobs(Charged(d, m), m) \in Nat
  BY JobsCount DEF Charged
<1> QED BY <1>1, <1>3, <1>4 DEF Owed, Promise, Standing

\* The same after a step.
Ordered == \A d \in Day, m \in Meter : Owed(d, m) \in Nat /\ Promise(d, m) \in Nat /\ Promise(d, m) <= Owed(d, m)

LEMMA SumsNext == Ordered'
<1>1. Ordered
  BY Sums DEF Ordered
<1> QED BY <1>1, PTL

LEMMA Levels ==
    ASSUME Shapes, NEW d \in Day, NEW m \in Meter, Level(d, m)
    PROVE  Rising(d, m)
BY Sums DEF Shapes, Level, Rising, Gap

LEMMA SubmissionBooks ==
    ASSUME Shapes, HoldersUpload, NEW s \in Submission, SubmissionStep(s), ~CreateJob(s), NEW d \in Day, NEW m \in Meter
    PROVE  Rising(d, m) /\ (~CounterFaults => Level(d, m)) /\ Prudent(d, m)
<1>1. /\ Moved(s) /\ Follows(s) /\ Admitted(s) /\ \A k \in Key : job'[k].day = job[k].day
  BY SubmissionMoves
<1>2. PICK n \in Nat : n = Amount(key(s))[m]
  BY KeyOfRequest, Amounts
<1>3. /\ Out(s, d, m) \in Nat /\ Out(s, d, m)' \in Nat /\ Due(s, d, m) \in Nat /\ Due(s, d, m)' \in Nat
  BY <1>2 DEF Out, Due, Amount, key
<1>4. /\ counter[d][m] \in Int /\ counter'[d][m] \in Int
      /\ counter'[d][m] - counter[d][m] >= Out(s, d, m)' - Out(s, d, m)
      /\ ~CounterFaults => counter'[d][m] - counter[d][m] = Out(s, d, m)' - Out(s, d, m)
  BY <1>1 DEF Moved, Follows, Shapes
<1>5. /\ OfRequests(Owing(d, m), m) \in Nat /\ OfRequests(Promising(d, m), m) \in Nat
      /\ OfRequests(Owing(d, m), m)' = OfRequests(Owing(d, m), m) + Out(s, d, m)' - Out(s, d, m)
      /\ OfRequests(Promising(d, m), m)' = OfRequests(Promising(d, m), m) + Due(s, d, m)' - Due(s, d, m)
  BY <1>1, RequestLedger DEF Moved
<1>6. /\ OfJobs(Charged(d, m), m) \in Nat
      /\ OfJobs(Charged(d, m), m)' = OfJobs(Charged(d, m), m)
  BY <1>1, JobsStay DEF Moved
<1>7. /\ Owed(d, m) \in Int /\ Owed(d, m)' = Owed(d, m) + Out(s, d, m)' - Out(s, d, m)
      /\ Promise(d, m) \in Int /\ Promise(d, m)' = Promise(d, m) + Due(s, d, m)' - Due(s, d, m)
  BY <1>3, <1>5, <1>6 DEF Owed, Promise
<1>8. Rising(d, m) /\ (~CounterFaults => Level(d, m))
  BY <1>3, <1>4, <1>7 DEF Rising, Level, Gap
<1>9. Enforce => Due(s, d, m)' <= Due(s, d, m) \/ counter'[d][m] <= Limit[m]
  BY <1>1, <1>2 DEF Admitted, Due, Amount, key
<1>10. Prudent(d, m)
  BY <1>3, <1>7, <1>9 DEF Prudent
<1> QED BY <1>8, <1>10

\* createJob hands the reservation a request holds to the job it makes, or prepares its return.
LEMMA CreateBooks ==
    ASSUME Shapes, HoldersUpload, Fresh, RefundTypes, NEW s \in Submission, CreateJob(s)
    PROVE  /\ Moved(s) /\ \A d \in Day, m \in Meter : Level(d, m) /\ Prudent(d, m)
           /\ \A k \in Key : \/ job'[k] = job[k]
                             \/ job[k].status = "none" /\ job'[k].status # "none"
<1> PICK me : me = submission[s]
  OBVIOUS
<1> PICK k \in Key : k = key(s)
  BY KeyOfRequest
<1>0. /\ me \in SubmissionState /\ me.day \in Day /\ me.held \in BOOLEAN /\ me.pc = "creating"
      /\ submission \in [Submission -> SubmissionState] /\ counter \in [Day -> [Meter -> Int]]
      /\ job \in [Key -> Job] /\ UNCHANGED <<today, counter, claimed, settling, remembered, retries, refunds>>
  BY DEF Shapes, SubmissionState, CreateJob, at
<1>1. \A d \in Day, m \in Meter : Amount(k)[m] \in Nat /\ counter[d][m] \in Int
  BY <1>0, Amounts
<1>2. CASE /\ job[k].status = "none"
           /\ job' = [job EXCEPT ![k] = [status |-> "created", day |-> IF me.held THEN me.day ELSE 0]]
           /\ submission' = [submission EXCEPT ![s].pc = "queueing", ![s].held = FALSE]
  <2>1. submission' \in [Submission -> SubmissionState] /\ Becomes(s, "queueing", me.day, FALSE)
    BY <1>0, <1>2 DEF Becomes, SubmissionState, SubmissionPc
  <2>2. /\ job' \in [Key -> Job] /\ \A l \in Key : l # k => job'[l] = job[l]
        /\ job'[k].status = "created" /\ job'[k].day = IF me.held THEN me.day ELSE 0
    <3>1. PICK day \in 0..LastDay : day = IF me.held THEN me.day ELSE 0
      BY <1>0, MeteringAssumption DEF Day
    <3>2. job' = [job EXCEPT ![k] = [status |-> "created", day |-> day]]
      BY <1>2, <3>1
    <3>3. [status |-> "created", day |-> day] \in Job
      BY DEF Job, JobStatus
    <3> QED BY <1>0, <3>1, <3>2, <3>3
  <2>3. Moved(s)
    BY <1>0, <2>1, <2>2 DEF Moved, Becomes, Shapes
  <2>4. job[k].day = 0 /\ \A m \in Meter : refunds[k][m] = 0
    BY <1>2 DEF Fresh, Zero
  <2>5. ASSUME NEW d \in Day, NEW m \in Meter PROVE Level(d, m) /\ Prudent(d, m)
    <3>1. /\ Out(s, d, m) = (IF me.held /\ me.day = d THEN Amount(k)[m] ELSE 0) /\ Out(s, d, m)' = 0
          /\ Due(s, d, m) = Out(s, d, m) /\ Due(s, d, m)' = 0
      BY <1>0, <2>1 DEF Out, Due, Owes, Promised, Becomes
    <3>2. d # 0
      BY DEF Day
    <3>3. Has(k, d, m) = 0 /\ Has(k, d, m)' = IF me.held /\ me.day = d THEN Amount(k)[m] ELSE 0
      BY <1>0, <2>2, <2>4, <3>2 DEF Has, Amount
    <3>4. /\ OfRequests(Owing(d, m), m) \in Nat /\ OfRequests(Promising(d, m), m) \in Nat
          /\ OfRequests(Owing(d, m), m)' = OfRequests(Owing(d, m), m) + Out(s, d, m)' - Out(s, d, m)
          /\ OfRequests(Promising(d, m), m)' = OfRequests(Promising(d, m), m) + Due(s, d, m)' - Due(s, d, m)
      BY <2>3, RequestLedger DEF Moved
    <3>5. /\ OfJobs(Charged(d, m), m) \in Nat
          /\ OfJobs(Charged(d, m), m)' = OfJobs(Charged(d, m), m) + Has(k, d, m)' - Has(k, d, m)
      BY <1>0, <2>2, JobLedger
    <3>6. Owed(d, m)' = Owed(d, m) /\ Promise(d, m)' = Promise(d, m) /\ Promise(d, m) \in Int
      BY <1>1, <3>1, <3>3, <3>4, <3>5 DEF Owed, Promise
    <3> QED BY <1>0, <3>6 DEF Level, Gap, Prudent
  <2> QED BY <1>2, <2>2, <2>3, <2>5
<1>3. CASE releases(s, "failed") /\ UNCHANGED job
  <2>1. /\ submission' \in [Submission -> SubmissionState]
        /\ Becomes(s, IF me.held THEN "givingOps" ELSE "done", me.day, FALSE)
    BY <1>0, <1>3, Releases DEF Answer
  <2>3. Moved(s)
    BY <1>0, <1>3, <2>1 DEF Moved, Becomes, Shapes
  <2>5. ASSUME NEW d \in Day, NEW m \in Meter PROVE Level(d, m) /\ Prudent(d, m)
    <3>1. /\ Out(s, d, m) = (IF me.held /\ me.day = d THEN Amount(k)[m] ELSE 0) /\ Out(s, d, m)' = Out(s, d, m)
          /\ Due(s, d, m) = Out(s, d, m) /\ Due(s, d, m)' = 0
      BY <1>0, <2>1 DEF Out, Due, Owes, Promised, Becomes, Amount, key, Meter
    <3>4. /\ OfRequests(Owing(d, m), m) \in Nat /\ OfRequests(Promising(d, m), m) \in Nat
          /\ OfRequests(Owing(d, m), m)' = OfRequests(Owing(d, m), m) + Out(s, d, m)' - Out(s, d, m)
          /\ OfRequests(Promising(d, m), m)' = OfRequests(Promising(d, m), m) + Due(s, d, m)' - Due(s, d, m)
      BY <2>3, RequestLedger DEF Moved
    <3>5. OfJobs(Charged(d, m), m) \in Nat /\ OfJobs(Charged(d, m), m)' = OfJobs(Charged(d, m), m)
      BY <1>0, <1>3, JobsStay
    <3>6. Owed(d, m)' = Owed(d, m) /\ Promise(d, m)' <= Promise(d, m)
      BY <1>1, <3>1, <3>4, <3>5 DEF Owed, Promise
    <3> QED BY <1>0, <3>6 DEF Level, Gap, Prudent
  <2> QED BY <1>3, <2>3, <2>5
<1> QED BY <1>2, <1>3 DEF CreateJob

LEMMA OrdersBySubmission ==
    ASSUME Shapes, RefundTypes, Orders, NEW s \in Submission, SubmissionStep(s)
    PROVE  Shapes' /\ Orders'
<1>1. /\ Moved(s)
      /\ \A k \in Key : \/ job'[k].day = job[k].day /\ (job'[k].status = "none" <=> job[k].status = "none")
                        \/ job[k].status = "none" /\ job'[k].status # "none"
  BY SubmissionMoves, CreateBooks DEF Orders
<1>2. HoldersUpload'
  BY <1>1 DEF Moved, Orders, HoldersUpload
<1>3. Fresh' /\ Dated'
  BY <1>1 DEF Moved, Orders, Fresh, Dated, Returning
<1> QED BY <1>1, <1>2, <1>3 DEF Moved, Orders

\* A step that moves no reservation and no counter.
LEMMA QuietBooks ==
    ASSUME Shapes, UNCHANGED <<counter, submission, refunds>>, \A k \in Key : job'[k].day = job[k].day,
           NEW d \in Day, NEW m \in Meter
    PROVE  Level(d, m) /\ Prudent(d, m)
<1>1. /\ OfRequests(Owing(d, m), m)' = OfRequests(Owing(d, m), m)
      /\ OfRequests(Promising(d, m), m)' = OfRequests(Promising(d, m), m)
      /\ OfRequests(Promising(d, m), m) \in Nat
  BY RequestsStay
<1>2. OfJobs(Charged(d, m), m)' = OfJobs(Charged(d, m), m) /\ OfJobs(Charged(d, m), m) \in Nat
  BY JobsStay
<1>3. Owed(d, m)' = Owed(d, m) /\ Promise(d, m)' = Promise(d, m) /\ Promise(d, m) \in Int
  BY <1>1, <1>2 DEF Owed, Promise
<1> QED BY <1>3 DEF Level, Gap, Prudent

\* A refund takes from its day's counter what the job had of it.
LEMMA RefundBooks ==
    ASSUME Shapes, RefundTypes, NEW k \in Key, NEW l \in Meter, returned(k, l), job[k].day \in Day,
           refunds[k][l] = 0, UNCHANGED <<submission, job>>
    PROVE  /\ counter' \in [Day -> [Meter -> Int]]
           /\ \A d \in Day, m \in Meter : Level(d, m) /\ Prudent(d, m)
<1>0. PICK day \in Day, n \in Nat : day = job[k].day /\ n = Amount(k)[l]
  BY Amounts
<1>1. add(day, l, -n) /\ refunds' = [refunds EXCEPT ![k][l] = 0 + 1] /\ counter \in [Day -> [Meter -> Int]]
  BY <1>0 DEF returned, window, Shapes
<1>2. /\ counter' \in [Day -> [Meter -> Int]]
      /\ \A d \in Day, m \in Meter :
           counter'[d][m] = IF d = day /\ m = l THEN counter[d][m] + (-n) ELSE counter[d][m]
  BY <1>1, Adds
<1>3. /\ \A j \in Key : j # k => refunds'[j] = refunds[j]
      /\ refunds'[k][l] = 1 /\ \A m \in Meter : m # l => refunds'[k][m] = refunds[k][m]
  BY <1>1 DEF RefundTypes
<1>4. ASSUME NEW d \in Day, NEW m \in Meter PROVE Level(d, m) /\ Prudent(d, m)
  <2>0. PICK a \in Nat : a = Amount(k)[m]
    BY Amounts
  <2>1. /\ Has(k, d, m) = (IF job[k].day = d /\ refunds[k][m] = 0 THEN a ELSE 0)
        /\ Has(k, d, m)' = (IF job[k].day = d /\ refunds'[k][m] = 0 THEN a ELSE 0)
    BY <2>0 DEF Has, Amount
  <2>2. Has(k, d, m)' - Has(k, d, m) = IF d = day /\ m = l THEN -n ELSE 0
    BY <1>0, <1>3, <2>0, <2>1
  <2>3. /\ OfRequests(Owing(d, m), m) \in Nat /\ OfRequests(Promising(d, m), m) \in Nat
        /\ OfRequests(Owing(d, m), m)' = OfRequests(Owing(d, m), m)
        /\ OfRequests(Promising(d, m), m)' = OfRequests(Promising(d, m), m)
    BY RequestsStay
  <2>4. /\ OfJobs(Charged(d, m), m) \in Nat
        /\ OfJobs(Charged(d, m), m)' = OfJobs(Charged(d, m), m) + Has(k, d, m)' - Has(k, d, m)
    BY <1>3, JobLedger
  <2>5. /\ Owed(d, m) \in Nat /\ Promise(d, m) \in Nat
        /\ Owed(d, m)' = Owed(d, m) + (IF d = day /\ m = l THEN -n ELSE 0)
        /\ Promise(d, m)' = Promise(d, m) + (IF d = day /\ m = l THEN -n ELSE 0)
    BY <2>0, <2>1, <2>2, <2>3, <2>4 DEF Owed, Promise
  <2>6. counter[d][m] \in Int
    BY <1>1
  <2> QED BY <1>2, <2>5, <2>6 DEF Level, Gap, Prudent
<1> QED BY <1>2, <1>4

\* A crash forgets what requests owed: the counter keeps it.
LEMMA CrashBooks ==
    ASSUME Shapes, NEW p \in Process, Crash(p), NEW d \in Day, NEW m \in Meter
    PROVE  Rising(d, m) /\ Prudent(d, m)
<1>1. \A s \in Submission : submission'[s] = submission[s] \/ submission'[s] = lost(s)
  BY DEF Crash
<1>2. \A s \in Submission : lost(s).pc = "done" /\ lost(s).held = FALSE
  BY DEF lost, Shapes, SubmissionState
<1>3. PICK R, T : R = Owing(d, m) /\ T = Owing(d, m)'
  OBVIOUS
<1>4. R \in SUBSET Submission /\ T \subseteq R
  BY <1>1, <1>2, <1>3 DEF Owing, Owes
<1>5. PICK P, Q : P = Promising(d, m) /\ Q = Promising(d, m)'
  OBVIOUS
<1>6. P \in SUBSET Submission /\ Q \subseteq P
  BY <1>1, <1>2, <1>5 DEF Promising, Promised
<1>7. OfRequests(Owing(d, m), m)' = OfRequests(T, m) /\ OfRequests(Promising(d, m), m)' = OfRequests(Q, m)
  BY <1>3, <1>5 DEF OfRequests, Amount, key
<1>8. /\ OfRequests(R, m) \in Nat /\ OfRequests(T, m) \in Nat /\ OfRequests(T, m) <= OfRequests(R, m)
      /\ OfRequests(P, m) \in Nat /\ OfRequests(Q, m) \in Nat /\ OfRequests(Q, m) <= OfRequests(P, m)
  BY <1>4, <1>6, RequestsGrow
<1>9. OfJobs(Charged(d, m), m)' = OfJobs(Charged(d, m), m) /\ OfJobs(Charged(d, m), m) \in Nat
  BY JobsStay DEF Crash
<1>10. /\ Owed(d, m) \in Int /\ Owed(d, m)' \in Int /\ Owed(d, m)' <= Owed(d, m)
       /\ Promise(d, m)' <= Promise(d, m)
  BY <1>3, <1>5, <1>7, <1>8, <1>9 DEF Owed, Promise
<1>11. counter[d][m] \in Int /\ UNCHANGED counter
  BY DEF Shapes, Crash
<1> QED BY <1>10, <1>11 DEF Rising, Gap, Prudent

--------------------------------------------------------------------------------
(* The steps of the jobs and of their settlements.                            *)

LEMMA JobMoves ==
    ASSUME Shapes, RefundTypes, Orders, NEW k \in Key, Start(k) \/ CancelWaiting(k) \/ UserRetry(k)
    PROVE  /\ Shapes' /\ Orders' /\ UNCHANGED <<counter, submission, refunds>>
           /\ \A l \in Key : job'[l].day = job[l].day
<1>1. /\ UNCHANGED <<today, counter, submission, claimed, settling, remembered, refunds>>
      /\ job[k].status # "none"
      /\ \E status \in JobStatus \ {"none"} : job' = [job EXCEPT ![k].status = status]
  BY DEF Start, CancelWaiting, UserRetry, JobStatus
<1>2. /\ job' \in [Key -> Job]
      /\ \A l \in Key : job'[l].day = job[l].day /\ (job'[l].status = "none" <=> job[l].status = "none")
  BY <1>1 DEF Shapes, Job
<1>3. retries' \in [Key -> 0..MaxRetries]
  <2>1. CASE UNCHANGED retries
    BY <2>1 DEF Shapes
  <2>2. CASE UserRetry(k)
    BY <2>2, MeteringAssumption DEF UserRetry, Shapes
  <2> QED BY <2>1, <2>2 DEF Start, CancelWaiting
<1>4. Shapes'
  BY <1>1, <1>2, <1>3 DEF Shapes
<1>5. Orders'
  BY <1>1, <1>2 DEF Orders, HoldersUpload, Fresh, Dated
<1> QED BY <1>1, <1>2, <1>4, <1>5

LEMMA SettlementMoves ==
    ASSUME Shapes, RefundTypes, Orders, NEW p \in Process, NEW k \in Key, Finish(p, k) \/ Claim(p, k) \/ ClaimBlind(p, k)
    PROVE  /\ Shapes' /\ Orders' /\ UNCHANGED <<counter, submission, refunds>>
           /\ \A l \in Key : job'[l].day = job[l].day
<1>1. /\ UNCHANGED <<today, counter, submission, retries, refunds>>
      /\ remembered' \in [Process -> SUBSET Key]
  BY DEF Finish, Claim, ClaimBlind, Shapes
<1>2. /\ job' \in [Key -> Job] /\ job[k].status # "none" /\ claimed' \subseteq claimed \cup {k}
      /\ \A l \in Key : job'[l].day = job[l].day /\ (job'[l].status = "none" <=> job[l].status = "none")
  <2>1. CASE Finish(p, k)
    <3>1. PICK outcome \in {"completed", "failed", "cancelled"} : job' = [job EXCEPT ![k].status = outcome]
      BY <2>1 DEF Finish
    <3> QED BY <2>1, <3>1 DEF Finish, Shapes, Job, JobStatus
  <2>2. CASE Claim(p, k) \/ ClaimBlind(p, k)
    BY <2>2 DEF Claim, ClaimBlind, Shapes, Orders, Fresh
  <2> QED BY <2>1, <2>2
<1>3. PICK pc \in {"idle", "keeping", "refunding", "returningOps"} :
         /\ settling' = [settling EXCEPT ![p][k] = pc]
         /\ pc = "returningOps" => job[k].day # 0
  BY DEF Finish, Claim, ClaimBlind, won, settlingGoes
<1>4. \A q \in Process, l \in Key : settling'[q][l] = IF q = p /\ l = k THEN pc ELSE settling[q][l]
  BY <1>3 DEF RefundTypes
<1>5. Shapes'
  BY <1>1, <1>2 DEF Shapes
<1>6. HoldersUpload' /\ Fresh'
  BY <1>1, <1>2, <1>4 DEF Orders, HoldersUpload, Fresh
<1>7. Dated'
  BY <1>2, <1>3, <1>4 DEF Orders, Dated, Returning
<1> QED BY <1>1, <1>2, <1>5, <1>6, <1>7 DEF Orders

LEMMA ReturnMoves ==
    ASSUME Shapes, RefundTypes, RefundsDue, Orders, NEW p \in Process, NEW k \in Key, ReturnOps(p, k) \/ ReturnBytes(p, k)
    PROVE  /\ Shapes' /\ Orders'
           /\ \A d \in Day, m \in Meter : Rising(d, m) /\ (~CounterFaults => Level(d, m)) /\ Prudent(d, m)
<1>1. /\ UNCHANGED <<today, submission, job, claimed, remembered, retries>>
      /\ settling[p][k] \in Returning
  BY DEF ReturnOps, ReturnBytes, Returning
<1>2. /\ job[k].day # 0 /\ job[k].day \in 0..LastDay /\ job[k].status # "none"
  BY <1>1 DEF Orders, Dated, Fresh, Returning, Shapes, Job
<1>3. job[k].day \in Day
  BY <1>2, MeteringAssumption DEF Day
<1>4. PICK pc \in {"idle", "returningBytes"} : settling' = [settling EXCEPT ![p][k] = pc]
  BY DEF ReturnOps, ReturnBytes, settlingGoes
<1>5. \A q \in Process, l \in Key : settling'[q][l] = IF q = p /\ l = k THEN pc ELSE settling[q][l]
  BY <1>4 DEF RefundTypes
<1>6. CASE CounterFaults /\ UNCHANGED <<counter, refunds>>
  <2>1. Shapes'
    BY <1>1, <1>6 DEF Shapes
  <2>2. Orders'
    BY <1>1, <1>2, <1>5, <1>6 DEF Orders, HoldersUpload, Fresh, Dated, Returning
  <2>3. \A d \in Day, m \in Meter : Level(d, m) /\ Prudent(d, m)
    BY <1>1, <1>6, QuietBooks
  <2> QED BY <1>6, <2>1, <2>2, <2>3, Levels
<1>7. ASSUME NEW l \in Meter, returned(k, l), refunds[k][l] = 0
      PROVE  /\ Shapes' /\ Orders'
             /\ \A d \in Day, m \in Meter : Rising(d, m) /\ Level(d, m) /\ Prudent(d, m)
  <2>1. /\ counter' \in [Day -> [Meter -> Int]]
        /\ \A d \in Day, m \in Meter : Level(d, m) /\ Prudent(d, m)
    BY <1>1, <1>3, <1>7, RefundBooks
  <2>2. Shapes'
    BY <1>1, <2>1 DEF Shapes
  <2>3. \A j \in Key : j # k => refunds'[j] = refunds[j]
    BY <1>7 DEF returned, RefundTypes
  <2>4. Orders'
    BY <1>1, <1>2, <1>5, <2>3 DEF Orders, HoldersUpload, Fresh, Dated, Returning
  <2> QED BY <2>1, <2>2, <2>4, Levels
<1>8. CASE ReturnOps(p, k)
  <2>1. refunds[k]["ops"] = 0 /\ "ops" \in Meter
    BY <1>8 DEF ReturnOps, RefundsDue, Zero, Meter
  <2> QED BY <1>6, <1>7, <1>8, <2>1 DEF ReturnOps
<1>9. CASE ReturnBytes(p, k)
  <2>1. refunds[k]["bytes"] = 0 /\ "bytes" \in Meter
    BY <1>9 DEF ReturnBytes, RefundsDue, Meter
  <2> QED BY <1>6, <1>7, <1>9, <2>1 DEF ReturnBytes
<1> QED BY <1>8, <1>9

--------------------------------------------------------------------------------
(* The allowance: never minted, never exceeded.                               *)

MintInv == Once /\ Shapes /\ Orders /\ Covered /\ WithinPlan

\* When nothing is lost on the way, the counters hold what is owed and no more.
Exact == \A d \in Day, m \in Meter : counter[d][m] = Owed(d, m)

LEMMA MintInit == Init => MintInv /\ Exact
<1> SUFFICES ASSUME Init PROVE MintInv /\ Exact
  OBVIOUS
<1>1. Once
  BY OnceInit
<1>2. Shapes
  BY MeteringAssumption DEF Init, Shapes, SubmissionState, SubmissionPc, Answer, Job, JobStatus, Zero, Day, Meter
<1>3. Orders
  BY DEF Init, Orders, HoldersUpload, Fresh, Dated, Returning
<1>4. ASSUME NEW d \in Day, NEW m \in Meter
      PROVE  counter[d][m] = 0 /\ Owed(d, m) = 0 /\ Promise(d, m) = 0
  <2>1. Owing(d, m) = {} /\ Promising(d, m) = {}
    BY DEF Init, Owing, Owes, Promising, Promised
  <2>2. Charged(d, m) = {}
    BY DEF Init, Charged, Day
  <2>3. OfRequests({}, m) = 0 /\ OfJobs({}, m) = 0
    BY TotalOfNone DEF OfRequests, OfJobs
  <2>4. counter[d][m] = 0
    BY DEF Init, Zero
  <2> QED BY <2>1, <2>2, <2>3, <2>4 DEF Owed, Promise
<1>5. Covered /\ WithinPlan /\ Exact
  BY <1>4, MeteringAssumption DEF Covered, WithinPlan, Exact
<1> QED BY <1>1, <1>2, <1>3, <1>5 DEF MintInv

\* Each step moves the counters with what is owed, and promises no more than was read.
LEMMA BooksStep ==
    ASSUME RefundTypes, RefundsDue, Shapes, Orders, [Next]_vars
    PROVE  /\ Shapes' /\ Orders'
           /\ \A d \in Day, m \in Meter :
                /\ Rising(d, m) /\ Prudent(d, m)
                /\ ~CounterFaults /\ ~Crashes => Level(d, m)
<1>1. ASSUME NEW s \in Submission, SubmissionStep(s), ~CreateJob(s)
      PROVE  \A d \in Day, m \in Meter : Rising(d, m) /\ Prudent(d, m) /\ (~CounterFaults => Level(d, m))
  BY <1>1, SubmissionBooks DEF Orders
<1>2. ASSUME NEW s \in Submission, CreateJob(s)
      PROVE  \A d \in Day, m \in Meter : Rising(d, m) /\ Prudent(d, m) /\ Level(d, m)
  BY <1>2, CreateBooks, Levels DEF Orders
<1>3. ASSUME NEW s \in Submission, SubmissionStep(s)
      PROVE  Shapes' /\ Orders'
  BY <1>3, OrdersBySubmission
<1>4. ASSUME UNCHANGED <<counter, submission, refunds>>, \A k \in Key : job'[k].day = job[k].day
      PROVE  \A d \in Day, m \in Meter : Rising(d, m) /\ Prudent(d, m) /\ Level(d, m)
  BY <1>4, QuietBooks, Levels
<1>5. ASSUME NEW k \in Key, Start(k) \/ CancelWaiting(k) \/ UserRetry(k)
      PROVE  /\ Shapes' /\ Orders' /\ \A d \in Day, m \in Meter : Rising(d, m) /\ Prudent(d, m) /\ Level(d, m)
  BY <1>4, <1>5, JobMoves
<1>6. ASSUME NEW p \in Process, NEW k \in Key, Finish(p, k) \/ Claim(p, k) \/ ClaimBlind(p, k)
      PROVE  /\ Shapes' /\ Orders' /\ \A d \in Day, m \in Meter : Rising(d, m) /\ Prudent(d, m) /\ Level(d, m)
  BY <1>4, <1>6, SettlementMoves
<1>7. ASSUME NEW p \in Process, NEW k \in Key, ReturnOps(p, k) \/ ReturnBytes(p, k)
      PROVE  /\ Shapes' /\ Orders'
             /\ \A d \in Day, m \in Meter : Rising(d, m) /\ (~CounterFaults => Level(d, m)) /\ Prudent(d, m)
  BY <1>7, ReturnMoves
<1>8. ASSUME DayPasses \/ UNCHANGED vars
      PROVE  /\ Shapes' /\ Orders' /\ \A d \in Day, m \in Meter : Rising(d, m) /\ Prudent(d, m) /\ Level(d, m)
  <2>1. UNCHANGED <<counter, submission, job, claimed, settling, remembered, retries, refunds>>
    BY <1>8 DEF DayPasses, vars
  <2>2. today' \in Day
    BY <1>8, MeteringAssumption DEF DayPasses, vars, Shapes, Day
  <2>3. Shapes' /\ Orders'
    BY <2>1, <2>2 DEF Shapes, Orders, HoldersUpload, Fresh, Dated
  <2> QED BY <1>4, <2>1, <2>3
<1>9. ASSUME NEW p \in Process, Crash(p)
      PROVE  /\ Shapes' /\ Orders' /\ Crashes /\ \A d \in Day, m \in Meter : Rising(d, m) /\ Prudent(d, m)
  <2>1. submission' \in [Submission -> SubmissionState] /\ remembered' \in [Process -> SUBSET Key]
    BY <1>9 DEF Crash, lost, Shapes, SubmissionState, SubmissionPc, Answer
  <2>2. Shapes'
    BY <1>9, <2>1 DEF Crash, Shapes
  <2>3. HoldersUpload'
    BY <1>9 DEF Crash, lost, Shapes, SubmissionState, Orders, HoldersUpload
  <2>4. /\ \A q \in Process, k \in Key : settling'[q][k] \in {settling[q][k], "idle"}
        /\ UNCHANGED <<job, refunds, claimed>>
    BY <1>9 DEF Crash, RefundTypes
  <2>5. Fresh' /\ Dated'
    BY <2>4 DEF Orders, Fresh, Dated, Returning
  <2>6. \A d \in Day, m \in Meter : Rising(d, m) /\ Prudent(d, m)
    BY <1>9, CrashBooks
  <2> QED BY <1>9, <2>2, <2>3, <2>5, <2>6 DEF Crash, Orders
<1> QED BY <1>1, <1>2, <1>3, <1>5, <1>6, <1>7, <1>8, <1>9 DEF Next, SettlementStep

LEMMA MintStep ==
    ASSUME OneSettlement, MintInv, [Next]_vars
    PROVE  MintInv'
<1>1. /\ Shapes' /\ Orders' /\ \A d \in Day, m \in Meter : Rising(d, m) /\ Prudent(d, m)
  BY BooksStep DEF MintInv, Once
<1>2. Once'
  BY OnceStep DEF MintInv
<1>3. Shapes /\ Covered /\ WithinPlan
  BY DEF MintInv
<1>4. ASSUME NEW d \in Day, NEW m \in Meter
      PROVE  /\ Owed(d, m)' \in Nat /\ counter'[d][m] >= Owed(d, m)'
             /\ Enforce => Promise(d, m)' <= Limit[m]
  <2>1. /\ Owed(d, m) \in Nat /\ Promise(d, m) \in Nat /\ Promise(d, m) <= Owed(d, m)
        /\ Owed(d, m)' \in Nat /\ Promise(d, m)' \in Nat /\ Promise(d, m)' <= Owed(d, m)'
    BY Sums, SumsNext DEF Ordered
  <2>2. counter[d][m] \in Int /\ counter'[d][m] \in Int /\ Limit[m] \in Nat
    BY <1>1, <1>3, MeteringAssumption DEF Shapes
  <2>3. counter[d][m] >= Owed(d, m) /\ counter'[d][m] - Owed(d, m)' >= counter[d][m] - Owed(d, m)
    BY <1>1, <1>3 DEF Covered, Rising, Gap
  <2>4. counter'[d][m] >= Owed(d, m)'
    BY <2>1, <2>2, <2>3
  <2>5. ASSUME Enforce PROVE Promise(d, m)' <= Limit[m]
    <3>1. Promise(d, m) <= Limit[m]
      BY <1>3, <2>5 DEF WithinPlan
    <3>2. Promise(d, m)' <= Promise(d, m) \/ counter'[d][m] <= Limit[m]
      BY <1>1, <2>5 DEF Prudent
    <3> QED BY <2>1, <2>2, <2>4, <3>1, <3>2
  <2> QED BY <2>1, <2>4, <2>5
<1>5. Covered' /\ WithinPlan'
  BY <1>4 DEF Covered, WithinPlan
<1> QED BY <1>1, <1>2, <1>5 DEF MintInv

LEMMA AlwaysMintInv == ASSUME OneSettlement PROVE Spec => []MintInv
<1>1. Init => MintInv
  BY MintInit
<1>2. MintInv /\ [Next]_vars => MintInv'
  BY MintStep
<1> QED BY <1>1, <1>2, PTL DEF Spec

\* A job's reservation comes back at most once, whoever settles it and however often
\* (claimSettlement), while the settlement claim does not reject or no job is retried.
THEOREM RefundsAreOnce ==
    ASSUME OneSettlement
    PROVE  Spec => []RefundedOnce
<1>1. MintInv => RefundedOnce
  BY DEF MintInv, Once
<1> QED BY <1>1, AlwaysMintInv, PTL

\* Allowance is never minted: whatever requests hold and jobs were charged is in the counter it
\* was taken from, whichever counter calls reject and whoever dies (UsageMeteringService).
THEOREM NothingIsMinted ==
    ASSUME OneSettlement
    PROVE  Spec => []NeverMints
<1>1. MintInv => NeverMints
  <2> SUFFICES ASSUME MintInv, NEW d \in Day, NEW m \in Meter PROVE counter[d][m] >= Standing(d, m)
    BY DEF NeverMints
  <2>1. counter[d][m] \in Int /\ counter[d][m] >= Owed(d, m)
    BY DEF MintInv, Shapes, Covered
  <2> QED BY <2>1, Sums
<1> QED BY <1>1, AlwaysMintInv, PTL

\* Enforced, the reservations of a day stay within the plan, however many submissions race for
\* the last slot: each takes first and judges by what it then read (reserve).
THEOREM LimitIsKept ==
    ASSUME OneSettlement
    PROVE  Spec => []LimitHolds
<1>1. MintInv => LimitHolds
  <2> SUFFICES ASSUME MintInv, Enforce, NEW d \in Day, NEW m \in Meter PROVE Standing(d, m) <= Limit[m]
    BY DEF LimitHolds
  <2>1. Promise(d, m) <= Limit[m] /\ Limit[m] \in Nat
    BY MeteringAssumption DEF MintInv, WithinPlan
  <2> QED BY <2>1, Sums
<1> QED BY <1>1, AlwaysMintInv, PTL

\* The shapes of all state: no counter ever goes below zero.
THEOREM Typing ==
    ASSUME OneSettlement
    PROVE  Spec => []TypeOK
<1>1. MintInv => TypeOK
  <2> SUFFICES ASSUME MintInv PROVE TypeOK
    OBVIOUS
  <2>1. ASSUME NEW d \in Day, NEW m \in Meter PROVE counter[d][m] \in Nat
    <3>1. counter[d][m] \in Int /\ counter[d][m] >= Owed(d, m)
      BY DEF MintInv, Shapes, Covered
    <3> QED BY <3>1, Sums
  <2>2. counter \in [Day -> [Meter -> Nat]]
    BY <2>1 DEF MintInv, Shapes
  <2> QED BY <2>2 DEF MintInv, Shapes, Once, RefundTypes, TypeOK
<1> QED BY <1>1, AlwaysMintInv, PTL

\* While counter calls answer and nobody dies nothing leaks: at rest the counters hold what
\* stands, so a refused, failed or replayed submission gave back all it took (release).
THEOREM BooksBalance ==
    ASSUME OneSettlement, ~CounterFaults, ~Crashes
    PROVE  Spec => []Balanced
<1>1. Init => Exact
  BY MintInit
<1>2. MintInv /\ Exact /\ [Next]_vars => Exact'
  <2> SUFFICES ASSUME MintInv, Exact, [Next]_vars, NEW d \in Day, NEW m \in Meter
               PROVE  counter'[d][m] = Owed(d, m)'
    BY DEF Exact
  <2>1. Level(d, m) /\ Shapes'
    BY BooksStep DEF MintInv, Once
  <2>2. counter[d][m] \in Int /\ counter'[d][m] \in Int /\ counter[d][m] = Owed(d, m)
    BY <2>1 DEF MintInv, Shapes, Exact
  <2>3. Owed(d, m) \in Nat /\ Owed(d, m)' \in Nat
    BY Sums, SumsNext DEF Ordered
  <2> QED BY <2>1, <2>2, <2>3 DEF Level, Gap
<1>3. MintInv /\ Exact => Balanced
  <2> SUFFICES ASSUME MintInv, Exact, AtRest, NEW d \in Day, NEW m \in Meter
               PROVE  counter[d][m] = Standing(d, m)
    BY DEF Balanced
  <2>1. Owing(d, m) = {s \in Submission : submission[s].held /\ submission[s].day = d}
    BY DEF AtRest, MintInv, Orders, HoldersUpload, Owing, Owes
  <2> QED BY <2>1 DEF Exact, Owed, Standing
<1> QED BY <1>1, <1>2, <1>3, AlwaysMintInv, PTL DEF Spec

================================================================================
