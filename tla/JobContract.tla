------------------------------ MODULE JobContract ------------------------------
(***************************************************************************)
(* What a processing job promises its owner, whatever workers, sweeps and  *)
(* requests do behind it: a published job has its result and keeps it      *)
(* until it expires; the quota it reserved is decided once, kept only for  *)
(* a job that was published, given back only for one that is over; and a   *)
(* job whose quota was given back does not run again.                      *)
(***************************************************************************)
VARIABLES
    phase,   \* "pending", "published", "over" (failed or cancelled) or "expired"
    result,  \* the owner's result exists
    paid     \* the quota reservation: "none" (open), "kept" or "refunded"

vars == <<phase, result, paid>>

Init ==
    /\ phase = "pending"
    /\ result = FALSE
    /\ paid = "none"

\* Workers write and remove results at will, but for the published one.
Draft ==
    /\ phase # "published"
    /\ result' \in BOOLEAN
    /\ UNCHANGED <<phase, paid>>

Publish ==
    /\ phase = "pending" /\ result
    /\ phase' = "published"
    /\ UNCHANGED <<result, paid>>

GiveUp ==
    /\ phase = "pending"
    /\ phase' = "over"
    /\ UNCHANGED <<result, paid>>

Reopen ==
    /\ phase = "over" /\ paid = "none"
    /\ phase' = "pending"
    /\ UNCHANGED <<result, paid>>

Expire ==
    /\ phase \in {"pending", "published"}
    /\ phase' = "expired"
    /\ UNCHANGED <<result, paid>>

Keep ==
    /\ paid = "none" /\ phase \in {"published", "expired"}
    /\ paid' = "kept"
    /\ UNCHANGED <<phase, result>>

Refund ==
    /\ paid = "none" /\ phase \in {"over", "expired"}
    /\ paid' = "refunded"
    /\ UNCHANGED <<phase, result>>

Next == Draft \/ Publish \/ GiveUp \/ Reopen \/ Expire \/ Keep \/ Refund

Spec == Init /\ [][Next]_vars

================================================================================
