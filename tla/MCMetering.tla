------------------------------ MODULE MCMetering -------------------------------
(***************************************************************************)
(* Instances of Metering: submissions s1 and s2 of one file, and s3 of     *)
(* another; a web process and a standalone worker.                         *)
(***************************************************************************)
EXTENDS Metering

CONSTANTS s1, s2, s3, k1, k2, web, standalone

\* s2 replays the key of s1; or every submission has a key of its own.
ReplayedKeys == [s \in Submission |-> IF s = s3 THEN k2 ELSE k1]
OwnKeys      == [s \in Submission |-> IF s = s1 THEN k1 ELSE k2]

OneByte   == [k \in Key |-> 1]
TwoSizes  == [k \in Key |-> IF k = k1 THEN 1 ELSE 2]

\* Allowances: of operations, and of bytes.
OneSlot   == [m \in Meter |-> 1]
TwoSlots  == [m \in Meter |-> 2]
TwoThree  == [m \in Meter |-> IF m = "ops" THEN 2 ELSE 3]

================================================================================
