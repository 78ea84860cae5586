---------------------------- MODULE MCInstanceLease ----------------------------
(***************************************************************************)
(* Instances of InstanceLease: two processes started in any order, either  *)
(* of which may be the restart of the other.                               *)
(***************************************************************************)
EXTENDS InstanceLease

CONSTANTS first, second

================================================================================
