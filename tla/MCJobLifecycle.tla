---------------------------- MODULE MCJobLifecycle -----------------------------
(***************************************************************************)
(* Instances of JobLifecycle.  The processes are model values with a place *)
(* each: web, web2 and websweep live in the web process, alone and         *)
(* alonesweep in a standalone worker process.  Few runs have two of a kind *)
(* and all are small, so no symmetry is declared.                          *)
(***************************************************************************)
EXTENDS JobLifecycle

CONSTANTS web, web2, alone, websweep, alonesweep, user

================================================================================
