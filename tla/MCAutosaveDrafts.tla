--------------------------- MODULE MCAutosaveDrafts ---------------------------
(* AutosaveDrafts with devices and requests that are alike. *)
EXTENDS AutosaveDrafts, TLC

Alike == Permutations(Requests) \cup Permutations(Devices)
================================================================================
