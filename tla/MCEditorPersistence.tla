------------------------- MODULE MCEditorPersistence -------------------------
(* A small instance of EditorPersistence. *)
EXTENDS EditorPersistence
=============================================================================
