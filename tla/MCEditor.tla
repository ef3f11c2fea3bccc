------------------------------ MODULE MCEditor ------------------------------
(* Small instances of EditorSession. *)
EXTENDS EditorSession
=============================================================================
