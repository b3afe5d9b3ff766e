-------------------------- MODULE MCEditorSession --------------------------
(***************************************************************************)
(* The small instance of EditorSession: its bounds are in the .cfg.        *)
(***************************************************************************)
EXTENDS EditorSession

=============================================================================
