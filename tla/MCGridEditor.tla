--------------------------- MODULE MCGridEditor ----------------------------
(* Small instances of GridEditor for TLC. *)
EXTENDS GridEditor
=============================================================================
