------------------------- MODULE MCCursorDatasource -------------------------
(* A small instance of CursorDatasource for TLC. *)
EXTENDS CursorDatasource
=============================================================================
