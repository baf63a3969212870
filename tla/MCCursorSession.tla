-------------------------- MODULE MCCursorSession --------------------------
(* Small instances of CursorSession for TLC. *)
EXTENDS CursorSession, TLC

Symmetry == Permutations(Cursors) \cup Permutations(Fetches) \cup Permutations(Conns)
=============================================================================
