---------------------------- MODULE GridPatches ----------------------------
(* The patches that editors ask GridWrites for. *)
EXTENDS GridRows

CONSTANT Asked  \* some patches, to bound them

ASSUME AskedAssumption == Asked \subseteq RowPatches \ {<<>>}
=============================================================================
