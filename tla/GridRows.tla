------------------------------ MODULE GridRows ------------------------------
(***************************************************************************)
(* The rows of a grid's table and the writes GridService makes to them:    *)
(* what an edit is guarded by and what it leaves behind.  Edits of key        *)
(* columns are left out: a row keeps its key.                              *)
(***************************************************************************)
EXTENDS Naturals

CONSTANTS Rows, GridColumns, GridValues,
  Default  \* what the database puts where an insert names no value

ASSUME DefaultAssumption == Default \in GridValues

\* What a row holds.  The version stands for PostgreSQL's xmin: no two writes
\* of a row have the same.
Record == [live : BOOLEAN, cells : [GridColumns -> GridValues], version : Nat]

RowPatches == UNION {[C -> GridValues] : C \in SUBSET GridColumns}

\* An edit and the row as its editor loaded it.
RowEdits == [patch : RowPatches, seen : Record]

WriteKinds == {"version", "preimage", "cell", "insert", "delete"}

Bulk == {"version", "preimage"}

\* A request: its kind, and an edit for each row it names.
IsJob(j) ==
  /\ j \in [kind : WriteKinds, edits : [DOMAIN j.edits -> RowEdits]]
  /\ DOMAIN j.edits \subseteq Rows

-----------------------------------------------------------------------------

\* The guard of a bulk edit: the row's version, or the edited columns' values,
\* are what the editor loaded.
Unchanged(kind, edit, row) ==
  /\ row.live
  /\ kind = "version" => row.version = edit.seen.version
  /\ kind = "preimage" => \A c \in DOMAIN edit.patch : row.cells[c] = edit.seen.cells[c]

\* The statement finds its row: it affects one.
Accepts(kind, edit, row) ==
  IF kind = "insert" THEN ~row.live ELSE Unchanged(kind, edit, row)

RowAfter(kind, edit, row) ==
  [live    |-> kind # "delete",
   cells   |-> [c \in GridColumns |->
                  IF kind = "delete" THEN Default
                  ELSE IF c \in DOMAIN edit.patch THEN edit.patch[c] ELSE row.cells[c]],
   version |-> row.version + 1]

\* The rows a table may start with: a missing row holds defaults, which an
\* insert starts from.
Fresh ==
  {row \in [live : BOOLEAN, cells : [GridColumns -> GridValues], version : {0}] :
     row.live \/ \A c \in GridColumns : row.cells[c] = Default}
=============================================================================
