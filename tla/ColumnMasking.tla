---------------------------- MODULE ColumnMasking ----------------------------
(***************************************************************************)
(* Columns marked sensitive, from the grid's menu or the settings: the     *)
(* preference on the server, the store's mirror of it, the PATCHes that    *)
(* carry a whole mirror each, what the columns query reports, the rows     *)
(* that the server redacts, and the edits of a view that may not know yet  *)
(* what is masked.  One view of one table, one row of it, whose values are *)
(* not null; primary keys are never masked and left out.                   *)
(*                                                                         *)
(* The grid's infinite cache takes the answer to its last request for a    *)
(* block only; invalidating a query (TanStack Query) starts its read anew. *)
(***************************************************************************)
EXTENDS Naturals, FiniteSets

CONSTANTS
  MaskColumns,  \* the columns that are not in the primary key
  MaxMarks,     \* bound on the changes of the preference
  MaxSaves      \* bound on the saves of edits

VARIABLES
  guard,       \* how the engine guards a write: by row version or by pre-image
  prefs,       \* UserPreference.maskedColumns of this table
  store,       \* themeStore's mirror of it
  hydration,   \* the session's first read of the preferences
  marks,       \* changes of the preference so far
  patches,     \* PATCH /preferences under way
  reported,    \* columnsQuery.data.maskedColumns
  columns,     \* the columns query's read
  revealed,    \* the view asks for rows in the clear
  block,       \* the grid's read of its block
  shown,       \* what the row's cells show
  staged,      \* edits in the buffer, "blind" if their original is a mask token
  lastEdit,    \* the column of the last edit, or none
  save,        \* the save under way
  saves,       \* saves so far
  \* History, which no code has:
  fromSave,    \* the row is one that a save has answered with
  failed,      \* a request failed, or changes of the preference overlapped
  lifted,      \* columns that were unmarked
  overwritten  \* columns written over a token

maskVars == <<guard, prefs, store, hydration, marks, patches, reported, columns, revealed,
              block, shown, staged, lastEdit, save, saves, fromSave, failed, lifted, overwritten>>

marking == <<prefs, store, hydration, marks, patches, lifted>>
viewing == <<reported, columns, revealed, block, shown, fromSave>>
editing == <<staged, lastEdit, save, saves, overwritten>>

\* A read is idle, asked for, or answered with the masked columns it found.
Idle == [stage |-> "idle", masked |-> {}, clear |-> FALSE]
Asked(inClear) == [stage |-> "asked", masked |-> {}, clear |-> inClear]
Read(read) == [stage |-> "read", masked |-> prefs, clear |-> read.clear]

Cells(state) == [c \in MaskColumns |-> state]
NoSave == [stage |-> "idle", edits |-> Cells("none")]
Edited(edits) == {c \in MaskColumns : edits[c] # "none"}
Blind(edits) == {c \in MaskColumns : edits[c] = "blind"}

\* The view is mounted, with the columns of an earlier visit.
MaskInit ==
  /\ guard \in {"version", "preimage"}
  /\ prefs \in SUBSET MaskColumns /\ store \in SUBSET MaskColumns
  /\ hydration = Asked(FALSE) /\ marks = 0 /\ patches = {}
  /\ reported \in SUBSET MaskColumns /\ columns = Asked(FALSE)
  /\ revealed = FALSE /\ block = Asked(FALSE) /\ shown = Cells("blank") /\ fromSave = FALSE
  /\ staged = Cells("none") /\ lastEdit = {} /\ save = NoSave /\ saves = 0
  /\ failed = FALSE /\ lifted = {} /\ overwritten = {}

-----------------------------------------------------------------------------
\* The preference.

HydrationRead ==
  /\ hydration.stage = "asked"
  /\ hydration' = Read(hydration)
  /\ UNCHANGED <<guard, prefs, store, marks, patches, lifted, viewing, editing, failed>>

\* Once per session the server's preferences replace the store's.
Hydrate ==
  /\ hydration.stage = "read"
  /\ store' = hydration.masked
  /\ hydration' = Idle
  /\ UNCHANGED <<guard, prefs, marks, patches, lifted, viewing, editing, failed>>

\* setColumnMasked and the PATCH, which carries the mirror and not the change.
Toggle(c) ==
  LET next == IF c \in store THEN store \ {c} ELSE store \cup {c}
  IN  /\ marks < MaxMarks
      /\ marks' = marks + 1
      /\ store' = next
      /\ patches' = patches \cup {[id |-> marks, masked |-> next, stored |-> FALSE]}
      /\ failed' = (failed \/ patches # {} \/ hydration # Idle)
      /\ UNCHANGED <<guard, prefs, hydration, lifted, viewing, editing>>

\* A change that no columns query has reported is lost on the view when the
\* next one is stored.
Persist(p) ==
  /\ ~p.stored
  /\ prefs' = p.masked
  /\ lifted' = lifted \cup (prefs \ p.masked)
  /\ patches' = (patches \ {p}) \cup {[p EXCEPT !.stored = TRUE]}
  /\ failed' = (failed \/ prefs # reported)
  /\ UNCHANGED <<guard, store, hydration, marks, viewing, editing>>

\* useUpdatePreferences: only a stored preference is worth a new read.
Persisted(p) ==
  /\ p.stored
  /\ patches' = patches \ {p}
  /\ columns' = Asked(FALSE)
  /\ UNCHANGED <<guard, prefs, store, hydration, marks, lifted,
                 reported, revealed, block, shown, fromSave, editing, failed>>

\* A PATCH is refused or its answer lost: a toast, and the mirror stays.
PatchLost(p) ==
  /\ patches' = patches \ {p}
  /\ failed' = TRUE
  /\ UNCHANGED <<guard, prefs, store, hydration, marks, lifted, viewing, editing>>

-----------------------------------------------------------------------------
\* The view.

ColumnsRead ==
  /\ columns.stage = "asked"
  /\ columns' = Read(columns)
  /\ UNCHANGED <<guard, marking, reported, revealed, block, shown, fromSave, editing, failed>>

\* The effect on serverMaskedKey: rows are asked for again when the report changes.
ColumnsAnswered ==
  /\ columns.stage = "read"
  /\ reported' = columns.masked
  /\ columns' = Idle
  /\ block' = IF columns.masked = reported THEN block ELSE Asked(revealed)
  /\ UNCHANGED <<guard, marking, revealed, shown, fromSave, editing, failed>>

ColumnsLost ==
  /\ columns # Idle
  /\ columns' = Idle
  /\ failed' = TRUE
  /\ UNCHANGED <<guard, marking, reported, revealed, block, shown, fromSave, editing>>

\* The window gets the focus: TanStack Query reads what is shown anew.
Refocus ==
  /\ columns = Idle
  /\ columns' = Asked(FALSE)
  /\ UNCHANGED <<guard, marking, reported, revealed, block, shown, fromSave, editing, failed>>

\* Mutant of ToggleReveal: the data source keeps the choice it was made with.
ToggleRevealKeepsSource ==
  /\ store # {}
  /\ revealed' = ~revealed
  /\ block' = Asked(revealed)
  /\ shown' = Cells("blank")
  /\ fromSave' = FALSE
  /\ UNCHANGED <<guard, marking, reported, columns, editing, failed>>

\* The button is there while the mirror masks a column.  A new data source drops
\* the cached rows.
ToggleReveal ==
  /\ store # {}
  /\ revealed' = ~revealed
  /\ block' = Asked(~revealed)
  /\ shown' = Cells("blank")
  /\ fromSave' = FALSE
  /\ UNCHANGED <<guard, marking, reported, columns, editing, failed>>

Refresh ==
  /\ block' = Asked(revealed)
  /\ UNCHANGED <<guard, marking, reported, columns, revealed, shown, fromSave, editing, failed>>

\* getRows resolves what is masked before it reads the rows.
BlockRead ==
  /\ block.stage = "asked"
  /\ block' = Read(block)
  /\ UNCHANGED <<guard, marking, reported, columns, revealed, shown, fromSave, editing, failed>>

BlockAnswered ==
  /\ block.stage = "read"
  /\ shown' = [c \in MaskColumns |->
       IF c \in block.masked /\ ~block.clear THEN "token" ELSE "clear"]
  /\ block' = Idle
  /\ fromSave' = FALSE
  /\ UNCHANGED <<guard, marking, reported, columns, revealed, editing, failed>>

\* failCallback: the rows stay as they were.
BlockLost ==
  /\ block # Idle
  /\ block' = Idle
  /\ failed' = TRUE
  /\ UNCHANGED <<guard, marking, reported, columns, revealed, shown, fromSave, editing>>

-----------------------------------------------------------------------------
\* Edits, one save of them at a time, and no undo (GridEditor has both).

\* The buffer keeps the first original.
Stage(c) ==
  /\ shown[c] \in {"clear", "token"}
  /\ staged' = [staged EXCEPT ![c] =
       IF @ # "none" THEN @ ELSE IF shown[c] = "token" THEN "blind" ELSE "seen"]
  /\ shown' = [shown EXCEPT ![c] = "draft"]
  /\ UNCHANGED <<guard, marking, reported, columns, revealed, block, fromSave,
                 save, saves, overwritten, failed>>

\* A cell is editable, and can be set to NULL, unless the columns query reports its
\* column as masked.
Edit(c) == c \notin reported /\ Stage(c) /\ lastEdit' = {c}

\* "Apply last edit to selected rows" has no such guard.
Reapply(c) == c \in lastEdit /\ Stage(c) /\ UNCHANGED lastEdit

Discard ==
  /\ staged # Cells("none") /\ save = NoSave
  /\ staged' = Cells("none") /\ lastEdit' = {}
  /\ block' = Asked(revealed)
  /\ UNCHANGED <<guard, marking, reported, columns, revealed, shown, fromSave,
                 save, saves, overwritten, failed>>

Save ==
  /\ staged # Cells("none") /\ save = NoSave /\ saves < MaxSaves
  /\ saves' = saves + 1
  /\ save' = [stage |-> "sent", edits |-> staged]
  /\ UNCHANGED <<guard, marking, viewing, staged, lastEdit, overwritten, failed>>

\* Mutant of AssertNotMasked: the server relies on the disabled input.
AssertNothing ==
  /\ save.stage = "sent"
  /\ save' = [save EXCEPT !.stage = "checked"]
  /\ UNCHANGED <<guard, marking, viewing, staged, lastEdit, saves, overwritten, failed>>

\* assertNotMasked reads the preference before the transaction.
AssertNotMasked ==
  /\ save.stage = "sent"
  /\ save' = [save EXCEPT !.stage =
       IF Edited(save.edits) \cap prefs # {} THEN "refused" ELSE "checked"]
  /\ UNCHANGED <<guard, marking, viewing, staged, lastEdit, saves, overwritten, failed>>

\* A token is no row's pre-image; a version is the row's whatever was shown of it.
Update ==
  LET matches == guard = "version" \/ Blind(save.edits) = {}
  IN  /\ save.stage = "checked"
      /\ save' = [save EXCEPT !.stage = IF matches THEN "done" ELSE "conflict"]
      /\ overwritten' = IF matches THEN overwritten \cup Blind(save.edits) ELSE overwritten
      /\ UNCHANGED <<guard, marking, viewing, staged, lastEdit, saves, failed>>

\* The row that a save answers with is not redacted.
Saved ==
  /\ save.stage = "done"
  /\ save' = NoSave
  /\ shown' = IF shown = Cells("blank") THEN shown ELSE Cells("clear")
  /\ fromSave' = TRUE
  /\ staged' = Cells("none") /\ lastEdit' = {}
  /\ UNCHANGED <<guard, marking, reported, columns, revealed, block, saves, overwritten, failed>>

\* The buffer stays, and a conflict has the rows read again.
NotSaved ==
  /\ save.stage \in {"refused", "conflict"}
  /\ save' = NoSave
  /\ block' = IF save.stage = "conflict" THEN Asked(revealed) ELSE block
  /\ UNCHANGED <<guard, marking, reported, columns, revealed, shown, fromSave,
                 staged, lastEdit, saves, overwritten, failed>>

-----------------------------------------------------------------------------

MaskNext ==
  \/ HydrationRead \/ Hydrate
  \/ \E c \in MaskColumns : Toggle(c) \/ Edit(c) \/ Reapply(c)
  \/ \E p \in patches : Persist(p) \/ Persisted(p) \/ PatchLost(p)
  \/ ColumnsRead \/ ColumnsAnswered \/ ColumnsLost \/ Refocus
  \/ ToggleReveal \/ Refresh \/ BlockRead \/ BlockAnswered \/ BlockLost
  \/ Discard \/ Save \/ AssertNotMasked \/ Update \/ Saved \/ NotSaved

MaskSpec == MaskInit /\ [][MaskNext]_maskVars

-----------------------------------------------------------------------------

\* When nothing is under way and nothing went wrong, the mirror, the menu and the
\* report agree with the preference, a masked column shows tokens (or an edit made
\* before it was masked) unless the user revealed it or the row came back from a
\* save, and no token is left in a column that may be edited.
MaskingSettles ==
  (/\ hydration = Idle /\ patches = {} /\ columns = Idle /\ block = Idle /\ save = NoSave
   /\ ~failed)
  => /\ store = prefs /\ reported = prefs
     /\ \A c \in prefs : shown[c] = "clear" => revealed \/ fromSave
     /\ \A c \in MaskColumns \ prefs : shown[c] # "token"

\* A value that was shown as a token is written over on an engine that compares
\* versions only, and only if its column was unmarked since.
BlindWritesAfterUnmarkOnly ==
  overwritten # {} => guard = "version" /\ overwritten \subseteq lifted

-----------------------------------------------------------------------------
(* The inductive strengthening behind the invariants above. *)

Reads == {Idle} \cup [stage : {"asked", "read"}, masked : SUBSET MaskColumns, clear : BOOLEAN]
Edits == [MaskColumns -> {"none", "seen", "blind"}]
Patches == [id : Nat, masked : SUBSET MaskColumns, stored : BOOLEAN]

MaskTypeOK ==
  /\ guard \in {"version", "preimage"}
  /\ prefs \subseteq MaskColumns /\ store \subseteq MaskColumns /\ reported \subseteq MaskColumns
  /\ lastEdit \subseteq MaskColumns /\ lifted \subseteq MaskColumns /\ overwritten \subseteq MaskColumns
  /\ hydration \in Reads /\ columns \in Reads /\ block \in Reads
  /\ marks \in Nat /\ saves \in Nat
  /\ patches \subseteq Patches
  /\ revealed \in BOOLEAN /\ fromSave \in BOOLEAN /\ failed \in BOOLEAN
  /\ shown \in [MaskColumns -> {"blank", "clear", "token", "draft"}]
  /\ staged \in Edits
  /\ save \in {NoSave} \cup
       [stage : {"sent", "checked", "refused", "done", "conflict"}, edits : Edits]

\* The mirror is the preference, or the change that is on its way there; until the
\* session has read the preferences nothing is.
MirrorLeads ==
  IF hydration # Idle
    THEN patches = {} /\ (hydration.stage = "read" => hydration.masked = prefs)
    ELSE \/ patches = {} /\ store = prefs
         \/ \E p \in patches :
              patches = {p} /\ p.masked = store /\ (p.stored => prefs = store)

\* Unless a stored change is about to have it read anew, the report is the
\* preference, or will be.
ReportFollows ==
  (\A p \in patches : ~p.stored) =>
    /\ columns = Idle => reported = prefs
    /\ columns.stage = "read" => columns.masked = prefs

\* Once the report agrees, so do the rows that were asked for since.
CellsFollow ==
  /\ block # Idle => block.clear = revealed
  /\ reported = prefs =>
       /\ block.stage = "read" => block.masked = prefs
       /\ block = Idle =>
            /\ \A c \in prefs : shown[c] = "clear" => revealed \/ fromSave
            /\ \A c \in MaskColumns \ prefs : shown[c] # "token"

\* What is shown, staged or saved as a token was masked then, and is or was unmarked.
TokensWereMasked ==
  LET known == prefs \cup lifted
  IN  /\ block.masked \subseteq known
      /\ \A c \in MaskColumns : shown[c] = "token" => c \in known
      /\ Blind(staged) \cup Blind(save.edits) \subseteq known

\* An edit that has passed the check was not masked then.
CheckedWasUnmarked ==
  /\ save.stage = "checked" => Blind(save.edits) \subseteq lifted
  /\ overwritten \subseteq lifted
  /\ guard = "preimage" => overwritten = {}

MaskInv ==
  /\ MaskTypeOK
  /\ ~failed => MirrorLeads /\ ReportFollows /\ CellsFollow
  /\ TokensWereMasked
  /\ CheckedWasUnmarked
=============================================================================
