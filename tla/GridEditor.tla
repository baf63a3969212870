----------------------------- MODULE GridEditor -----------------------------
(***************************************************************************)
(* The editing side of the grid: the rows a TableView has loaded, the      *)
(* buffer of staged edits (useEditBuffer), its save through the bulk       *)
(* endpoint, and the undo and redo stacks.  The endpoint is atomic         *)
(* (GridWrites); other clients write the table at any time.                *)
(*                                                                         *)
(* useMutation (TanStack Query) runs the callbacks of the latest call      *)
(* only: the answer of a call that another one followed is dropped.        *)
(***************************************************************************)
EXTENDS GridRows, Sequences

CONSTANTS
  MaxCalls,  \* bound on the calls the editor makes
  MaxOthers  \* bound on the writes of other clients

ASSUME MaxOthersAssumption == MaxOthers \in Nat

VARIABLES
  mode,    \* GridResponse.concurrency: by row version, or by pre-image
  table,   \* the rows in the database
  others,  \* writes of other clients so far
  view,    \* the rows in the grid's cache, with the edits shown in them
  buffer,  \* staged edits by row
  calls,   \* calls of the bulk endpoint, in the order they were made
  undo,    \* saved batches
  redo     \* undone batches

editorVars == <<mode, table, others, view, buffer, calls, undo, redo>>

\* "since" is the row's version when a column was last edited; no code has it.
IsEntry(e) ==
  /\ e.version \in Nat /\ e.original \in RowPatches /\ e.edits \in RowPatches
  /\ DOMAIN e.original = DOMAIN e.edits
  /\ e.since \in [DOMAIN e.edits -> Nat]

IsBuffer(b) == DOMAIN b \subseteq Rows /\ \A row \in DOMAIN b : IsEntry(b[row])

IsBatch(b) ==
  /\ DOMAIN b \subseteq Rows
  /\ \A row \in DOMAIN b :
       /\ b[row] \in [before : RowPatches, after : RowPatches, version : Nat]
       /\ DOMAIN b[row].before = DOMAIN b[row].after

IsRows(rows) == DOMAIN rows \subseteq Rows /\ \A row \in DOMAIN rows : rows[row] \in Record

IsCall(call) ==
  /\ call = [kind |-> call.kind, batch |-> call.batch, edits |-> call.edits,
             outcome |-> call.outcome, rows |-> call.rows, answered |-> call.answered]
  /\ call.kind \in {"save", "undo", "redo"}
  /\ IF call.kind = "save" THEN IsBuffer(call.batch) ELSE IsBatch(call.batch)
  /\ call.outcome \in {"none", "saved", "refused", "failed"}
  /\ IsRows(call.rows)
  /\ call.answered \in BOOLEAN

IsList(s) == s = [i \in 1..Len(s) |-> s[i]] /\ Len(s) \in Nat

EditorTypeOK ==
  /\ mode \in {"version", "preimage"}
  /\ table \in [Rows -> Record] /\ view \in [Rows -> Record]
  /\ \A row \in Rows : table[row].live
  /\ others \in 0..MaxOthers
  /\ IsBuffer(buffer) /\ \A row \in DOMAIN buffer : buffer[row].edits # <<>>
  /\ IsList(calls) /\ \A i \in DOMAIN calls : IsCall(calls[i])
  /\ IsList(undo) /\ \A i \in DOMAIN undo : IsBatch(undo[i])
  /\ IsList(redo) /\ \A i \in DOMAIN redo : IsBatch(redo[i])

EditorInit ==
  /\ mode \in {"version", "preimage"}
  /\ table \in [Rows -> {row \in Fresh : row.live /\ \A c \in GridColumns : row.cells[c] = Default}]
  /\ others = 0
  /\ view = table
  /\ buffer = <<>>
  /\ calls = <<>> /\ undo = <<>> /\ redo = <<>>

-----------------------------------------------------------------------------

With(f, k, v) == [x \in DOMAIN f \cup {k} |-> IF x = k THEN v ELSE f[x]]
Less(f, k) == [x \in DOMAIN f \ {k} |-> f[x]]
Top(s) == s[Len(s)]
Rest(s) == SubSeq(s, 1, Len(s) - 1)

NoEdits == [version |-> 0, original |-> <<>>, edits |-> <<>>, since |-> <<>>]

\* A cell is edited (onCellValueChanged): the entry takes the row's version as
\* the grid has it now.
StageCell(row, col, val) ==
  LET old   == view[row].cells[col]
      entry == IF row \in DOMAIN buffer THEN buffer[row] ELSE NoEdits
      orig  == IF col \in DOMAIN entry.original THEN entry.original
               ELSE With(entry.original, col, old)
      since == With(entry.since, col, view[row].version)
      back  == val = orig[col]
      edits == IF back THEN Less(entry.edits, col) ELSE With(entry.edits, col, val)
  IN  /\ val # old
      /\ view' = [view EXCEPT ![row].cells[col] = val]
      /\ buffer' = IF edits = <<>> THEN Less(buffer, row)
                   ELSE With(buffer, row,
                     [version  |-> view[row].version,
                      original |-> IF back THEN Less(orig, col) ELSE orig,
                      edits    |-> edits,
                      since    |-> IF back THEN Less(since, col) ELSE since])
      /\ UNCHANGED <<mode, table, others, calls, undo, redo>>

\* The grid loads a row again: refresh, or a block that left the cache.
Reload(row) ==
  /\ view' = [view EXCEPT ![row] = table[row]]
  /\ UNCHANGED <<mode, table, others, buffer, calls, undo, redo>>

DiscardBuffer ==
  /\ buffer # <<>>
  /\ buffer' = <<>>
  /\ UNCHANGED <<mode, table, others, view, calls, undo, redo>>

OtherWrites(row, col, val) ==
  /\ others < MaxOthers
  /\ others' = others + 1
  /\ table' = [table EXCEPT ![row].cells[col] = val, ![row].version = @ + 1]
  /\ UNCHANGED <<mode, view, buffer, calls, undo, redo>>

-----------------------------------------------------------------------------

\* buildRowEdit, and the edits of runCompensating.
Guarded(patch, original, version) ==
  [patch |-> patch, seen |-> [cells |-> original, version |-> version]]

Call(kind, batch, edits) ==
  /\ Len(calls) < MaxCalls
  /\ calls' = Append(calls, [kind |-> kind, batch |-> batch, edits |-> edits,
                             outcome |-> "none", rows |-> <<>>, answered |-> FALSE])
  /\ UNCHANGED <<mode, table, others, view, buffer, undo, redo>>

\* handleSave.  Its shortcut works while another save is on its way.
SaveBuffer ==
  /\ buffer # <<>>
  /\ Call("save", buffer,
          [row \in DOMAIN buffer |->
             Guarded(buffer[row].edits, buffer[row].original, buffer[row].version)])

\* Mutant of Undo: guarded by the row as the grid has it now.
UndoByView ==
  /\ undo # <<>>
  /\ Call("undo", Top(undo),
          [row \in DOMAIN Top(undo) |->
             Guarded(Top(undo)[row].before, view[row].cells, view[row].version)])

Undo ==
  /\ undo # <<>>
  /\ Call("undo", Top(undo),
          [row \in DOMAIN Top(undo) |->
             Guarded(Top(undo)[row].before, Top(undo)[row].after, Top(undo)[row].version)])

Redo ==
  /\ redo # <<>>
  /\ Call("redo", Top(redo),
          [row \in DOMAIN Top(redo) |->
             Guarded(Top(redo)[row].after, Top(redo)[row].before, Top(redo)[row].version)])

\* The data of a call that no callback waits for, or that failed, are not needed again.
Served(i, outcome, rows) ==
  LET heard == i = Len(calls) /\ outcome = "saved"
      call  == [calls[i] EXCEPT !.outcome = outcome, !.edits = <<>>]
  IN  IF heard THEN [call EXCEPT !.rows = rows] ELSE [call EXCEPT !.batch = <<>>]

\* The endpoint serves a call: all rows are as they were loaded, or it is a
\* conflict.  When its answer is lost the editor sees a failure.
Serve(i) ==
  LET edits == calls[i].edits
      fits  == \A row \in DOMAIN edits : Unchanged(mode, edits[row], table[row])
      rows  == [row \in DOMAIN edits |-> RowAfter(mode, edits[row], table[row])]
  IN  /\ calls[i].outcome = "none"
      /\ \/ /\ fits
            /\ table' = [row \in Rows |-> IF row \in DOMAIN edits THEN rows[row] ELSE table[row]]
            /\ \E outcome \in {"saved", "failed"} :
                 calls' = [calls EXCEPT ![i] = Served(i, outcome, rows)]
         \/ /\ ~fits
            /\ calls' = [calls EXCEPT ![i] = Served(i, "refused", <<>>)]
            /\ UNCHANGED table
         \/ /\ calls' = [calls EXCEPT ![i] = Served(i, "failed", <<>>)]
            /\ UNCHANGED table
      /\ UNCHANGED <<mode, others, view, buffer, undo, redo>>

LatestCall == Len(calls)

\* The answer to the latest call arrives; the call's data are not needed again.
CallAnswers(outcome) ==
  /\ calls # <<>>
  /\ ~calls[LatestCall].answered
  /\ calls[LatestCall].outcome = outcome
  /\ calls' = [calls EXCEPT ![LatestCall] =
       [@ EXCEPT !.answered = TRUE, !.batch = <<>>, !.edits = <<>>, !.rows = <<>>]]
  /\ UNCHANGED <<mode, table, others>>

\* applyResultRows.
ShowRows(rows) ==
  view' = [row \in Rows |-> IF row \in DOMAIN rows THEN rows[row] ELSE view[row]]

\* The batch that undoes a save.
Done(call) == [row \in DOMAIN call.batch |->
                 [before |-> call.batch[row].original, after |-> call.batch[row].edits,
                  version |-> call.rows[row].version]]

\* The buffer is cleared, whatever was staged since the save was sent.
SavedBuffer ==
  LET call == calls[LatestCall]
  IN  /\ CallAnswers("saved")
      /\ call.kind = "save"
      /\ ShowRows(call.rows)
      /\ undo' = Append(undo, Done(call))
      /\ redo' = <<>>
      /\ buffer' = <<>>

Refreshed(call) == [row \in DOMAIN call.batch |->
                      [call.batch[row] EXCEPT !.version = call.rows[row].version]]

\* Mutant of UndoAnswered: the undone batch stays on the undo stack.
UndoAnsweredKeepsTop ==
  LET call == calls[LatestCall]
  IN  /\ CallAnswers("saved")
      /\ call.kind = "undo"
      /\ ShowRows(call.rows)
      /\ redo' = Append(redo, Refreshed(call))
      /\ UNCHANGED <<buffer, undo>>

UndoAnswered ==
  LET call == calls[LatestCall]
  IN  /\ CallAnswers("saved")
      /\ call.kind = "undo"
      /\ ShowRows(call.rows)
      /\ undo' = Rest(undo)
      /\ redo' = Append(redo, Refreshed(call))
      /\ UNCHANGED buffer

RedoAnswered ==
  LET call == calls[LatestCall]
  IN  /\ CallAnswers("saved")
      /\ call.kind = "redo"
      /\ ShowRows(call.rows)
      /\ redo' = Rest(redo)
      /\ undo' = Append(undo, Refreshed(call))
      /\ UNCHANGED buffer

\* A conflict or an error: a message, and after a conflict the grid reloads.
ErrorAnswered ==
  /\ CallAnswers("refused") \/ CallAnswers("failed")
  /\ UNCHANGED <<view, buffer, undo, redo>>

-----------------------------------------------------------------------------

EditorNext ==
  \/ \E row \in Rows, col \in GridColumns, val \in GridValues :
       StageCell(row, col, val) \/ OtherWrites(row, col, val)
  \/ \E row \in Rows : Reload(row)
  \/ DiscardBuffer \/ SaveBuffer \/ Undo \/ Redo
  \/ \E i \in DOMAIN calls : Serve(i)
  \/ SavedBuffer \/ UndoAnswered \/ RedoAnswered \/ ErrorAnswered

EditorSpec == EditorInit /\ [][EditorNext]_editorVars

-----------------------------------------------------------------------------
(* Properties. *)

\* The call a step has saved.
SavedNow(i) == calls[i].outcome = "none" /\ calls'[i].outcome = "saved"

\* Undo and redo overwrite what this editor has written and nothing else: the
\* cells still hold the other side of the batch when the call is served
\* ("an undo against a row changed by another session: 409").
UndoOverwritesOwnOnly ==
  [][\A i \in DOMAIN calls : SavedNow(i) /\ calls[i].kind # "save" =>
       \A row \in DOMAIN calls[i].batch :
         LET b == calls[i].batch[row]
             own == IF calls[i].kind = "undo" THEN b.after ELSE b.before
         IN  \A c \in DOMAIN own : table[row].cells[c] = own[c]]_editorVars

\* Nobody else has written, and every call before the latest was answered
\* before the next was made.
Alone ==
  /\ others = 0
  /\ \A i \in 1..(LatestCall - 1) : calls[i].answered /\ calls[i].outcome # "failed"

\* With pre-images, an editor that is alone can undo and redo all it has saved,
\* in the order of the stacks: none of these calls is a conflict.
UndoNeedsNobody ==
  mode = "preimage" /\ Alone /\ calls # <<>> /\ calls[LatestCall].kind # "save"
    => calls[LatestCall].outcome # "refused"

\* A save with row versions writes no cell of a row that another client has written
\* since the editor edited the cell ("no silent overwrite", TableView.tsx:580).
NoSilentOverwrite ==
  [][\A i \in DOMAIN calls : SavedNow(i) /\ calls[i].kind = "save" /\ mode = "version" =>
       \A row \in DOMAIN calls[i].batch : \A c \in DOMAIN calls[i].batch[row].since :
         table[row].version = calls[i].batch[row].since[c]]_editorVars

-----------------------------------------------------------------------------
(* The inductive invariant. *)

\* What a call of a kind writes to a row of its batch, and what it is to meet there.
Put(kind, r) == CASE kind = "save" -> r.edits [] kind = "undo" -> r.before [] kind = "redo" -> r.after
Met(kind, r) == CASE kind = "save" -> r.original [] kind = "undo" -> r.after [] kind = "redo" -> r.before

\* A row that still has this version holds these cells.
Stamped(rows, row, version, cells) ==
  /\ version <= rows[row].version
  /\ version = rows[row].version =>
       \A c \in DOMAIN cells : rows[row].cells[c] = cells[c]

StackFits(kind, stack, rows) ==
  \A i \in DOMAIN stack : \A row \in DOMAIN stack[i] :
    Stamped(rows, row, stack[i][row].version, Met(kind, stack[i][row]))

CallStamped(call, rows) ==
  /\ call.answered => call.outcome # "none"
  /\ call.outcome = "none" =>
       /\ call.rows = <<>>
       /\ call.edits = [row \in DOMAIN call.batch |->
                          Guarded(Put(call.kind, call.batch[row]), Met(call.kind, call.batch[row]),
                                  call.batch[row].version)]
       /\ call.kind # "save" =>
            \A row \in DOMAIN call.batch :
              Stamped(rows, row, call.batch[row].version, Met(call.kind, call.batch[row]))
  /\ call.outcome = "saved" =>
       /\ DOMAIN call.rows = DOMAIN call.batch
       /\ \A row \in DOMAIN call.batch :
            Stamped(rows, row, call.rows[row].version, Put(call.kind, call.batch[row]))

StampsFit ==
  /\ StackFits("undo", undo, table) /\ StackFits("redo", redo, table)
  /\ \A i \in DOMAIN calls : CallStamped(calls[i], table)

Touches(batch, row, c) == row \in DOMAIN batch /\ c \in DOMAIN batch[row].after

\* Each batch of a stack will meet what the one before it puts, in the order from
\* the top, and the table has what the first one to touch a cell will meet there.
Chained(kind, stack, rows) ==
  \A row \in Rows, c \in GridColumns : \A i \in DOMAIN stack : Touches(stack[i], row, c) =>
    /\ \A j \in DOMAIN stack :
         /\ i < j /\ Touches(stack[j], row, c)
         /\ \A m \in DOMAIN stack : i < m /\ m < j => ~Touches(stack[m], row, c)
         => Put(kind, stack[j][row])[c] = Met(kind, stack[i][row])[c]
    /\ (\A m \in DOMAIN stack : i < m => ~Touches(stack[m], row, c))
         => rows[row].cells[c] = Met(kind, stack[i][row])[c]

\* The stacks as they are when the answer under way has arrived.
Coming == calls # <<>> /\ calls[LatestCall].outcome = "saved" /\ ~calls[LatestCall].answered

UndoToCome ==
  LET call == calls[LatestCall]
  IN  IF ~Coming THEN undo
      ELSE IF call.kind = "undo" THEN Rest(undo)
      ELSE Append(undo, IF call.kind = "save" THEN Done(call) ELSE Refreshed(call))

RedoToCome ==
  LET call == calls[LatestCall]
  IN  IF ~Coming THEN redo
      ELSE IF call.kind = "save" THEN <<>>
      ELSE IF call.kind = "redo" THEN Rest(redo)
      ELSE Append(redo, Refreshed(call))

\* A call of this kind that is under way is about the top of its stack.
TopIsCalled(kind, stack) ==
  calls # <<>> /\ calls[LatestCall].kind = kind /\ ~calls[LatestCall].answered
    /\ calls[LatestCall].outcome \in {"none", "saved"} =>
    stack # <<>> /\ calls[LatestCall].batch = Top(stack)

TopsAreCalled == TopIsCalled("undo", undo) /\ TopIsCalled("redo", redo)

StacksInOrder ==
  mode = "preimage" /\ Alone /\ (calls # <<>> => calls[LatestCall].outcome # "failed") =>
    Chained("undo", UndoToCome, table) /\ Chained("redo", RedoToCome, table)

EditorInv == EditorTypeOK /\ StampsFit /\ TopsAreCalled /\ StacksInOrder /\ UndoNeedsNobody
=============================================================================
