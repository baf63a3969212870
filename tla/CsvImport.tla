----------------------------- MODULE CsvImport -----------------------------
(***************************************************************************)
(* A CSV file on its way into a table: the import dialog (ImportModal),    *)
(* the hook that parses the file chunk by chunk and sends its rows in      *)
(* batches (useCsvImport), and the server's batch, one transaction each    *)
(* (ImportService.batch).                                                  *)
(*                                                                         *)
(* The row at position n of the file is the number n; a header is row 1.   *)
(* A batch may be refused as a whole and its answer may be lost.  Between  *)
(* two awaits the hook's code runs in one step.                            *)
(***************************************************************************)
EXTENDS Integers, Sequences, SequencesExt

CONSTANTS
  Files,          \* files to import, each by the rows its chunks end with
  BatchSize,      \* BATCH_SIZE: rows of a full batch
  MaxBatchRows    \* MAX_IMPORT_BATCH_ROWS: the server's limit

\* The parser hands over a first chunk if the file has a row.
ASSUME FilesAssumption ==
  \A f \in Files : f \in Seq(Nat \ {0}) /\ \A m, n \in DOMAIN f : m <= n => f[m] <= f[n]
ASSUME BatchAssumption == BatchSize \in Nat \ {0}

VARIABLES
  file, hasHeader,
  step,        \* what the dialog shows
  phase,       \* what the hook reports
  canceled,    \* cancelRef
  chunk,       \* chunks the parser has handed over
  todo,        \* rows of the present chunk not yet in the buffer
  buffer,
  batch,       \* the batch in flight, or NoBatch
  table,       \* the rows in the table, in the order they were inserted
  inserted,    \* the rows the hook counts as inserted
  unheard      \* rows committed in a batch whose answer was lost

importVars == <<file, hasHeader, step, phase, canceled, chunk, todo, buffer, batch,
                table, inserted, unheard>>

NoBatch == [rows |-> <<>>, at |-> "none", by |-> "none"]

\* How many rows the first n chunks hold, and those of them that are data.
RowsUpTo(n) == IF n = 0 THEN 0 ELSE file[n]
Header == IF hasHeader THEN 1 ELSE 0
DataUpTo(n) == [i \in 1..(RowsUpTo(n) - Header) |-> i + Header]
Data == DataUpTo(Len(file))

ImportInit ==
  /\ file \in Files
  /\ hasHeader \in BOOLEAN
  /\ step = "map" /\ phase = "idle" /\ canceled = FALSE
  /\ chunk = 0 /\ todo = <<>> /\ buffer = <<>> /\ batch = NoBatch
  /\ table = <<>> /\ inserted = 0 /\ unheard = 0

Parsing == phase = "running" /\ batch = NoBatch /\ todo = <<>>

\* flush(): the buffer is emptied before the request is sent.
Flush(rows, by) ==
  /\ batch' = [rows |-> rows, at |-> "server", by |-> by]
  /\ buffer' = <<>>

Settle(result) ==
  /\ phase' = result
  /\ step' = IF result = "done" THEN "done" ELSE step

\* The parser has finished or was aborted: what is buffered is flushed, and the
\* import is done when nothing is.
Complete ==
  /\ chunk' = Len(file)
  /\ \/ /\ buffer = <<>>
        /\ Settle("done")
        /\ UNCHANGED <<buffer, batch>>
     \/ /\ buffer # <<>>
        /\ Flush(buffer, "complete")
        /\ UNCHANGED <<step, phase>>

\* Rows move to the buffer until it is full and is flushed or the chunk ends.
Fill(rows) ==
  LET room == BatchSize - Len(buffer)
      full == buffer \o SubSeq(rows, 1, room)
  IN IF Len(rows) >= room
     THEN Flush(full, "chunk") /\ todo' = SubSeq(rows, room + 1, Len(rows))
     ELSE buffer' = buffer \o rows /\ todo' = <<>> /\ UNCHANGED batch

-----------------------------------------------------------------------------
\* The user confirms the import.
Import ==
  /\ step = "map"
  /\ step' = "importing" /\ phase' = "running" /\ canceled' = FALSE
  /\ UNCHANGED <<file, hasHeader, chunk, todo, buffer, batch, table, inserted, unheard>>

\* Mutant of NextChunk: an abort ends the parsing without `complete`.
NextChunkAborts ==
  /\ Parsing /\ chunk < Len(file)
  /\ \/ /\ canceled
        /\ chunk' = Len(file) + 1
        /\ UNCHANGED <<step, phase, buffer, batch, todo>>
     \/ /\ ~canceled
        /\ chunk' = chunk + 1
        /\ Fill(SubSeq(DataUpTo(chunk + 1), Len(DataUpTo(chunk)) + 1, Len(DataUpTo(chunk + 1))))
        /\ UNCHANGED <<step, phase>>
  /\ UNCHANGED <<file, hasHeader, canceled, table, inserted, unheard>>

\* The parser hands the next chunk over; a canceled import aborts it, and the
\* abort calls `complete`.
NextChunk ==
  /\ Parsing /\ chunk < Len(file)
  /\ \/ /\ canceled
        /\ Complete
        /\ UNCHANGED todo
     \/ /\ ~canceled
        /\ chunk' = chunk + 1
        /\ Fill(SubSeq(DataUpTo(chunk + 1), Len(DataUpTo(chunk)) + 1, Len(DataUpTo(chunk + 1))))
        /\ UNCHANGED <<step, phase>>
  /\ UNCHANGED <<file, hasHeader, canceled, table, inserted, unheard>>

\* The file is parsed to its end.
EndOfFile ==
  /\ Parsing /\ chunk = Len(file)
  /\ Complete
  /\ UNCHANGED <<file, hasHeader, canceled, todo, table, inserted, unheard>>

\* The file cannot be read on.
ReadFails ==
  /\ Parsing /\ chunk < Len(file)
  /\ Settle("error")
  /\ chunk' = Len(file)
  /\ UNCHANGED <<file, hasHeader, canceled, todo, buffer, batch, table, inserted, unheard>>

\* The server runs a batch in one transaction, or refuses it: a read-only
\* connection, an unknown column, too many rows, an error of the database.
RunBatch ==
  /\ batch.at = "server"
  /\ \/ /\ Len(batch.rows) \in 1..MaxBatchRows
        /\ table' = table \o batch.rows
        /\ batch' = [batch EXCEPT !.at = "committed"]
     \/ /\ batch' = [batch EXCEPT !.at = "refused"]
        /\ UNCHANGED table
  /\ UNCHANGED <<file, hasHeader, step, phase, canceled, chunk, todo, buffer, inserted, unheard>>

\* A batch is answered: its rows are counted, and the rest of the chunk follows.
\* After the last batch the import is done.
BatchInserted ==
  /\ batch.at = "committed"
  /\ inserted' = inserted + Len(batch.rows)
  /\ \/ /\ batch.by = "chunk"
        /\ IF Len(todo) >= BatchSize
           THEN Flush(SubSeq(todo, 1, BatchSize), "chunk")
                /\ todo' = SubSeq(todo, BatchSize + 1, Len(todo))
           ELSE buffer' = todo /\ todo' = <<>> /\ batch' = NoBatch
        /\ UNCHANGED <<step, phase>>
     \/ /\ batch.by = "complete"
        /\ Settle("done")
        /\ batch' = NoBatch
        /\ UNCHANGED <<todo, buffer>>
  /\ UNCHANGED <<file, hasHeader, canceled, chunk, table, unheard>>

\* Mutant of BatchFailed: the import goes on with the rows after the batch.
BatchFailedGoesOn ==
  /\ batch.at \in {"committed", "refused"}
  /\ unheard' = unheard + IF batch.at = "committed" THEN Len(batch.rows) ELSE 0
  /\ batch' = NoBatch
  /\ todo' = <<>>
  /\ UNCHANGED <<file, hasHeader, step, phase, canceled, chunk, buffer, table, inserted>>

\* A batch failed for the hook: it was refused, or its answer was lost.  The
\* parser is aborted with the buffer empty, and the import ends in an error.
BatchFailed ==
  /\ batch.at \in {"committed", "refused"}
  /\ unheard' = unheard + IF batch.at = "committed" THEN Len(batch.rows) ELSE 0
  /\ batch' = NoBatch
  /\ todo' = <<>>
  /\ chunk' = Len(file)
  /\ Settle("error")
  /\ UNCHANGED <<file, hasHeader, canceled, buffer, table, inserted>>

Cancel ==
  /\ step = "importing"
  /\ canceled' = TRUE
  /\ UNCHANGED <<file, hasHeader, step, phase, chunk, todo, buffer, batch, table, inserted, unheard>>

\* The dialog is dismissed; not while it shows the import.
Close ==
  /\ step \in {"map", "done"}
  /\ step' = "closed"
  /\ UNCHANGED <<file, hasHeader, phase, canceled, chunk, todo, buffer, batch, table, inserted, unheard>>

ImportNext ==
  \/ Import \/ NextChunk \/ EndOfFile \/ ReadFails \/ RunBatch \/ BatchInserted
  \/ BatchFailed \/ Cancel \/ Close

\* The parser goes on by itself, the server answers, a request ends somehow.
ImportFairness ==
  /\ WF_importVars(NextChunk) /\ WF_importVars(EndOfFile) /\ WF_importVars(RunBatch)
  /\ WF_importVars(BatchInserted \/ BatchFailed)

ImportSpec == ImportInit /\ [][ImportNext]_importVars /\ ImportFairness

-----------------------------------------------------------------------------
ImportTypeOK ==
  /\ file \in Files /\ hasHeader \in BOOLEAN
  /\ step \in {"map", "importing", "done", "closed"}
  /\ phase \in {"idle", "running", "done", "error"}
  /\ canceled \in BOOLEAN
  /\ chunk \in 0..Len(file)
  /\ todo \in Seq(Nat) /\ buffer \in Seq(Nat) /\ table \in Seq(Nat)
  /\ batch \in [rows : Seq(Nat), at : {"none", "server", "committed", "refused"},
                by : {"none", "chunk", "complete"}]
  /\ batch.at = "none" \/ batch.by = "none" => batch = NoBatch
  /\ Len(buffer) < BatchSize
  /\ inserted \in Nat /\ unheard \in Nat

\* However an import ends, the table holds the first rows of the file, in the
\* file's order, none twice and none left out; and all of them when it ends well
\* and nobody canceled it.
TableIsAPrefix ==
  /\ IsPrefix(table, Data)
  /\ phase = "done" /\ ~canceled => table = Data

\* The count on the screen is honest: it never exceeds what was inserted, and
\* falls short of it only by batches whose answers are out or were lost.
CountIsHonest ==
  Len(table) - inserted =
    unheard + (IF batch.at = "committed" THEN Len(batch.rows) ELSE 0)

ImportIsHonest == TableIsAPrefix /\ CountIsHonest

\* An import settles, whatever the server answers.
ImportSettles == phase = "running" ~> phase \in {"done", "error"}

\* The dialog can be dismissed unless an import is in flight.
HeldWhileInFlightOnly == step = "importing" => phase = "running"

-----------------------------------------------------------------------------
(* The inductive strengthening behind ImportIsHonest. *)

\* The rows that follow row n of the file.
Follows(rows, n) == \A i \in 1..Len(rows) : rows[i] = n + i

\* The rows after row n: a batch on its way, the buffer and the rest of the chunk.
InOrder(n, sent, held, rest) ==
  /\ Follows(sent, n)
  /\ Follows(held, n + Len(sent))
  /\ Follows(rest, n + Len(sent) + Len(held))

\* The rows that were sent and are not in the table (yet).
Sent == IF batch.at \in {"server", "refused"} THEN batch.rows ELSE <<>>
Taken == Len(table) + (Len(Sent) + Len(buffer) + Len(todo))

\* The table, the batch, the buffer and the rest of the chunk follow on one another in
\* the file, up to what the parser has handed over; all of it unless it was canceled.
RowsFollow ==
  /\ Follows(table, Header)
  /\ InOrder(Header + Len(table), Sent, buffer, todo)
  /\ Taken <= Len(DataUpTo(chunk))
  /\ phase \in {"idle", "running"} /\ ~canceled => Taken = Len(DataUpTo(chunk))

\* What the dialog, the hook and the batch in flight know of each other.
StepFits ==
  /\ step = "map" => phase = "idle"
  /\ step = "importing" => phase # "idle"
  /\ phase = "idle" => ~canceled
  /\ batch # NoBatch => phase = "running" /\ buffer = <<>>
  /\ batch.by = "complete" => todo = <<>> /\ chunk = Len(file)
  /\ phase = "done" =>
       /\ step \in {"done", "closed"}
       /\ todo = <<>> /\ buffer = <<>>
       /\ ~canceled => Len(table) = Len(Data)

ImportInv == ImportTypeOK /\ CountIsHonest /\ RowsFollow /\ StepFits
=============================================================================
