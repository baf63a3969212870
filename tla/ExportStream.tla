---------------------------- MODULE ExportStream ----------------------------
(***************************************************************************)
(* An export streamed into a download: ExportService.streamRows (CSV and   *)
(* JSON) and streamSql with streamTableInserts (a dump of several tables), *)
(* over the drivers' cursors, and the controller that ends the response.   *)
(*                                                                         *)
(* A table's rows are read in order, so a count of rows stands for them.   *)
(* Tables grow while an export runs; a cursor yields the rows that were    *)
(* there when it was opened.                                               *)
(***************************************************************************)
EXTENDS Naturals

CONSTANTS
  Tables,        \* 1..n, in the order of the request
  TableLengths,  \* rows a table may hold
  ExportBudget,  \* STREAM_MAX_ROWS: the budget of a cursor
  ExportPage,    \* QUERY_PAGE_SIZE
  InsertBatch    \* INSERT_BATCH_ROWS

ASSUME TablesAssumption ==
  /\ 1 \in Tables /\ \A t \in Tables : t \in Nat \ {0} /\ 1..t \subseteq Tables
  /\ TableLengths \subseteq Nat
ASSUME ExportSizesAssumption ==
  ExportBudget \in Nat \ {0} /\ ExportPage \in Nat \ {0} /\ InsertBatch \in Nat \ {0}

VARIABLES
  format,
  wanted,      \* the number of tables exported
  tableLength, \* rows in each table
  at,          \* the table being exported
  cursor,      \* [open, size, pos]: the rows it will yield, those it has yielded
  tableStage,  \* of a table: to be opened, in the block loop, to be closed
  rowCount, truncated,
  pending,     \* rows of the INSERT statement not yet written
  written,     \* rows in the file, for each table
  noted,       \* for each table the number its truncation note gives, 0 for no note
  seen,        \* rows each table had when its cursor was opened
  response

exportVars == <<format, wanted, tableLength, at, cursor, tableStage, rowCount, truncated,
                pending, written, noted, seen, response>>

NoCursor == [open |-> FALSE, size |-> 0, pos |-> 0]
Least(a, b) == IF a < b THEN a ELSE b

ExportInit ==
  /\ format \in {"csv", "json", "sql"}
  /\ wanted \in IF format = "sql" THEN Tables ELSE {1}
  /\ tableLength \in [Tables -> TableLengths]
  /\ at = 1 /\ cursor = NoCursor /\ tableStage = "opening"
  /\ rowCount = 0 /\ truncated = FALSE /\ pending = 0
  /\ written = [t \in Tables |-> 0] /\ noted = [t \in Tables |-> 0]
  /\ seen = [t \in Tables |-> 0] /\ response = "open"

Streaming == response = "open" /\ at <= wanted

-----------------------------------------------------------------------------
\* A table's statement asks for one row more than the budget; a query's (CSV and
\* JSON) has no limit.
OpenCursor ==
  /\ Streaming /\ tableStage = "opening"
  /\ \E limited \in IF format = "sql" THEN {TRUE} ELSE BOOLEAN :
       cursor' = [open |-> TRUE, pos |-> 0,
                  size |-> IF limited THEN Least(tableLength[at], ExportBudget + 1) ELSE tableLength[at]]
  /\ seen' = [seen EXCEPT ![at] = tableLength[at]]
  /\ tableStage' = "reading" /\ rowCount' = 0 /\ truncated' = FALSE
  /\ UNCHANGED <<format, wanted, tableLength, at, pending, written, noted, response>>

\* A driver's fetch(n) is complete when it found fewer rows than n; the cursor
\* has closed itself then.
Fetch(n) ==
  LET got == Least(n, cursor.size - cursor.pos)
  IN [rows |-> got, complete |-> got < n]

\* Rows are written one by one, or collected into INSERT statements.
Emit(n) ==
  LET held == IF format = "sql" THEN (pending + n) % InsertBatch ELSE 0
  IN /\ pending' = held
     /\ written' = [written EXCEPT ![at] = @ + (pending + n - held)]

\* One block of the loop, which ends with the cursor or with the budget.
FetchBlock ==
  LET block == Fetch(Least(ExportPage, ExportBudget - rowCount))
      spent == rowCount + block.rows >= ExportBudget
  IN /\ Streaming /\ tableStage = "reading"
     /\ Emit(block.rows)
     /\ rowCount' = rowCount + block.rows
     /\ cursor' = [cursor EXCEPT !.pos = @ + block.rows, !.open = ~block.complete]
     /\ truncated' = (~block.complete /\ spent)
     /\ tableStage' = IF block.complete \/ spent THEN "closing" ELSE tableStage
     /\ UNCHANGED <<format, wanted, tableLength, at, noted, seen, response>>

\* Mutant of EndTable: the INSERT that is not full is not written.
EndTableLosesInsert ==
  /\ Streaming /\ tableStage = "closing"
  /\ pending' = 0
  /\ noted' = IF truncated /\ format # "json"
              THEN [noted EXCEPT ![at] = rowCount] ELSE noted
  /\ cursor' = NoCursor
  /\ at' = at + 1
  /\ tableStage' = "opening"
  /\ UNCHANGED <<format, wanted, tableLength, rowCount, truncated, written, seen, response>>

\* After the loop: the last INSERT, the note of a truncation (a JSON array has
\* none), and the cursor is closed.
EndTable ==
  /\ Streaming /\ tableStage = "closing"
  /\ written' = [written EXCEPT ![at] = @ + pending]
  /\ pending' = 0
  /\ noted' = IF truncated /\ format # "json"
              THEN [noted EXCEPT ![at] = rowCount] ELSE noted
  /\ cursor' = NoCursor
  /\ at' = at + 1
  /\ tableStage' = "opening"
  /\ UNCHANGED <<format, wanted, tableLength, rowCount, truncated, seen, response>>

\* Opening or reading fails after the first byte: the cursor is closed, and the
\* response is ended like any other.
Fail ==
  /\ Streaming
  /\ cursor' = NoCursor
  /\ response' = "failed"
  /\ UNCHANGED <<format, wanted, tableLength, at, tableStage, rowCount, truncated, pending,
                 written, noted, seen>>

Finish ==
  /\ response = "open" /\ at > wanted
  /\ response' = "ended"
  /\ UNCHANGED <<format, wanted, tableLength, at, cursor, tableStage, rowCount, truncated,
                 pending, written, noted, seen>>

\* Somebody inserts a row.
Grow(t) ==
  /\ tableLength[t] + 1 \in TableLengths
  /\ tableLength' = [tableLength EXCEPT ![t] = @ + 1]
  /\ UNCHANGED <<format, wanted, at, cursor, tableStage, rowCount, truncated,
                 pending, written, noted, seen, response>>

ExportNext == OpenCursor \/ FetchBlock \/ EndTable \/ Fail \/ Finish \/ \E t \in Tables : Grow(t)

\* The server goes on with an export it has begun.
ExportFairness == WF_exportVars(OpenCursor \/ FetchBlock \/ EndTable \/ Finish)

ExportSpec == ExportInit /\ [][ExportNext]_exportVars /\ ExportFairness

-----------------------------------------------------------------------------
ExportTypeOK ==
  /\ format \in {"csv", "json", "sql"} /\ wanted \in Tables
  /\ tableLength \in [Tables -> Nat] /\ seen \in [Tables -> Nat]
  /\ at \in 1..(wanted + 1)
  /\ cursor \in [open : BOOLEAN, size : Nat, pos : Nat] /\ cursor.pos <= cursor.size
  /\ tableStage \in {"opening", "reading", "closing"} /\ truncated \in BOOLEAN
  /\ rowCount \in 0..ExportBudget /\ pending \in 0..(InsertBatch - 1)
  /\ written \in [Tables -> 0..ExportBudget] /\ noted \in [Tables -> 0..ExportBudget]
  /\ response \in {"open", "ended", "failed"}

\* What an export that ended well holds of each table: its first rows, all of them
\* or as many as the budget allows, and in a CSV file or a dump nothing is cut
\* without a note that counts exactly the rows above it.
FileIsAccounted ==
  \A t \in Tables :
    /\ response = "ended" /\ t <= wanted => written[t] = Least(seen[t], ExportBudget)
    /\ response = "ended" /\ t <= wanted /\ format # "json" /\ written[t] < seen[t]
         => noted[t] = written[t]
    /\ noted[t] # 0 => noted[t] = written[t] /\ written[t] = ExportBudget

\* A truncated export says so.
NeverTruncatedSilently ==
  response = "ended" => \A t \in 1..wanted : written[t] < seen[t] => noted[t] # 0

-----------------------------------------------------------------------------
(* The inductive strengthening behind FileIsAccounted. *)

\* The cursor yields all the rows its table had, or enough of them to show that there
\* are more than the budget.
CursorCoversTable ==
  \/ cursor.size = seen[at]
  \/ cursor.size = ExportBudget + 1 /\ seen[at] > ExportBudget

\* The table being exported: what was read of it is in the file or in the INSERT
\* statement that is not full.
TableInProgress ==
  Streaming =>
    /\ noted[at] = 0
    /\ tableStage = "opening" => written[at] = 0 /\ pending = 0
    /\ tableStage = "reading" =>
         /\ written[at] + pending = rowCount /\ rowCount = cursor.pos /\ rowCount < ExportBudget
         /\ CursorCoversTable
    /\ tableStage = "closing" =>
         /\ written[at] + pending = rowCount
         /\ IF truncated THEN rowCount = ExportBudget /\ seen[at] >= ExportBudget
            ELSE rowCount = seen[at] /\ rowCount <= ExportBudget

\* The tables before it are accounted for, and of those after it nothing is written.
TablesDone ==
  \A t \in Tables :
    /\ t < at =>
         /\ written[t] = Least(seen[t], ExportBudget)
         /\ format # "json" /\ written[t] < seen[t] => noted[t] = written[t]
    /\ t > at => written[t] = 0 /\ noted[t] = 0

NotesCount ==
  \A t \in Tables : noted[t] # 0 => noted[t] = written[t] /\ written[t] = ExportBudget

ExportInv ==
  /\ ExportTypeOK
  /\ at > wanted => tableStage = "opening" /\ pending = 0
  /\ response = "ended" => at > wanted
  /\ TableInProgress
  /\ TablesDone
  /\ NotesCount
=============================================================================
