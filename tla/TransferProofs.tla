--------------------------- MODULE TransferProofs ---------------------------
(***************************************************************************)
(* What imports, exports and the grid's data source promise of the rows    *)
(* they move (CsvImport, ExportStream, CursorDatasource), for any files,   *)
(* tables, results, budgets and batch sizes.                               *)
(***************************************************************************)
EXTENDS CsvImport, ExportStream, CursorDatasource, SequenceTheorems, TLAPS

-----------------------------------------------------------------------------
(* Exports. *)

LEMMA HeldFits ==
  ASSUME NEW n \in Nat
  PROVE  n % InsertBatch \in 0..(InsertBatch - 1) /\ n % InsertBatch <= n
<1>1. InsertBatch \in Nat /\ InsertBatch > 0
  BY ExportSizesAssumption
<1>2. n % InsertBatch \in 0..(InsertBatch - 1)
  BY <1>1
<1>3. n = InsertBatch * (n \div InsertBatch) + (n % InsertBatch) /\ n \div InsertBatch \in Nat
  BY <1>1
<1>4. PICK q \in Nat : n = InsertBatch * q + (n % InsertBatch)
  BY <1>3
<1>5. InsertBatch * q \in Nat
  BY <1>1
<1>6. ASSUME NEW x \in Nat, NEW r \in Nat, n = x + r PROVE r <= n
  BY <1>6
<1> QED  BY <1>2, <1>4, <1>5, <1>6, <1>1

LEMMA TableFacts ==
  /\ 1 \in Tables /\ TableLengths \subseteq Nat
  /\ \A t \in Tables : t \in Nat /\ t > 0
BY TablesAssumption

\* The table that is being exported is one of those asked for.
LEMMA AtIsATable ==
  ASSUME ExportTypeOK, at <= wanted
  PROVE  at \in Tables
BY TablesAssumption DEF ExportTypeOK

LEMMA CursorTypes ==
  ASSUME ExportTypeOK
  PROVE  cursor.open \in BOOLEAN /\ cursor.size \in Nat /\ cursor.pos \in Nat
         /\ cursor.pos <= cursor.size
<1>1. cursor \in [open : BOOLEAN, size : Nat, pos : Nat] /\ cursor.pos <= cursor.size
  BY DEF ExportTypeOK
<1> QED  BY <1>1

LEMMA CountTypes ==
  ASSUME ExportTypeOK, at \in Tables
  PROVE  /\ written[at] \in Nat /\ pending \in Nat /\ rowCount \in Nat /\ seen[at] \in Nat
         /\ rowCount <= ExportBudget
<1>1. written \in [Tables -> 0..ExportBudget] /\ pending \in 0..(InsertBatch - 1)
      /\ rowCount \in 0..ExportBudget /\ seen \in [Tables -> Nat]
  BY DEF ExportTypeOK
<1>2. written[at] \in 0..ExportBudget /\ seen[at] \in Nat
  BY <1>1
<1> QED  BY <1>1, <1>2, TableFacts, ExportSizesAssumption

LEMMA InitExportInv == ExportInit => ExportInv
<1> SUFFICES ASSUME ExportInit PROVE ExportInv
  OBVIOUS
<1> USE TableFacts, ExportSizesAssumption DEF ExportInit, NoCursor
<1>1. ExportTypeOK
  <2>1. cursor \in [open : BOOLEAN, size : Nat, pos : Nat] /\ cursor.pos <= cursor.size
    OBVIOUS
  <2>2. wanted \in Tables /\ wanted \in Nat /\ wanted > 0
    OBVIOUS
  <2>3. at \in 1..(wanted + 1)
    BY <2>2
  <2>4. tableLength \in [Tables -> Nat]
    OBVIOUS
  <2>5. /\ seen \in [Tables -> Nat] /\ written \in [Tables -> 0..ExportBudget]
        /\ noted \in [Tables -> 0..ExportBudget]
    OBVIOUS
  <2>6. rowCount \in 0..ExportBudget /\ pending \in 0..(InsertBatch - 1)
    OBVIOUS
  <2>7. /\ format \in {"csv", "json", "sql"} /\ tableStage \in {"opening", "reading", "closing"}
        /\ truncated \in BOOLEAN /\ response \in {"open", "ended", "failed"}
    OBVIOUS
  <2> QED  BY ONLY <2>1, <2>2, <2>3, <2>4, <2>5, <2>6, <2>7 DEF ExportTypeOK
<1>2. TableInProgress /\ TablesDone /\ NotesCount
  BY DEF TableInProgress, TablesDone, NotesCount, Streaming
<1>3. at <= wanted
  OBVIOUS
<1> QED  BY <1>1, <1>2, <1>3 DEF ExportInv

LEMMA OpenCursorKeeps ==
  ASSUME ExportInv, OpenCursor
  PROVE  ExportInv'
<1> USE TableFacts, ExportSizesAssumption
<1>1. PICK limited \in BOOLEAN :
        cursor' = [open |-> TRUE, pos |-> 0,
                   size |-> IF limited THEN Least(tableLength[at], ExportBudget + 1)
                            ELSE tableLength[at]]
  BY DEF OpenCursor
<1>2. at \in Tables /\ ExportTypeOK /\ tableLength[at] \in Nat
  BY AtIsATable DEF ExportInv, OpenCursor, Streaming, ExportTypeOK
<1>3. seen' = [seen EXCEPT ![at] = tableLength[at]] /\ seen'[at] = tableLength[at]
  BY <1>2 DEF OpenCursor, ExportTypeOK
<1>4. ExportTypeOK'
  <2> DEFINE size == IF limited THEN Least(tableLength[at], ExportBudget + 1) ELSE tableLength[at]
  <2>1. size \in Nat /\ cursor' = [open |-> TRUE, pos |-> 0, size |-> size]
    BY <1>1, <1>2 DEF Least
  <2> HIDE DEF size
  <2>2. cursor' \in [open : BOOLEAN, size : Nat, pos : Nat] /\ cursor'.pos <= cursor'.size
    BY <2>1
  <2>3. seen' \in [Tables -> Nat]
    BY <1>2, <1>3 DEF ExportTypeOK
  <2>4. rowCount' \in 0..ExportBudget /\ tableStage' = "reading" /\ truncated' = FALSE
    BY DEF OpenCursor
  <2> QED  BY <1>2, <2>2, <2>3, <2>4 DEF ExportTypeOK, OpenCursor
<1>5. CursorCoversTable' /\ cursor'.pos = 0
  BY <1>1, <1>2, <1>3 DEF CursorCoversTable, Least, OpenCursor
<1>6. TableInProgress'
  BY <1>2, <1>5 DEF TableInProgress, OpenCursor, Streaming, ExportInv, ExportTypeOK
<1>7. TablesDone' /\ NotesCount'
  BY <1>2, <1>3 DEF TablesDone, NotesCount, OpenCursor, ExportInv, ExportTypeOK
<1>8. ~(at > wanted)
  BY <1>2 DEF OpenCursor, Streaming, ExportTypeOK
<1> QED  BY <1>4, <1>6, <1>7, <1>8 DEF ExportInv, OpenCursor, Streaming

LEMMA FetchBlockKeeps ==
  ASSUME ExportInv, FetchBlock
  PROVE  ExportInv'
<1> USE TableFacts, ExportSizesAssumption
<1> DEFINE room == Least(ExportPage, ExportBudget - rowCount)
           n == Least(room, cursor.size - cursor.pos)
           complete == n < room
           held == IF format = "sql" THEN (pending + n) % InsertBatch ELSE 0
<1>1. /\ at \in Tables /\ ExportTypeOK /\ Streaming /\ tableStage = "reading"
      /\ noted[at] = 0 /\ written[at] + pending = rowCount
      /\ rowCount = cursor.pos /\ rowCount < ExportBudget /\ CursorCoversTable
  BY AtIsATable DEF ExportInv, FetchBlock, Streaming, TableInProgress
<1>2. /\ written[at] \in Nat /\ pending \in Nat /\ rowCount \in Nat /\ seen[at] \in Nat
      /\ cursor.size \in Nat /\ cursor.pos \in Nat /\ cursor.pos <= cursor.size
  BY <1>1, CursorTypes, CountTypes
<1>3. /\ room \in Nat \ {0} /\ rowCount + room <= ExportBudget
  BY <1>1, <1>2 DEF Least
<1>4. /\ n \in Nat /\ n <= room /\ cursor.pos + n <= cursor.size
      /\ complete => cursor.pos + n = cursor.size
  BY <1>2, <1>3 DEF Least
<1> HIDE DEF room
<1>5. held \in 0..(InsertBatch - 1) /\ held <= pending + n
  BY <1>2, <1>4, HeldFits
<1>c. complete <=> n < room
  OBVIOUS
<1> HIDE DEF n, complete
<1>6. /\ pending' = held /\ written' = [written EXCEPT ![at] = @ + (pending + n - held)]
      /\ rowCount' = rowCount + n
      /\ cursor' = [cursor EXCEPT !.pos = @ + n, !.open = ~complete]
      /\ truncated' = (~complete /\ rowCount + n >= ExportBudget)
      /\ tableStage' = IF complete \/ rowCount + n >= ExportBudget THEN "closing" ELSE tableStage
      /\ UNCHANGED <<format, wanted, tableLength, at, noted, seen, response>>
  BY DEF FetchBlock, Emit, Fetch, room, n, complete
<1> HIDE DEF held
<1>7. written'[at] + pending' = rowCount' /\ written'[at] \in 0..ExportBudget
  BY <1>1, <1>2, <1>3, <1>4, <1>5, <1>6 DEF ExportTypeOK
<1>8. cursor'.size = cursor.size /\ cursor'.pos = cursor.pos + n /\ cursor'.open \in BOOLEAN
      /\ cursor' \in [open : BOOLEAN, size : Nat, pos : Nat]
  <2>1. cursor \in [open : BOOLEAN, size : Nat, pos : Nat] /\ cursor.pos + n \in Nat
    BY <1>1, <1>2, <1>4 DEF ExportTypeOK
  <2> QED  BY <1>6, <2>1
<1>9. ExportTypeOK'
  <2>1. written' \in [Tables -> 0..ExportBudget]
    BY <1>1, <1>6, <1>7 DEF ExportTypeOK
  <2>2. rowCount' \in 0..ExportBudget /\ pending' \in 0..(InsertBatch - 1)
    BY <1>2, <1>3, <1>4, <1>5, <1>6
  <2>3. cursor'.pos <= cursor'.size
    BY <1>2, <1>4, <1>8
  <2> QED  BY <1>1, <1>6, <1>8, <2>1, <2>2, <2>3 DEF ExportTypeOK
<1>10. tableStage' = "closing" =>
         IF truncated' THEN rowCount' = ExportBudget /\ seen'[at] >= ExportBudget
         ELSE rowCount' = seen'[at] /\ rowCount' <= ExportBudget
  <2>1. CASE complete
    <3>1. cursor.size = rowCount + n /\ rowCount + n < ExportBudget
      BY <1>1, <1>2, <1>3, <1>4, <1>c, <2>1
    <3>2. cursor.size = seen[at]
      BY <1>1, <1>2, <3>1 DEF CursorCoversTable
    <3>3. ~truncated' /\ rowCount' = seen'[at]
      BY <1>6, <2>1, <3>1, <3>2
    <3>4. rowCount' <= ExportBudget
      BY <1>2, <1>6, <3>1
    <3> QED  BY <3>3, <3>4
  <2>2. CASE ~complete /\ rowCount + n >= ExportBudget
    <3>1. rowCount + n = ExportBudget /\ cursor.size >= ExportBudget
      BY <1>1, <1>2, <1>3, <1>4, <2>2
    <3>2. seen[at] >= ExportBudget
      BY <1>1, <1>2, <3>1 DEF CursorCoversTable
    <3> QED  BY <1>6, <2>2, <3>1, <3>2
  <2>3. CASE ~complete /\ ~(rowCount + n >= ExportBudget)
    BY <1>1, <1>6, <2>3
  <2> QED  BY <2>1, <2>2, <2>3
<1>11. TableInProgress'
  BY <1>1, <1>2, <1>4, <1>6, <1>7, <1>8, <1>10 DEF TableInProgress, CursorCoversTable, Streaming
<1>12. TablesDone' /\ NotesCount'
  BY <1>1, <1>6 DEF TablesDone, NotesCount, ExportInv, ExportTypeOK
<1> QED  BY <1>1, <1>6, <1>9, <1>11, <1>12 DEF ExportInv, Streaming

LEMMA EndTableKeeps ==
  ASSUME ExportInv, EndTable
  PROVE  ExportInv'
<1> USE TableFacts, ExportSizesAssumption
<1>1. /\ at \in Tables /\ at \in Nat /\ ExportTypeOK /\ Streaming /\ noted[at] = 0
      /\ written[at] + pending = rowCount
      /\ IF truncated THEN rowCount = ExportBudget /\ seen[at] >= ExportBudget
         ELSE rowCount = seen[at] /\ rowCount <= ExportBudget
  BY AtIsATable DEF ExportInv, EndTable, Streaming, TableInProgress
<1>2. /\ written' = [written EXCEPT ![at] = rowCount]
      /\ noted' = IF truncated /\ format # "json" THEN [noted EXCEPT ![at] = rowCount] ELSE noted
  BY <1>1 DEF EndTable, ExportTypeOK
<1>3. rowCount \in 0..ExportBudget /\ seen[at] \in Nat
  BY <1>1, CountTypes, ExportSizesAssumption
<1>4. ExportTypeOK'
  BY <1>1, <1>2, <1>3 DEF EndTable, ExportTypeOK, NoCursor, Streaming
<1>5. written'[at] = Least(seen[at], ExportBudget)
      /\ (format # "json" /\ written'[at] < seen[at] => noted'[at] = written'[at])
      /\ (noted'[at] # 0 => noted'[at] = written'[at] /\ written'[at] = ExportBudget)
  BY <1>1, <1>2, <1>3 DEF Least, ExportTypeOK
<1>6. \A t \in Tables \ {at} : written'[t] = written[t] /\ noted'[t] = noted[t]
  BY <1>1, <1>2 DEF ExportTypeOK
<1>7. TablesDone'
  BY <1>1, <1>5, <1>6 DEF TablesDone, ExportInv, EndTable
<1>8. NotesCount'
  BY <1>5, <1>6 DEF NotesCount, ExportInv
<1>9. TableInProgress'
  <2>1. at' = at + 1 /\ tableStage' = "opening" /\ pending' = 0
    BY DEF EndTable
  <2>2. ASSUME Streaming' PROVE at' \in Tables
    <3>1. at' \in 1..(wanted' + 1) /\ wanted' \in Tables /\ at' <= wanted'
      BY <1>4, <2>2 DEF ExportTypeOK, Streaming
    <3> QED  BY <3>1, TablesAssumption
  <2>3. ASSUME Streaming' PROVE written'[at'] = 0 /\ noted'[at'] = 0
    BY <1>1, <1>6, <2>1, <2>2, <2>3 DEF ExportInv, TablesDone
  <2> QED  BY <2>1, <2>3 DEF TableInProgress
<1> QED  BY <1>1, <1>4, <1>7, <1>8, <1>9 DEF ExportInv, EndTable, Streaming

LEMMA OtherExportStepsKeep ==
  ASSUME ExportInv, Fail \/ Finish \/ (\E t \in Tables : Grow(t)) \/ UNCHANGED exportVars
  PROVE  ExportInv'
<1>1. CASE Fail
  <2>1. ExportTypeOK'
    BY <1>1 DEF Fail, ExportInv, ExportTypeOK, NoCursor
  <2> QED
    BY <1>1, <2>1 DEF Fail, ExportInv, Streaming, TableInProgress, TablesDone, NotesCount
<1>2. CASE Finish
  <2>1. ExportTypeOK'
    BY <1>2 DEF Finish, ExportInv, ExportTypeOK
  <2> QED
    BY <1>2, <2>1 DEF Finish, ExportInv, Streaming, TableInProgress, TablesDone, NotesCount
<1>3. ASSUME NEW t \in Tables, Grow(t) PROVE ExportInv'
  <2>1. ExportTypeOK'
    BY <1>3 DEF Grow, ExportInv, ExportTypeOK
  <2> QED
    BY <1>3, <2>1 DEF Grow, ExportInv, Streaming, TableInProgress, TablesDone, NotesCount,
                      CursorCoversTable
<1>4. CASE UNCHANGED exportVars
  BY <1>4 DEF exportVars, ExportInv, ExportTypeOK, Streaming, TableInProgress, TablesDone,
              NotesCount, CursorCoversTable
<1> QED  BY <1>1, <1>2, <1>3, <1>4

\* The file and the INSERT statement under way hold what was read of a table, and the
\* tables before it are accounted for.
THEOREM ExportInvariant == ExportSpec => []ExportInv
<1>1. ExportInv /\ [ExportNext]_exportVars => ExportInv'
  BY OpenCursorKeeps, FetchBlockKeeps, EndTableKeeps, OtherExportStepsKeep DEF ExportNext
<1> QED  BY InitExportInv, <1>1, PTL DEF ExportSpec

\* An export that ended well (streamRows, streamSql) holds of each table the first rows,
\* all or as many as the budget allows; in a CSV file or a dump nothing is cut without
\* a note that counts exactly the rows above it.
THEOREM FilesAreAccounted == ExportSpec => []FileIsAccounted
<1>1. ExportInv => FileIsAccounted
  <2> SUFFICES ASSUME ExportInv PROVE FileIsAccounted
    OBVIOUS
  <2>1. response = "ended" => at > wanted
    BY DEF ExportInv
  <2>2. \A t \in Tables : response = "ended" /\ t <= wanted => t < at
    BY <2>1, TableFacts DEF ExportInv, ExportTypeOK
  <2> QED  BY <2>2 DEF ExportInv, TablesDone, NotesCount, FileIsAccounted
<1> QED  BY ExportInvariant, <1>1, PTL

-----------------------------------------------------------------------------
(* Imports. *)

LEMMA FollowsConcat ==
  ASSUME NEW a \in Seq(Nat), NEW b \in Seq(Nat), NEW n \in Nat,
         Follows(a, n), Follows(b, n + Len(a))
  PROVE  a \o b \in Seq(Nat) /\ Len(a \o b) = Len(a) + Len(b) /\ Follows(a \o b, n)
<1>1. /\ a \o b \in Seq(Nat) /\ Len(a \o b) = Len(a) + Len(b)
      /\ \A i \in 1..(Len(a) + Len(b)) : (a \o b)[i] = IF i <= Len(a) THEN a[i] ELSE b[i - Len(a)]
  BY ConcatProperties
<1>2. Len(a) \in Nat /\ Len(b) \in Nat
  OBVIOUS
<1>3. ASSUME NEW i \in 1..(Len(a) + Len(b)) PROVE (a \o b)[i] = n + i
  <2>1. CASE i <= Len(a)
    BY <1>1, <1>2, <2>1 DEF Follows
  <2>2. CASE ~(i <= Len(a))
    <3>1. i - Len(a) \in 1..Len(b) /\ (a \o b)[i] = b[i - Len(a)]
      BY <1>1, <1>2, <2>2
    <3>2. b[i - Len(a)] = n + Len(a) + (i - Len(a))
      BY <3>1 DEF Follows
    <3> QED  BY <1>2, <3>1, <3>2
  <2> QED  BY <2>1, <2>2
<1> QED  BY <1>1, <1>3 DEF Follows

LEMMA FollowsPart ==
  ASSUME NEW rows \in Seq(Nat), NEW n \in Nat, Follows(rows, n),
         NEW m \in Nat, NEW k \in Nat, m <= k, k <= Len(rows)
  PROVE  /\ SubSeq(rows, m + 1, k) \in Seq(Nat) /\ Len(SubSeq(rows, m + 1, k)) = k - m
         /\ Follows(SubSeq(rows, m + 1, k), n + m)
<1>1. Len(rows) \in Nat /\ \A i \in 1..Len(rows) : rows[i] \in Nat
  OBVIOUS
<1>2. \A i \in (m + 1)..k : rows[i] \in Nat
  BY <1>1
<1> DEFINE part == SubSeq(rows, m + 1, k)
<1>3. /\ part \in Seq(Nat) /\ Len(part) = (IF m + 1 <= k THEN k - (m + 1) + 1 ELSE 0)
      /\ \A i \in 1..(k - (m + 1) + 1) : part[i] = rows[(m + 1) + i - 1]
  BY <1>2, SubSeqProperties
<1>4. Len(part) = k - m /\ \A i \in 1..(k - m) : part[i] = rows[m + i]
  BY <1>3
<1>5. ASSUME NEW i \in 1..(k - m) PROVE part[i] = n + m + i
  BY <1>1, <1>4 DEF Follows
<1> QED  BY <1>3, <1>4, <1>5 DEF Follows

LEMMA HeaderNat == Header \in {0, 1}
BY DEF Header

\* What the parser has handed over with n chunks: the rows after the header.
LEMMA DataFacts ==
  ASSUME file \in Files, NEW n \in 0..Len(file)
  PROVE  /\ DataUpTo(n) \in Seq(Nat) /\ Follows(DataUpTo(n), Header)
         /\ Len(DataUpTo(n)) = IF n = 0 THEN 0 ELSE file[n] - Header
         /\ Len(DataUpTo(n)) \in Nat
<1>1. file \in Seq(Nat \ {0}) /\ (n # 0 => file[n] \in Nat /\ file[n] > 0)
  BY FilesAssumption
<1> DEFINE size == RowsUpTo(n) - Header
           rowsRead == IF n = 0 THEN 0 ELSE file[n] - Header
<1>2. rowsRead \in Nat /\ 1..size = 1..rowsRead
  BY <1>1, HeaderNat DEF RowsUpTo
<1>3. DataUpTo(n) = [i \in 1..rowsRead |-> i + Header]
  BY <1>2 DEF DataUpTo
<1> HIDE DEF rowsRead
<1>4. DataUpTo(n) \in Seq(Nat) /\ Len(DataUpTo(n)) = rowsRead
  BY <1>2, <1>3, HeaderNat
<1>5. Follows(DataUpTo(n), Header)
  BY <1>2, <1>3, <1>4, HeaderNat DEF Follows
<1> QED  BY <1>2, <1>4, <1>5 DEF rowsRead

LEMMA DataGrows ==
  ASSUME file \in Files, NEW m \in 0..Len(file), NEW n \in 0..Len(file), m <= n
  PROVE  Len(DataUpTo(m)) <= Len(DataUpTo(n))
<1>1. Len(DataUpTo(m)) = IF m = 0 THEN 0 ELSE file[m] - Header
  BY DataFacts
<1>2. Len(DataUpTo(n)) = (IF n = 0 THEN 0 ELSE file[n] - Header) /\ Len(DataUpTo(n)) \in Nat
  BY DataFacts
<1>3. m # 0 => file[m] <= file[n] /\ file[m] \in Nat /\ file[n] \in Nat
  BY FilesAssumption
<1> QED  BY <1>1, <1>2, <1>3, HeaderNat

\* Sequences of rows in order, with their number.
Queue(n, sent, held, rest, count) ==
  /\ sent \in Seq(Nat) /\ held \in Seq(Nat) /\ rest \in Seq(Nat)
  /\ InOrder(n, sent, held, rest)
  /\ Len(sent) + Len(held) + Len(rest) = count

\* Filling the buffer loses no row and mixes none up.
LEMMA FillKeepsQueue ==
  ASSUME NEW n \in Nat, NEW rows, NEW count, Queue(n, <<>>, buffer, rows, count),
         Len(buffer) < BatchSize, Fill(rows)
  PROVE  /\ Len(buffer') < BatchSize
         /\ \/ batch' = batch /\ Queue(n, <<>>, buffer', todo', count)
            \/ /\ batch' = [rows |-> batch'.rows, at |-> "server", by |-> "chunk"]
               /\ buffer' = <<>> /\ Queue(n, batch'.rows, <<>>, todo', count)
<1> DEFINE room == BatchSize - Len(buffer)
           first == SubSeq(rows, 1, room)
           rest == SubSeq(rows, room + 1, Len(rows))
<1>1. /\ buffer \in Seq(Nat) /\ rows \in Seq(Nat) /\ Len(buffer) \in Nat /\ Len(rows) \in Nat
      /\ Follows(buffer, n) /\ Follows(rows, n + Len(buffer)) /\ Len(buffer) + Len(rows) = count
  BY DEF Queue, InOrder
<1>2. room \in Nat /\ room > 0
  BY <1>1, BatchAssumption
<1>3. <<>> \in Seq(Nat) /\ Len(<<>>) = 0 /\ \A k \in Nat : Follows(<<>>, k)
  BY DEF Follows
<1>4. CASE Len(rows) >= room
  <2>1. /\ first \in Seq(Nat) /\ Len(first) = room /\ Follows(first, n + Len(buffer))
    <3>1. /\ SubSeq(rows, 0 + 1, room) \in Seq(Nat) /\ Len(SubSeq(rows, 0 + 1, room)) = room - 0
          /\ Follows(SubSeq(rows, 0 + 1, room), n + Len(buffer) + 0)
      <4>1. n + Len(buffer) \in Nat /\ 0 <= room /\ room <= Len(rows)
        BY <1>1, <1>2, <1>4
      <4> QED  BY <1>1, <1>2, <4>1, FollowsPart
    <3>2. 0 + 1 = 1 /\ room - 0 = room /\ n + Len(buffer) + 0 = n + Len(buffer)
      BY <1>1, <1>2
    <3> QED  BY <3>1, <3>2
  <2>2. /\ rest \in Seq(Nat) /\ Len(rest) = Len(rows) - room
        /\ Follows(rest, n + Len(buffer) + room)
    <3>1. n + Len(buffer) \in Nat /\ room <= Len(rows) /\ Len(rows) <= Len(rows)
      BY <1>1, <1>2, <1>4
    <3> QED  BY <1>1, <1>2, <3>1, FollowsPart
  <2>3. /\ buffer \o first \in Seq(Nat) /\ Len(buffer \o first) = Len(buffer) + room
        /\ Follows(buffer \o first, n)
    BY <1>1, <2>1, FollowsConcat
  <2>4. /\ batch' = [rows |-> buffer \o first, at |-> "server", by |-> "chunk"]
        /\ buffer' = <<>> /\ todo' = rest
    BY <1>4 DEF Fill, Flush
  <2> HIDE DEF first, rest
  <2>5. Queue(n, buffer \o first, <<>>, rest, count)
    <3>1. /\ n + Len(buffer \o first) \in Nat
          /\ n + Len(buffer \o first) + Len(<<>>) = n + Len(buffer) + room
      BY <1>1, <1>2, <1>3, <2>3, BatchAssumption
    <3>2. Len(buffer \o first) + Len(<<>>) + Len(rest) = count
      BY <1>1, <1>2, <1>3, <2>2, <2>3
    <3> QED  BY <1>3, <2>2, <2>3, <3>1, <3>2 DEF Queue, InOrder
  <2> QED  BY <1>1, <1>2, <1>3, <2>4, <2>5, BatchAssumption
<1>5. CASE ~(Len(rows) >= room)
  <2>1. buffer' = buffer \o rows /\ todo' = <<>> /\ batch' = batch
    BY <1>5 DEF Fill
  <2>2. /\ buffer \o rows \in Seq(Nat) /\ Len(buffer \o rows) = Len(buffer) + Len(rows)
        /\ Follows(buffer \o rows, n)
    BY <1>1, FollowsConcat
  <2>3. Queue(n, <<>>, buffer', todo', count)
    <3>1. n + Len(<<>>) = n /\ n + Len(<<>>) + Len(buffer') \in Nat
          /\ Len(<<>>) + Len(buffer') + Len(todo') = count
      BY <1>1, <1>3, <2>1, <2>2
    <3> QED  BY <1>3, <2>1, <2>2, <3>1 DEF Queue, InOrder
  <2>4. Len(buffer') < BatchSize
    BY <1>1, <1>2, <1>5, <2>1, <2>2, BatchAssumption
  <2> QED  BY <2>1, <2>3, <2>4
<1> QED  BY <1>4, <1>5

\* What the invariant says, taken apart for the steps.
LEMMA ImportFacts ==
  ASSUME ImportInv
  PROVE  /\ file \in Files /\ chunk \in 0..Len(file) /\ Len(file) \in Nat
         /\ hasHeader \in BOOLEAN /\ canceled \in BOOLEAN
         /\ table \in Seq(Nat) /\ Len(table) \in Nat /\ Follows(table, Header)
         /\ Header + Len(table) \in Nat
         /\ inserted \in Nat /\ unheard \in Nat /\ Len(buffer) < BatchSize
         /\ buffer \in Seq(Nat) /\ todo \in Seq(Nat)
         /\ Len(buffer) \in Nat /\ Len(todo) \in Nat
         /\ batch.rows \in Seq(Nat) /\ Len(batch.rows) \in Nat
         /\ Queue(Header + Len(table), Sent, buffer, todo, Taken - Len(table))
         /\ Taken \in Nat /\ Taken <= Len(DataUpTo(chunk))
         /\ phase \in {"idle", "running"} /\ ~canceled => Taken = Len(DataUpTo(chunk))
<1>1. ImportTypeOK /\ RowsFollow
  BY DEF ImportInv
<1>2. file \in Seq(Nat \ {0})
  BY <1>1, FilesAssumption DEF ImportTypeOK
<1>3. batch \in [rows : Seq(Nat), at : {"none", "server", "committed", "refused"},
                 by : {"none", "chunk", "complete"}]
  BY <1>1 DEF ImportTypeOK
<1>4. batch.rows \in Seq(Nat)
  BY <1>3
<1>5. Sent \in Seq(Nat)
  BY <1>4 DEF Sent
<1>6. /\ buffer \in Seq(Nat) /\ todo \in Seq(Nat) /\ table \in Seq(Nat)
      /\ inserted \in Nat /\ unheard \in Nat /\ Len(buffer) < BatchSize
      /\ file \in Files /\ chunk \in 0..Len(file) /\ hasHeader \in BOOLEAN /\ canceled \in BOOLEAN
  BY <1>1 DEF ImportTypeOK
<1>7. /\ Len(table) \in Nat /\ Len(Sent) \in Nat /\ Len(buffer) \in Nat /\ Len(todo) \in Nat
      /\ Len(file) \in Nat /\ Len(batch.rows) \in Nat /\ Header + Len(table) \in Nat
  BY <1>2, <1>4, <1>5, <1>6, HeaderNat
<1>8. Taken \in Nat /\ Taken - Len(table) = Len(Sent) + Len(buffer) + Len(todo)
  BY <1>7 DEF Taken
<1> QED  BY <1>1, <1>4, <1>5, <1>6, <1>7, <1>8 DEF Queue, RowsFollow

\* Where the rows go on in order, RowsFollow does.
LEMMA RowsGoOn ==
  ASSUME ImportInv, NEW count \in Nat,
         table' \in Seq(Nat), Follows(table', Header'),
         Queue((Header + Len(table))', Sent', buffer', todo', count),
         Len(table') + count <= Len(DataUpTo(chunk)'),
         phase' \in {"idle", "running"} /\ ~canceled'
           => Len(table') + count = Len(DataUpTo(chunk)')
  PROVE  RowsFollow'
<1>1. Taken' = Len(table') + count
  BY DEF Taken, Queue
<1> QED  BY <1>1 DEF RowsFollow, Queue

LEMMA InitImportInv == ImportInit => ImportInv
<1> SUFFICES ASSUME ImportInit PROVE ImportInv
  OBVIOUS
<1> USE DEF ImportInit
<1>1. file \in Seq(Nat \ {0}) /\ Len(file) \in Nat
  BY FilesAssumption
<1>2. <<>> \in Seq(Nat) /\ Len(<<>>) = 0 /\ \A k : Follows(<<>>, k)
  BY DEF Follows
<1>3. ImportTypeOK
  <2>1. batch \in [rows : Seq(Nat), at : {"none", "server", "committed", "refused"},
                   by : {"none", "chunk", "complete"}]
    BY <1>2 DEF NoBatch
  <2>2. Len(buffer) < BatchSize /\ chunk \in 0..Len(file)
    BY <1>1, <1>2, BatchAssumption
  <2> QED  BY <1>2, <2>1, <2>2 DEF ImportTypeOK
<1>4. CountIsHonest
  BY <1>2 DEF CountIsHonest, NoBatch
<1>5. Sent = <<>> /\ Taken = 0
  BY <1>2 DEF Sent, Taken, NoBatch
<1>6. Len(DataUpTo(chunk)) = 0
  BY <1>1, DataFacts
<1>7. RowsFollow
  BY <1>2, <1>5, <1>6 DEF RowsFollow, InOrder
<1>8. StepFits
  BY DEF StepFits, NoBatch
<1> QED  BY <1>3, <1>4, <1>7, <1>8 DEF ImportInv

LEMMA SettledSteps ==
  ASSUME ImportInv, Import \/ Cancel \/ Close \/ UNCHANGED importVars
  PROVE  ImportInv'
<1> USE DEF Import, Cancel, Close, importVars
<1>1. ImportTypeOK'
  BY DEF ImportInv, ImportTypeOK
<1>2. CountIsHonest'
  BY DEF ImportInv, CountIsHonest
<1>3. UNCHANGED <<Sent, Taken, Header, DataUpTo(chunk), Data>>
  BY DEF Sent, Taken, Header, DataUpTo, Data, RowsUpTo
<1>4. RowsFollow'
  BY <1>3 DEF ImportInv, RowsFollow, StepFits
<1>5. StepFits'
  BY <1>3 DEF ImportInv, StepFits
<1> QED  BY <1>1, <1>2, <1>4, <1>5 DEF ImportInv

LEMMA ReadFailsKeeps ==
  ASSUME ImportInv, ReadFails
  PROVE  ImportInv'
<1>1. ImportTypeOK'
  BY ImportFacts DEF ImportInv, ImportTypeOK, ReadFails, Settle
<1>2. CountIsHonest'
  BY DEF ImportInv, CountIsHonest, ReadFails
<1>3. UNCHANGED <<Sent, Taken, Header>> /\ file' = file /\ hasHeader' = hasHeader
  BY DEF Sent, Taken, Header, ReadFails
<1>4. Taken <= Len(DataUpTo(Len(file)))
  <2>1. chunk \in 0..Len(file) /\ Len(file) \in 0..Len(file) /\ chunk <= Len(file)
    BY ImportFacts
  <2>2. Len(DataUpTo(chunk)) <= Len(DataUpTo(Len(file)))
        /\ Len(DataUpTo(chunk)) \in Nat /\ Len(DataUpTo(Len(file))) \in Nat
    BY <2>1, ImportFacts, DataGrows, DataFacts
  <2> QED  BY <2>2, ImportFacts
<1>5. DataUpTo(chunk)' = DataUpTo(Len(file))
  BY <1>3 DEF DataUpTo, RowsUpTo, ReadFails
<1>6. RowsFollow'
  BY <1>3, <1>4, <1>5 DEF ImportInv, RowsFollow, ReadFails, Settle
<1>7. StepFits'
  BY DEF ImportInv, StepFits, ReadFails, Settle, Parsing, NoBatch
<1> QED  BY <1>1, <1>2, <1>6, <1>7 DEF ImportInv

\* The parser has handed over all it will.
LEMMA CompleteKeeps ==
  ASSUME ImportInv, Parsing, Complete, canceled \/ chunk = Len(file),
         UNCHANGED <<file, hasHeader, canceled, todo, table, inserted, unheard>>
  PROVE  ImportInv'
<1>1. batch = NoBatch /\ todo = <<>> /\ phase = "running" /\ Sent = <<>>
      /\ <<>> \in Seq(Nat) /\ Len(<<>>) = 0 /\ \A k : Follows(<<>>, k)
  BY DEF Parsing, Sent, NoBatch, Follows
<1> DEFINE n == Header + Len(table)
<1>2. /\ n \in Nat /\ buffer \in Seq(Nat) /\ Len(buffer) \in Nat /\ Follows(buffer, n)
      /\ Len(table) \in Nat /\ Len(table) + Len(buffer) <= Len(DataUpTo(chunk))
      /\ ~canceled => Len(table) + Len(buffer) = Len(DataUpTo(chunk))
  <2>1. InOrder(n, <<>>, buffer, <<>>) /\ n \in Nat /\ buffer \in Seq(Nat)
    BY <1>1, ImportFacts DEF Queue
  <2>2. Follows(buffer, n)
    BY <1>1, <2>1 DEF InOrder
  <2>3. Len(table) \in Nat /\ Len(buffer) \in Nat
    BY ImportFacts
  <2>4. Taken = Len(table) + Len(buffer)
    BY <1>1, <2>3 DEF Taken
  <2> QED  BY <1>1, <2>1, <2>2, <2>3, <2>4, ImportFacts
<1>3. Header' = Header /\ n' = n /\ Data' = Data /\ DataUpTo(chunk)' = Data
  BY DEF Header, Data, DataUpTo, RowsUpTo, Complete
<1>4. /\ Len(table) + Len(buffer) <= Len(Data)
      /\ ~canceled => Len(table) + Len(buffer) = Len(Data)
  <2>1. chunk \in 0..Len(file) /\ Len(file) \in 0..Len(file) /\ chunk <= Len(file)
    BY ImportFacts
  <2>2. Len(DataUpTo(chunk)) <= Len(Data)
        /\ Len(DataUpTo(chunk)) \in Nat /\ Len(Data) \in Nat
    BY <2>1, ImportFacts, DataGrows, DataFacts DEF Data
  <2> QED  BY <1>2, <2>2 DEF Data
<1>5. CASE buffer = <<>>
  <2>1. UNCHANGED <<buffer, batch>> /\ phase' = "done" /\ step' = "done" /\ chunk' = Len(file)
    BY <1>5 DEF Complete, Settle
  <2>2. ImportTypeOK'
    BY <2>1, ImportFacts DEF ImportInv, ImportTypeOK
  <2>3. CountIsHonest'
    BY <2>1 DEF ImportInv, CountIsHonest
  <2>4. Sent' = <<>>
    BY <1>1, <2>1 DEF Sent
  <2>5. Queue(n', Sent', buffer', todo', 0)
    BY <1>1, <1>2, <1>3, <1>5, <2>1, <2>4 DEF Queue, InOrder
  <2>6. RowsFollow'
    BY <1>1, <1>2, <1>3, <1>4, <1>5, <2>1, <2>5, RowsGoOn, ImportFacts
  <2>7. StepFits'
    BY <1>1, <1>2, <1>3, <1>4, <1>5, <2>1 DEF StepFits, NoBatch
  <2> QED  BY <2>2, <2>3, <2>6, <2>7 DEF ImportInv
<1>6. CASE buffer # <<>>
  <2>1. /\ batch' = [rows |-> buffer, at |-> "server", by |-> "complete"] /\ buffer' = <<>>
        /\ UNCHANGED <<step, phase>> /\ chunk' = Len(file)
    BY <1>6 DEF Complete, Flush
  <2>2. ImportTypeOK'
    <3>1. batch' \in [rows : Seq(Nat), at : {"none", "server", "committed", "refused"},
                      by : {"none", "chunk", "complete"}]
          /\ batch'.at # "none" /\ batch'.by # "none"
      BY <1>2, <2>1
    <3> QED  BY <1>1, <2>1, <3>1, ImportFacts, BatchAssumption DEF ImportInv, ImportTypeOK
  <2>3. CountIsHonest'
    BY <1>1, <2>1 DEF ImportInv, CountIsHonest, NoBatch
  <2>4. Sent' = buffer
    BY <2>1 DEF Sent
  <2>5. Queue(n', Sent', buffer', todo', Len(buffer))
    BY <1>1, <1>2, <1>3, <2>1, <2>4 DEF Queue, InOrder
  <2>6. RowsFollow'
    BY <1>1, <1>2, <1>3, <1>4, <2>1, <2>5, RowsGoOn, ImportFacts
  <2>7. StepFits'
    BY <1>1, <2>1 DEF ImportInv, StepFits, NoBatch
  <2> QED  BY <2>2, <2>3, <2>6, <2>7 DEF ImportInv
<1> QED  BY <1>5, <1>6

\* The parser hands over a chunk.
LEMMA NextChunkKeeps ==
  ASSUME ImportInv, NextChunk, ~canceled
  PROVE  ImportInv'
<1> DEFINE L == Len(DataUpTo(chunk))
           M == Len(DataUpTo(chunk + 1))
           rows == SubSeq(DataUpTo(chunk + 1), L + 1, M)
           n == Header + Len(table)
<1>1. /\ Parsing /\ chunk < Len(file) /\ chunk' = chunk + 1 /\ Fill(rows)
      /\ UNCHANGED <<step, phase, file, hasHeader, canceled, table, inserted, unheard>>
  BY DEF NextChunk
<1>2. batch = NoBatch /\ todo = <<>> /\ phase = "running" /\ Sent = <<>>
      /\ <<>> \in Seq(Nat) /\ Len(<<>>) = 0 /\ \A k : Follows(<<>>, k)
  BY <1>1 DEF Parsing, Sent, NoBatch, Follows
<1>3. /\ n \in Nat /\ Len(table) \in Nat /\ buffer \in Seq(Nat) /\ Len(buffer) \in Nat
      /\ Follows(buffer, n) /\ Len(table) + Len(buffer) = L
  <2>1. InOrder(n, <<>>, buffer, <<>>) /\ n \in Nat /\ buffer \in Seq(Nat)
        /\ Len(table) \in Nat /\ Len(buffer) \in Nat
    BY <1>2, ImportFacts DEF Queue
  <2>2. Follows(buffer, n)
    BY <1>2, <2>1 DEF InOrder
  <2>3. Taken = Len(table) + Len(buffer)
    BY <1>2, <2>1 DEF Taken
  <2> QED  BY <1>2, <2>1, <2>2, <2>3, ImportFacts
<1>4. chunk \in 0..Len(file) /\ chunk + 1 \in 0..Len(file) /\ chunk <= chunk + 1
  <2>1. chunk \in 0..Len(file) /\ Len(file) \in Nat
    BY ImportFacts
  <2> QED  BY <1>1, <2>1
<1>5. L \in Nat /\ M \in Nat /\ L <= M
      /\ DataUpTo(chunk + 1) \in Seq(Nat) /\ Follows(DataUpTo(chunk + 1), Header)
  BY <1>4, ImportFacts, DataFacts, DataGrows
<1> HIDE DEF L, M
<1>6. rows \in Seq(Nat) /\ Len(rows) = M - L /\ Follows(rows, n + Len(buffer))
  <2>1. Header \in Nat
    BY HeaderNat
  <2>2. M <= Len(DataUpTo(chunk + 1))
    BY <1>5 DEF M
  <2>3. rows \in Seq(Nat) /\ Len(rows) = M - L /\ Follows(rows, Header + L)
    BY <1>5, <2>1, <2>2, FollowsPart
  <2>4. Header + L = n + Len(buffer)
    BY <1>3, <2>1
  <2> QED  BY <2>3, <2>4
<1> HIDE DEF rows
<1>7. Queue(n, <<>>, buffer, rows, M - Len(table)) /\ M - Len(table) \in Nat
  <2>1. Len(<<>>) + Len(buffer) + Len(rows) = M - Len(table) /\ M - Len(table) \in Nat
    <3>1. Len(<<>>) = 0
      OBVIOUS
    <3>2. Len(buffer) \in Nat /\ Len(table) \in Nat /\ Len(rows) = M - L
          /\ L = Len(table) + Len(buffer)
      BY <1>2, <1>3, <1>6
    <3>3. QED
      BY <1>5, <3>1, <3>2
  <2>2. n + Len(<<>>) = n /\ n + Len(<<>>) + Len(buffer) = n + Len(buffer)
    BY <1>2, <1>3
  <2> QED  BY <1>2, <1>3, <1>6, <2>1, <2>2 DEF Queue, InOrder
<1>8. Header' = Header /\ n' = n /\ Data' = Data /\ DataUpTo(chunk)' = DataUpTo(chunk + 1)
  BY <1>1 DEF Header, Data, DataUpTo, RowsUpTo
<1>9. Len(table') + (M - Len(table)) = Len(DataUpTo(chunk)')
  BY <1>1, <1>3, <1>5, <1>8 DEF M
<1>10. Len(buffer') < BatchSize
       /\ (\/ batch' = batch /\ Queue(n, <<>>, buffer', todo', M - Len(table))
           \/ /\ batch' = [rows |-> batch'.rows, at |-> "server", by |-> "chunk"]
              /\ buffer' = <<>> /\ Queue(n, batch'.rows, <<>>, todo', M - Len(table)))
  BY <1>1, <1>3, <1>7, FillKeepsQueue, ImportFacts
<1>11. /\ table' \in Seq(Nat) /\ Follows(table', Header') /\ M - Len(table) \in Nat
       /\ Len(table') + (M - Len(table)) <= Len(DataUpTo(chunk)')
       /\ Len(table') + (M - Len(table)) = Len(DataUpTo(chunk)')
  <2>1. Len(DataUpTo(chunk)') \in Nat
    BY <1>5, <1>8 DEF M
  <2>2. table' \in Seq(Nat) /\ Follows(table', Header')
    BY <1>1, <1>8, ImportFacts
  <2>3. Len(table') + (M - Len(table)) <= Len(DataUpTo(chunk)')
    BY <1>9, <2>1
  <2> QED  BY <1>7, <1>9, <2>2, <2>3
<1>12. CASE batch' = batch /\ Queue(n, <<>>, buffer', todo', M - Len(table))
  <2>1. ImportTypeOK'
    BY <1>1, <1>4, <1>10, <1>12 DEF ImportInv, ImportTypeOK, Queue
  <2>2. CountIsHonest'
    BY <1>1, <1>12 DEF ImportInv, CountIsHonest
  <2>3. Sent' = <<>>
    BY <1>2, <1>12 DEF Sent, NoBatch
  <2>4. RowsFollow'
    <3>1. Queue(n', Sent', buffer', todo', M - Len(table))
      BY <1>8, <1>12, <2>3
    <3> QED  BY <1>11, <3>1, RowsGoOn
  <2>5. StepFits'
    BY <1>1, <1>2, <1>12 DEF ImportInv, StepFits, NoBatch
  <2> QED  BY <2>1, <2>2, <2>4, <2>5 DEF ImportInv
<1>13. CASE /\ batch' = [rows |-> batch'.rows, at |-> "server", by |-> "chunk"]
            /\ buffer' = <<>> /\ Queue(n, batch'.rows, <<>>, todo', M - Len(table))
  <2>0. PICK sent \in Seq(Nat) : batch' = [rows |-> sent, at |-> "server", by |-> "chunk"]
    BY <1>13 DEF Queue
  <2>1. ImportTypeOK'
    <3>1. batch' \in [rows : Seq(Nat), at : {"none", "server", "committed", "refused"},
                      by : {"none", "chunk", "complete"}]
          /\ batch'.at # "none" /\ batch'.by # "none"
      BY <2>0
    <3>2. todo' \in Seq(Nat) /\ buffer' \in Seq(Nat)
      BY <1>2, <1>13 DEF Queue
    <3> QED  BY <1>1, <1>4, <1>10, <3>1, <3>2 DEF ImportInv, ImportTypeOK
  <2>2. CountIsHonest'
    BY <1>1, <1>2, <2>0 DEF ImportInv, CountIsHonest, NoBatch
  <2>3. Sent' = batch'.rows
    BY <2>0 DEF Sent
  <2>4. RowsFollow'
    <3>1. Queue(n', Sent', buffer', todo', M - Len(table))
      BY <1>8, <1>13, <2>3
    <3> QED  BY <1>11, <3>1, RowsGoOn
  <2>5. StepFits'
    BY <1>1, <1>2, <1>13, <2>0 DEF ImportInv, StepFits, NoBatch
  <2> QED  BY <2>1, <2>2, <2>4, <2>5 DEF ImportInv
<1> QED  BY <1>10, <1>12, <1>13

LEMMA RunBatchKeeps ==
  ASSUME ImportInv, RunBatch
  PROVE  ImportInv'
<1> DEFINE n == Header + Len(table)
           count == Taken - Len(table)
<1>1. /\ batch.at = "server" /\ Sent = batch.rows
      /\ UNCHANGED <<file, hasHeader, step, phase, canceled, chunk, todo, buffer, inserted, unheard>>
  BY DEF RunBatch, Sent
<1>2. Header' = Header /\ Data' = Data /\ DataUpTo(chunk)' = DataUpTo(chunk)
  BY <1>1 DEF Header, Data, DataUpTo, RowsUpTo
<1>3. /\ n \in Nat /\ count \in Nat /\ Len(table) \in Nat /\ Len(batch.rows) \in Nat
      /\ Len(table) + count = Taken
      /\ Queue(n, batch.rows, buffer, todo, count)
  <2>1. Queue(n, batch.rows, buffer, todo, count) /\ n \in Nat /\ Len(table) \in Nat
        /\ Taken \in Nat /\ Len(batch.rows) \in Nat
    BY <1>1, ImportFacts
  <2>2. count \in Nat
    <3>1. Len(batch.rows) + Len(buffer) + Len(todo) = count
      BY <2>1 DEF Queue
    <3>2. Len(buffer) \in Nat /\ Len(todo) \in Nat
      BY ImportFacts
    <3> QED  BY <2>1, <3>1, <3>2
  <2> QED  BY <2>1, <2>2
<1>4. batch' = [batch EXCEPT !.at = batch'.at] /\ batch'.at \in {"committed", "refused"}
      /\ batch'.rows = batch.rows /\ batch'.by = batch.by
      /\ batch' \in [rows : Seq(Nat), at : {"none", "server", "committed", "refused"},
                      by : {"none", "chunk", "complete"}]
  BY DEF RunBatch, ImportInv, ImportTypeOK
<1>5. batch # NoBatch /\ batch' # NoBatch /\ batch.by # "none"
  BY <1>1, <1>4 DEF NoBatch, ImportInv, ImportTypeOK
<1>6. StepFits' \/ table' # table
  BY <1>1, <1>2, <1>4, <1>5 DEF ImportInv, StepFits
<1>7. CASE batch'.at = "committed" /\ table' = table \o batch.rows
  <2>1. table' \in Seq(Nat) /\ Len(table') = Len(table) + Len(batch.rows) /\ Follows(table', Header)
    <3>1. Follows(batch.rows, Header + Len(table))
      BY <1>3 DEF Queue, InOrder
    <3>2. Header \in Nat
      BY HeaderNat
    <3> QED  BY <1>7, <3>1, <3>2, FollowsConcat, ImportFacts
  <2>2. ImportTypeOK'
    BY <1>1, <1>4, <1>5, <2>1 DEF ImportInv, ImportTypeOK
  <2>3. CountIsHonest'
    <3>1. inserted \in Nat /\ unheard \in Nat
      BY ImportFacts
    <3>2. Len(table) - inserted = unheard + 0
      BY <1>1 DEF ImportInv, CountIsHonest
    <3>3. Len(table') - inserted' = unheard' + Len(batch'.rows)
      <4>1. Len(batch'.rows) = Len(batch.rows) /\ inserted' = inserted /\ unheard' = unheard
        BY <1>1, <1>4
      <4>2. Len(table) \in Nat /\ Len(batch.rows) \in Nat /\ Len(table') = Len(table) + Len(batch.rows)
        BY <1>3, <2>1
      <4> QED  BY <3>1, <3>2, <4>1, <4>2
    <3> QED  BY <1>7, <3>3 DEF CountIsHonest
  <2>4. Sent' = <<>> /\ Len(<<>>) = 0 /\ <<>> \in Seq(Nat) /\ \A k : Follows(<<>>, k)
    BY <1>7 DEF Sent, Follows
  <2>5. Queue(n', Sent', buffer', todo', count - Len(batch.rows))
        /\ count - Len(batch.rows) \in Nat
    <3>1. /\ n' = n + Len(batch.rows)
          /\ n' + Len(<<>>) = n + Len(batch.rows)
          /\ n' + Len(<<>>) + Len(buffer) = n + Len(batch.rows) + Len(buffer)
      <4>1. Len(buffer) \in Nat
        BY ImportFacts
      <4>2. Header \in Nat
        BY HeaderNat
      <4>3. n' = n + Len(batch.rows)
        <5> DEFINE a == Len(table)
                   b == Len(batch.rows)
        <5>1. n' = Header + (a + b) /\ n = Header + a /\ a \in Nat /\ b \in Nat
          BY <1>2, <1>3, <2>1
        <5> HIDE DEF a, b, n
        <5>2. n' = n + b
          BY <4>2, <5>1
        <5> QED  BY <5>2 DEF b
      <4> QED  BY <1>3, <2>4, <4>1, <4>3
    <3>2. /\ Len(batch.rows) + Len(buffer) + Len(todo) = count
          /\ buffer \in Seq(Nat) /\ todo \in Seq(Nat) /\ Len(buffer) \in Nat /\ Len(todo) \in Nat
          /\ Follows(buffer, n + Len(batch.rows))
          /\ Follows(todo, n + Len(batch.rows) + Len(buffer))
      BY <1>3 DEF Queue, InOrder
    <3>3. Len(<<>>) + Len(buffer) + Len(todo) = count - Len(batch.rows)
          /\ count - Len(batch.rows) \in Nat
      <4> DEFINE a == Len(batch.rows)
                 b == Len(buffer)
                 c == Len(todo)
      <4>1. a \in Nat /\ b \in Nat /\ c \in Nat /\ a + b + c = count
        BY <1>3, <3>2
      <4>2. Len(<<>>) = 0
        BY <2>4
      <4> HIDE DEF a, b, c, count
      <4>3. 0 + b + c = count - a /\ count - a \in Nat
        BY <4>1
      <4> QED  BY <4>2, <4>3 DEF a, b, c
    <3> QED  BY <1>1, <2>4, <3>1, <3>2, <3>3 DEF Queue, InOrder
  <2>6. Len(table') + (count - Len(batch.rows)) = Taken
    BY <1>3, <2>1
  <2>7. RowsFollow'
    <3>1. table' \in Seq(Nat) /\ Follows(table', Header')
      BY <1>2, <2>1
    <3>2. /\ Taken <= Len(DataUpTo(chunk)')
          /\ phase' \in {"idle", "running"} /\ ~canceled' => Taken = Len(DataUpTo(chunk)')
      BY <1>1, <1>2, ImportFacts
    <3> QED  BY <2>5, <2>6, <3>1, <3>2, RowsGoOn
  <2>8. StepFits'
    BY <1>1, <1>2, <1>4, <1>5 DEF ImportInv, StepFits
  <2> QED  BY <2>2, <2>3, <2>7, <2>8 DEF ImportInv
<1>8. CASE batch'.at = "refused" /\ table' = table
  <2>1. ImportTypeOK'
    BY <1>1, <1>4, <1>5, <1>8 DEF ImportInv, ImportTypeOK
  <2>2. CountIsHonest'
    BY <1>1, <1>8 DEF ImportInv, CountIsHonest
  <2>3. Sent' = batch.rows
    BY <1>4, <1>8 DEF Sent
  <2>4. RowsFollow'
    <3>1. Queue(n', Sent', buffer', todo', count)
      BY <1>1, <1>2, <1>3, <1>8, <2>3
    <3>2. table' \in Seq(Nat) /\ Follows(table', Header') /\ Len(table') + count = Taken
      BY <1>2, <1>3, <1>8, ImportFacts
    <3>3. /\ Taken <= Len(DataUpTo(chunk)')
          /\ phase' \in {"idle", "running"} /\ ~canceled' => Taken = Len(DataUpTo(chunk)')
      BY <1>1, <1>2, ImportFacts
    <3> QED  BY <1>3, <3>1, <3>2, <3>3, RowsGoOn
  <2> QED  BY <1>6, <1>8, <2>1, <2>2, <2>4 DEF ImportInv
<1>9. \/ batch'.at = "committed" /\ table' = table \o batch.rows
      \/ batch'.at = "refused" /\ table' = table
  BY DEF RunBatch, ImportInv, ImportTypeOK
<1> QED  BY <1>7, <1>8, <1>9

\* A committed batch is not counted twice, nor left out.
LEMMA CountGoesOn ==
  ASSUME ImportInv, batch.at = "committed", table' = table, batch'.at \in {"none", "server"},
         \/ inserted' = inserted + Len(batch.rows) /\ unheard' = unheard
         \/ inserted' = inserted /\ unheard' = unheard + Len(batch.rows)
  PROVE  CountIsHonest' /\ inserted' \in Nat /\ unheard' \in Nat
<1> DEFINE t == Len(table)
           b == Len(batch.rows)
<1>1. t \in Nat /\ b \in Nat /\ inserted \in Nat /\ unheard \in Nat
  BY ImportFacts
<1>2. t - inserted = unheard + b /\ Len(table') = t
  BY DEF ImportInv, CountIsHonest
<1>3. \/ inserted' = inserted + b /\ unheard' = unheard
      \/ inserted' = inserted /\ unheard' = unheard + b
  OBVIOUS
<1> HIDE DEF t, b
<1>4. t - inserted' = unheard' + 0 /\ inserted' \in Nat /\ unheard' \in Nat
  BY <1>1, <1>2, <1>3
<1> QED  BY <1>2, <1>4 DEF CountIsHonest

\* With a batch on its way the buffer is empty and the hook is running.
LEMMA InFlight ==
  ASSUME ImportInv, batch.at \in {"committed", "refused"}
  PROVE  /\ phase = "running" /\ buffer = <<>>
         /\ batch.by = "complete" => todo = <<>> /\ chunk = Len(file)
         /\ Len(<<>>) = 0 /\ <<>> \in Seq(Nat) /\ \A k : Follows(<<>>, k)
<1>1. batch # NoBatch
  BY DEF NoBatch
<1> QED  BY <1>1 DEF ImportInv, StepFits, Follows

LEMMA BatchInsertedKeeps ==
  ASSUME ImportInv, BatchInserted
  PROVE  ImportInv'
<1> DEFINE n == Header + Len(table)
           count == Len(todo)
<1>1. /\ batch.at = "committed" /\ inserted' = inserted + Len(batch.rows)
      /\ UNCHANGED <<file, hasHeader, canceled, chunk, table, unheard>>
  BY DEF BatchInserted
<1>2. /\ phase = "running" /\ buffer = <<>>
      /\ batch.by = "complete" => todo = <<>> /\ chunk = Len(file)
      /\ Len(<<>>) = 0 /\ <<>> \in Seq(Nat) /\ \A k : Follows(<<>>, k)
  BY <1>1, InFlight
<1>3. Header' = Header /\ n' = n /\ Data' = Data /\ DataUpTo(chunk)' = DataUpTo(chunk)
  BY <1>1 DEF Header, Data, DataUpTo, RowsUpTo
<1>4. /\ n \in Nat /\ Len(table) \in Nat /\ count \in Nat /\ todo \in Seq(Nat) /\ Follows(todo, n)
      /\ Taken = Len(table) + count
  <2>1. Sent = <<>>
    BY <1>1 DEF Sent
  <2>2. Queue(n, <<>>, <<>>, todo, Taken - Len(table)) /\ n \in Nat /\ Len(table) \in Nat
        /\ todo \in Seq(Nat) /\ Len(todo) \in Nat
    BY <1>2, <2>1, ImportFacts
  <2>3. Follows(todo, n + Len(<<>>) + Len(<<>>))
    BY <2>2 DEF Queue, InOrder
  <2>4. Taken = Len(table) + (0 + 0 + Len(todo))
    BY <1>2, <2>1 DEF Taken
  <2> QED  BY <1>2, <2>2, <2>3, <2>4
<1>5. /\ table' \in Seq(Nat) /\ Follows(table', Header')
      /\ Len(table') + count <= Len(DataUpTo(chunk)')
      /\ ~canceled => Len(table') + count = Len(DataUpTo(chunk)')
  BY <1>1, <1>2, <1>3, <1>4, ImportFacts
<1>6. /\ batch'.at \in {"none", "server"} => CountIsHonest' /\ inserted' \in Nat
  BY <1>1, CountGoesOn
<1>7. CASE batch.by = "chunk" /\ Len(todo) >= BatchSize
  <2> DEFINE first == SubSeq(todo, 1, BatchSize)
             rest == SubSeq(todo, BatchSize + 1, Len(todo))
  <2>1. /\ batch' = [rows |-> first, at |-> "server", by |-> "chunk"] /\ buffer' = <<>>
        /\ todo' = rest /\ UNCHANGED <<step, phase>>
    BY <1>7 DEF BatchInserted, Flush
  <2>2. first \in Seq(Nat) /\ Len(first) = BatchSize /\ Follows(first, n)
    <3>1. /\ SubSeq(todo, 0 + 1, BatchSize) \in Seq(Nat)
          /\ Len(SubSeq(todo, 0 + 1, BatchSize)) = BatchSize - 0
          /\ Follows(SubSeq(todo, 0 + 1, BatchSize), n + 0)
      <4>1. BatchSize \in Nat /\ 0 <= BatchSize /\ BatchSize <= Len(todo)
        BY <1>7, BatchAssumption
      <4> QED  BY <1>4, <4>1, FollowsPart
    <3>2. 0 + 1 = 1 /\ BatchSize - 0 = BatchSize /\ n + 0 = n
      BY <1>4, BatchAssumption
    <3> QED  BY <3>1, <3>2
  <2>3. rest \in Seq(Nat) /\ Len(rest) = Len(todo) - BatchSize /\ Follows(rest, n + BatchSize)
    <3>1. BatchSize \in Nat /\ BatchSize <= Len(todo) /\ Len(todo) <= Len(todo)
      BY <1>4, <1>7, BatchAssumption
    <3> QED  BY <1>4, <3>1, FollowsPart
  <2> HIDE DEF first, rest
  <2>4. ImportTypeOK'
    <3>1. batch' \in [rows : Seq(Nat), at : {"none", "server", "committed", "refused"},
                      by : {"none", "chunk", "complete"}]
          /\ batch'.at # "none" /\ batch'.by # "none" /\ batch'.at = "server"
      BY <2>1, <2>2
    <3>2. Len(buffer') < BatchSize /\ buffer' \in Seq(Nat) /\ todo' \in Seq(Nat)
      BY <1>2, <2>1, <2>3, BatchAssumption
    <3> QED  BY <1>1, <1>6, <2>1, <3>1, <3>2 DEF ImportInv, ImportTypeOK
  <2>5. CountIsHonest'
    BY <1>6, <2>1
  <2>6. Queue(n', Sent', buffer', todo', count)
    <3>1. Sent' = first
      BY <2>1 DEF Sent
    <3>2. n + Len(first) = n + BatchSize /\ n + Len(first) + Len(<<>>) = n + BatchSize
      BY <1>2, <1>4, <2>2, BatchAssumption
    <3>3. Len(first) + Len(<<>>) + Len(rest) = count
      BY <1>2, <1>4, <2>2, <2>3, BatchAssumption
    <3> QED  BY <1>2, <1>3, <2>1, <2>2, <2>3, <3>1, <3>2, <3>3 DEF Queue, InOrder
  <2>7. RowsFollow'
    BY <1>1, <1>4, <1>5, <2>6, RowsGoOn
  <2>8. StepFits'
    BY <1>1, <1>2, <2>1 DEF ImportInv, StepFits, NoBatch
  <2> QED  BY <2>4, <2>5, <2>7, <2>8 DEF ImportInv
<1>8. CASE batch.by = "chunk" /\ ~(Len(todo) >= BatchSize)
  <2>1. batch' = NoBatch /\ buffer' = todo /\ todo' = <<>> /\ UNCHANGED <<step, phase>>
    BY <1>8 DEF BatchInserted
  <2>2. batch'.at = "none" /\ Sent' = <<>>
        /\ batch' \in [rows : Seq(Nat), at : {"none", "server", "committed", "refused"},
                       by : {"none", "chunk", "complete"}]
    BY <1>2, <2>1 DEF NoBatch, Sent
  <2>3. ImportTypeOK'
    <3>1. Len(buffer') < BatchSize
      BY <1>4, <1>8, <2>1, BatchAssumption
    <3> QED  BY <1>1, <1>2, <1>4, <1>6, <2>1, <2>2, <3>1 DEF ImportInv, ImportTypeOK
  <2>4. Queue(n', Sent', buffer', todo', count)
    <3>1. n + Len(<<>>) = n /\ Len(<<>>) + Len(todo) + Len(<<>>) = count
      BY <1>2, <1>4
    <3> QED  BY <1>2, <1>3, <1>4, <2>1, <2>2, <3>1 DEF Queue, InOrder
  <2>5. RowsFollow'
    BY <1>1, <1>4, <1>5, <2>4, RowsGoOn
  <2>6. StepFits'
    BY <1>1, <1>2, <2>1 DEF ImportInv, StepFits, NoBatch
  <2> QED  BY <1>6, <2>2, <2>3, <2>5, <2>6 DEF ImportInv
<1>9. CASE batch.by = "complete"
  <2>1. /\ batch' = NoBatch /\ buffer' = <<>> /\ todo' = <<>> /\ todo = <<>>
        /\ chunk = Len(file) /\ step' = "done" /\ phase' = "done"
    BY <1>2, <1>9 DEF BatchInserted, Settle
  <2>2. batch'.at = "none" /\ Sent' = <<>>
        /\ batch' \in [rows : Seq(Nat), at : {"none", "server", "committed", "refused"},
                       by : {"none", "chunk", "complete"}]
    BY <1>2, <2>1 DEF NoBatch, Sent
  <2>3. ImportTypeOK'
    <3>1. Len(buffer') < BatchSize
      BY <1>2, <2>1, BatchAssumption
    <3> QED  BY <1>1, <1>2, <1>6, <2>1, <2>2, <3>1 DEF ImportInv, ImportTypeOK
  <2>4. Queue(n', Sent', buffer', todo', count)
    <3>1. n + Len(<<>>) = n /\ Len(<<>>) + Len(<<>>) + Len(<<>>) = count
      BY <1>2, <1>4, <2>1
    <3> QED  BY <1>2, <1>3, <2>1, <2>2, <3>1 DEF Queue, InOrder
  <2>5. RowsFollow'
    BY <1>1, <1>4, <1>5, <2>1, <2>4, RowsGoOn
  <2>6. ~canceled => Len(table') = Len(Data')
    <3>1. DataUpTo(chunk)' = Data'
      BY <1>1, <2>1 DEF Data
    <3> QED  BY <1>1, <1>2, <1>4, <1>5, <2>1, <3>1
  <2>7. StepFits'
    BY <1>1, <2>1, <2>6 DEF StepFits, NoBatch
  <2> QED  BY <1>6, <2>2, <2>3, <2>5, <2>7 DEF ImportInv
<1> QED  BY <1>7, <1>8, <1>9 DEF BatchInserted

LEMMA BatchFailedKeeps ==
  ASSUME ImportInv, BatchFailed
  PROVE  ImportInv'
<1> DEFINE n == Header + Len(table)
<1>1. /\ batch.at \in {"committed", "refused"} /\ batch' = NoBatch /\ todo' = <<>>
      /\ chunk' = Len(file) /\ phase' = "error" /\ step' = step
      /\ unheard' = unheard + (IF batch.at = "committed" THEN Len(batch.rows) ELSE 0)
      /\ UNCHANGED <<file, hasHeader, canceled, buffer, table, inserted>>
  BY DEF BatchFailed, Settle
<1>2. /\ phase = "running" /\ buffer = <<>>
      /\ Len(<<>>) = 0 /\ <<>> \in Seq(Nat) /\ \A k : Follows(<<>>, k)
  BY <1>1, InFlight
<1>3. Header' = Header /\ n' = n /\ Data' = Data /\ DataUpTo(chunk)' = Data
  BY <1>1 DEF Header, Data, DataUpTo, RowsUpTo
<1>4. batch'.at = "none" /\ Sent' = <<>>
      /\ batch' \in [rows : Seq(Nat), at : {"none", "server", "committed", "refused"},
                     by : {"none", "chunk", "complete"}]
  BY <1>1, <1>2 DEF NoBatch, Sent
<1>5. CountIsHonest' /\ unheard' \in Nat
  <2>1. CASE batch.at = "committed"
    BY <1>1, <1>4, <2>1, CountGoesOn
  <2>2. CASE batch.at = "refused"
    <3>1. unheard \in Nat
      BY ImportFacts
    <3>2. unheard' = unheard
      BY <1>1, <2>2, <3>1
    <3>3. Len(table) - inserted = unheard + 0
      BY <2>2 DEF ImportInv, CountIsHonest
    <3> QED  BY <1>1, <1>4, <3>1, <3>2, <3>3 DEF CountIsHonest
  <2> QED  BY <1>1, <2>1, <2>2
<1>6. ImportTypeOK'
  <2>1. chunk' \in 0..Len(file')
    BY <1>1, ImportFacts
  <2> QED  BY <1>1, <1>2, <1>4, <1>5, <2>1 DEF ImportInv, ImportTypeOK
<1>7. Len(table) <= Len(Data) /\ n \in Nat /\ Len(table) \in Nat
  <2>1. chunk \in 0..Len(file) /\ Len(file) \in 0..Len(file) /\ chunk <= Len(file)
    BY ImportFacts
  <2>2. Len(DataUpTo(chunk)) <= Len(Data)
        /\ Len(DataUpTo(chunk)) \in Nat /\ Len(Data) \in Nat
    BY <2>1, ImportFacts, DataGrows, DataFacts DEF Data
  <2>3. Len(table) <= Taken /\ n \in Nat /\ Len(table) \in Nat
        /\ Taken \in Nat /\ Taken <= Len(DataUpTo(chunk))
    <3> DEFINE a == Len(table)
               b == Len(Sent)
               c == Len(buffer)
               d == Len(todo)
    <3>1. a \in Nat /\ c \in Nat /\ d \in Nat /\ n \in Nat
          /\ Taken \in Nat /\ Taken <= Len(DataUpTo(chunk))
      BY ImportFacts
    <3>2. b \in Nat
      BY ImportFacts DEF Queue
    <3>3. Taken = a + (b + c + d)
      BY DEF Taken
    <3> HIDE DEF a, b, c, d
    <3>4. a <= Taken
      BY <3>1, <3>2, <3>3
    <3> QED  BY <3>1, <3>4 DEF a
  <2> QED  BY <2>2, <2>3
<1>8. Queue(n', Sent', buffer', todo', 0)
  <2>1. n + Len(<<>>) = n /\ Len(<<>>) + Len(<<>>) + Len(<<>>) = 0
    BY <1>2, <1>7
  <2> QED  BY <1>1, <1>2, <1>3, <1>4, <2>1 DEF Queue, InOrder
<1>9. RowsFollow'
  <2>1. table' \in Seq(Nat) /\ Follows(table', Header') /\ Len(table') + 0 <= Len(DataUpTo(chunk)')
    BY <1>1, <1>3, <1>7, ImportFacts
  <2> QED  BY <1>1, <1>8, <2>1, RowsGoOn
<1>10. StepFits'
  BY <1>1, <1>2 DEF ImportInv, StepFits, NoBatch
<1> QED  BY <1>5, <1>6, <1>9, <1>10 DEF ImportInv

\* The rows of the file are in the table in its order, and the hook's count is the
\* number of rows it was told of, whatever the chunks, the size of a batch and the
\* fate of each request.
THEOREM ImportInvariant == ImportSpec => []ImportInv
<1>1. ImportInv /\ [ImportNext]_importVars => ImportInv'
  <2> SUFFICES ASSUME ImportInv, [ImportNext]_importVars PROVE ImportInv'
    OBVIOUS
  <2>1. CASE Import \/ Cancel \/ Close \/ UNCHANGED importVars
    BY <2>1, SettledSteps
  <2>2. CASE NextChunk
    <3>1. CASE ~canceled
      BY <2>2, <3>1, NextChunkKeeps
    <3>2. CASE canceled
      BY <2>2, <3>2, CompleteKeeps DEF NextChunk
    <3> QED  BY <3>1, <3>2
  <2>3. CASE EndOfFile
    BY <2>3, CompleteKeeps DEF EndOfFile
  <2>4. CASE ReadFails
    BY <2>4, ReadFailsKeeps
  <2>5. CASE RunBatch
    BY <2>5, RunBatchKeeps
  <2>6. CASE BatchInserted
    BY <2>6, BatchInsertedKeeps
  <2>7. CASE BatchFailed
    BY <2>7, BatchFailedKeeps
  <2> QED  BY <2>1, <2>2, <2>3, <2>4, <2>5, <2>6, <2>7 DEF ImportNext
<1> QED  BY <1>1, InitImportInv, PTL DEF ImportSpec

\* Rows that follow the header, no more than the file has, are the file's first rows.
LEMMA FollowingRowsArePrefix ==
  ASSUME ImportInv
  PROVE  TableIsAPrefix
<1>1. /\ table \in Seq(Nat) /\ Follows(table, Header) /\ Len(table) \in Nat
      /\ Data \in Seq(Nat) /\ Follows(Data, Header) /\ Len(Data) \in Nat
  <2>1. file \in Files /\ Len(file) \in 0..Len(file)
    BY ImportFacts
  <2>2. Data \in Seq(Nat) /\ Follows(Data, Header) /\ Len(Data) \in Nat
    BY <2>1, DataFacts DEF Data
  <2> QED  BY <2>2, ImportFacts
<1>2. Len(table) <= Len(Data)
  <2>1. chunk \in 0..Len(file) /\ Len(file) \in 0..Len(file) /\ chunk <= Len(file)
    BY ImportFacts
  <2>2. Len(DataUpTo(chunk)) <= Len(Data) /\ Len(DataUpTo(chunk)) \in Nat
    BY <2>1, ImportFacts, DataGrows, DataFacts DEF Data
  <2> DEFINE a == Len(table)
             b == Len(Sent)
             c == Len(buffer)
             d == Len(todo)
             u == Len(DataUpTo(chunk))
             l == Len(Data)
  <2>3. a \in Nat /\ c \in Nat /\ d \in Nat /\ Taken <= u /\ u <= l /\ u \in Nat /\ l \in Nat
    BY <1>1, <2>2, ImportFacts
  <2>4. b \in Nat
    BY ImportFacts DEF Queue
  <2>5. Taken = a + (b + c + d)
    BY DEF Taken
  <2> HIDE DEF a, b, c, d, u, l
  <2>6. a <= l
    BY <2>3, <2>4, <2>5
  <2> QED  BY <2>6 DEF a, l
<1>3. \A i \in 1..Len(table) : table[i] = Data[i]
  BY <1>1, <1>2 DEF Follows
<1>4. IsPrefix(table, Data)
  BY <1>1, <1>2, <1>3 DEF IsPrefix
<1>5. Len(table) = Len(Data) => table = Data
  BY <1>1, <1>3, SeqEqual
<1>6. phase = "done" /\ ~canceled => Len(table) = Len(Data)
  BY DEF ImportInv, StepFits
<1> QED  BY <1>4, <1>5, <1>6 DEF TableIsAPrefix

\* The table holds a prefix of the file, all of it when the import ends well uncanceled,
\* and the count on the screen is off by the unanswered batches only.
THEOREM ImportsAreHonest == ImportSpec => []ImportIsHonest
<1>1. ImportInv => ImportIsHonest
  BY FollowingRowsArePrefix DEF ImportInv, ImportIsHonest
<1> QED  BY <1>1, ImportInvariant, PTL

-----------------------------------------------------------------------------
(* The grid's data source: helpers and types. *)

LEMMA SmallerFacts ==
  ASSUME NEW m \in Int, NEW n \in Int
  PROVE  /\ Smaller(m, n) \in {m, n} /\ Smaller(m, n) <= m /\ Smaller(m, n) <= n
         /\ Smaller(m, n) \in Int
         /\ m \in Nat /\ n \in Nat => Smaller(m, n) \in Nat
BY DEF Smaller

LEMMA RequestType ==
  ASSUME DatasourceTypeOK, request # Idle
  PROVE  /\ request \in GridCalls
         /\ request.kind \in {"open", "fetch", "page"} /\ request.start \in Nat
         /\ request.order \in 0..MaxSorts /\ request.id \in 0..MaxOpens
<1>1. request \in GridCalls
  BY DEF DatasourceTypeOK
<1> QED  BY <1>1 DEF GridCalls

LEMMA KindsOfRequests ==
  ASSUME request.kind \in {"open", "fetch", "page"}
  PROVE  request # Idle
BY DEF Idle

LEMMA AnswerType ==
  ASSUME DatasourceTypeOK, answer.status = "rows"
  PROVE  /\ answer.from \in Nat /\ answer.n \in Nat /\ answer.order \in 0..MaxSorts
         /\ answer.complete \in BOOLEAN /\ answer.truncated \in BOOLEAN
<1>1. answer \notin {None, Gone, Failed}
  BY DEF None, Gone, Failed
<1>2. answer \in [status : {"rows"}, from : Nat, n : Nat, order : 0..MaxSorts,
                  complete : BOOLEAN, truncated : BOOLEAN]
  BY <1>1 DEF DatasourceTypeOK, Answers
<1> QED  BY <1>2

LEMMA StatusesDiffer ==
  /\ None.status = "none" /\ Gone.status = "gone" /\ Failed.status = "failed"
  /\ None # Gone /\ None # Failed /\ Gone # Failed
BY DEF None, Gone, Failed

-----------------------------------------------------------------------------
(* What the server answers. *)

LEMMA NextBlockFacts ==
  ASSUME ServerInv, NEW s \in Sessions, sessionPhase[s] = "streaming"
  PROVE  LET r  == NextBlock(s)
             to == r.from + r.n
         IN  /\ r \in Answers /\ r.status = "rows" /\ r # Gone
             /\ r.from = served[s] /\ r.order = sorted[s] /\ r.n \in Nat /\ r.n <= BlockSize
             /\ to <= length /\ to <= RowBudget
             /\ r.complete \in BOOLEAN
             /\ ~r.complete => r.n = BlockSize /\ to < RowBudget
             /\ \/ r.n = Smaller(BlockSize, length - r.from)
                \/ r.complete /\ to = RowBudget /\ RowBudget < length
             /\ r.complete => to = length \/ (to = RowBudget /\ r.truncated)
<1> DEFINE r == NextBlock(s)
           size == Smaller(BlockSize, RowBudget - served[s])
           left == length - served[s]
           n == Smaller(size, left)
           complete == left < size
           budget == ~complete /\ served[s] + n >= RowBudget
<1>1. /\ BlockSize \in Nat /\ RowBudget \in Nat /\ served[s] \in Nat /\ length \in Nat
      /\ served[s] <= length /\ served[s] < RowBudget /\ sorted[s] \in 0..MaxSorts
  BY SizesAssumption DEF ServerInv, DatasourceTypeOK, ServedFits
<1>2. r = Rows(served[s], n, sorted[s], complete \/ budget, budget)
  BY DEF NextBlock
<1>3. /\ r.from = served[s] /\ r.n = n /\ r.order = sorted[s] /\ r.status = "rows"
      /\ r.complete = (complete \/ budget) /\ r.truncated = budget
  BY <1>2 DEF Rows
<1>4. /\ size \in Nat /\ left \in Nat /\ n \in Nat /\ n <= size /\ n <= left
      /\ size <= BlockSize /\ size <= RowBudget - served[s]
      /\ (size = BlockSize \/ size = RowBudget - served[s]) /\ (n = size \/ n = left)
  BY <1>1 DEF Smaller
<1>5. r \in Answers /\ r # Gone
  BY <1>1, <1>2, <1>4 DEF Rows, Answers, Gone
<1>6. served[s] + n <= length /\ served[s] + n <= RowBudget
  BY <1>1, <1>4
<1>7. ~complete => n = size
  BY <1>1, <1>4
<1>8. ~complete /\ ~budget => n = BlockSize /\ served[s] + n < RowBudget
  BY <1>1, <1>4, <1>7
<1>9. complete => served[s] + n = length
  BY <1>1, <1>4
<1>10. budget => served[s] + n = RowBudget
  BY <1>1, <1>4, <1>6
<1>11. \/ n = Smaller(BlockSize, left)
       \/ budget /\ served[s] + n = RowBudget /\ RowBudget < length
  BY <1>1, <1>4, <1>7, <1>9 DEF Smaller
<1>12. r.n = Smaller(BlockSize, length - r.from)
       \/ (r.complete /\ r.from + r.n = RowBudget /\ RowBudget < length)
  BY <1>11, <1>3
<1>13. /\ r.complete \in BOOLEAN /\ (r.complete <=> complete \/ budget)
       /\ (budget => r.truncated)
  BY <1>3
<1>14. /\ r.from + r.n = served[s] + n
       /\ ~r.complete => r.n = BlockSize /\ r.from + r.n < RowBudget
       /\ r.complete => r.from + r.n = length \/ (r.from + r.n = RowBudget /\ r.truncated)
  <2> HIDE DEF size, left, n, complete, budget, r
  <2> QED  BY <1>3, <1>8, <1>9, <1>10, <1>13
<1>15. r.n \in Nat /\ r.n <= BlockSize /\ r.from + r.n <= length /\ r.from + r.n <= RowBudget
  <2>1. n <= BlockSize
    BY <1>1, <1>4
  <2> HIDE DEF size, left, n, complete, budget, r
  <2> QED  BY <2>1, <1>3, <1>4, <1>6
<1> HIDE DEF r, size, left, n, complete, budget
<1> QED  BY <1>3, <1>5, <1>12, <1>13, <1>14, <1>15 DEF r

LEMMA FirstBlockFacts ==
  ASSUME ServerInv, NEW call \in GridCalls
  PROVE  LET r == FirstBlock(call)
         IN  /\ r \in Answers /\ r.status = "rows" /\ r # Gone
             /\ r.from = 0 /\ r.order = call.order /\ r.n \in Nat
             /\ r.n <= OpenBlock /\ r.n <= length /\ r.complete \in BOOLEAN
             /\ ~r.complete => r.n = OpenBlock /\ r.n < RowBudget
             /\ r.complete => \/ r.n = length /\ length < OpenBlock
                              \/ r.n = OpenBlock /\ OpenBlock >= RowBudget /\ r.truncated
<1> DEFINE r == FirstBlock(call)
           n == Smaller(OpenBlock, length)
           complete == length < OpenBlock
           budget == ~complete /\ n >= RowBudget
<1>1. /\ OpenBlock \in Nat /\ RowBudget \in Nat /\ length \in Nat /\ call.order \in 0..MaxSorts
  BY SizesAssumption DEF ServerInv, DatasourceTypeOK, GridCalls
<1>2. r = Rows(0, n, call.order, complete \/ budget, budget)
  BY DEF FirstBlock
<1>3. /\ r.from = 0 /\ r.n = n /\ r.order = call.order /\ r.status = "rows"
      /\ r.complete = (complete \/ budget) /\ r.truncated = budget
  BY <1>2 DEF Rows
<1>4. n \in Nat /\ n <= OpenBlock /\ n <= length /\ (complete => n = length)
      /\ (~complete => n = OpenBlock)
  BY <1>1 DEF Smaller
<1>5. r \in Answers /\ r # Gone
  BY <1>1, <1>2, <1>4 DEF Rows, Answers, Gone
<1>6. r.complete \in BOOLEAN /\ (r.complete <=> complete \/ budget) /\ (budget => r.truncated)
  BY <1>3
<1>7. ~complete /\ ~budget => n < RowBudget
  BY <1>1, <1>4
<1>8. /\ ~r.complete => r.n = OpenBlock /\ r.n < RowBudget
      /\ r.complete => \/ r.n = length /\ length < OpenBlock
                       \/ r.n = OpenBlock /\ OpenBlock >= RowBudget /\ r.truncated
  <2> HIDE DEF n, r
  <2> QED  BY <1>3, <1>4, <1>6, <1>7
<1> HIDE DEF r, n
<1> QED  BY <1>1, <1>3, <1>4, <1>5, <1>6, <1>8 DEF r

LEMMA PageFacts ==
  ASSUME ServerInv, NEW call \in GridCalls
  PROVE  LET r == Page(call)
         IN  /\ r \in Answers /\ r.status = "rows" /\ r # Gone
             /\ r.from = call.start /\ r.order = call.order /\ r.n \in Nat
             /\ call.start <= length => r.n = Smaller(BlockSize, length - call.start)
             /\ r.complete = (length <= call.start + BlockSize)
<1> DEFINE r == Page(call)
           n == IF length <= call.start THEN 0 ELSE Smaller(BlockSize, length - call.start)
<1>1. BlockSize \in Nat /\ length \in Nat /\ call.start \in Nat /\ call.order \in 0..MaxSorts
  BY SizesAssumption DEF ServerInv, DatasourceTypeOK, GridCalls
<1>2. r = Rows(call.start, n, call.order, length <= call.start + BlockSize, FALSE)
  BY DEF Page
<1>3. n \in Nat /\ (call.start <= length => n = Smaller(BlockSize, length - call.start))
  BY <1>1 DEF Smaller
<1>4. /\ r.from = call.start /\ r.n = n /\ r.order = call.order /\ r.status = "rows"
      /\ r.complete = (length <= call.start + BlockSize)
  BY <1>2 DEF Rows
<1>5. r \in Answers /\ r # Gone
  BY <1>1, <1>2, <1>3 DEF Rows, Answers, Gone
<1> HIDE DEF r, n
<1> QED  BY <1>3, <1>4, <1>5 DEF r

LEMMA ResponseCases ==
  ASSUME NEW call \in GridCalls
  PROVE  /\ call.kind = "page" => Response(call) = Page(call)
         /\ call.kind = "open" => Response(call) = FirstBlock(call)
         /\ call.kind = "fetch" =>
              Response(call) = IF sessionPhase[call.id] = "streaming" THEN NextBlock(call.id) ELSE Gone
BY DEF Response

\* A call that may reach the server.
Proper(call) ==
  /\ call \in GridCalls
  /\ call.kind # "page" => call.id \in 1..opens
  /\ call.kind = "open" => Unserved(call.id)

\* A call touches its own session only, and keeps it within the result.
LEMMA ExecutesKeeps ==
  ASSUME ServerInv, NEW call, Proper(call), Executes(call), length' = length
  PROVE  /\ Response(call) \in Answers
         /\ sessionPhase' \in [Sessions -> {"unopened", "streaming", "ended"}]
         /\ served' \in [Sessions -> Nat] /\ sorted' \in [Sessions -> 0..MaxSorts]
         /\ ServedFits'
         /\ \A s \in Sessions : call.kind = "page" \/ s # call.id =>
              sessionPhase'[s] = sessionPhase[s] /\ served'[s] = served[s] /\ sorted'[s] = sorted[s]
         /\ \A s \in Sessions : served[s] <= served'[s]
         /\ call.kind = "open" =>
              served'[call.id] = FirstBlock(call).n /\ sorted'[call.id] = call.order
         /\ call.kind = "fetch" =>
              \/ Response(call) = Gone /\ UNCHANGED <<sessionPhase, served, sorted>>
              \/ /\ sessionPhase[call.id] = "streaming" /\ Response(call) = NextBlock(call.id)
                 /\ served'[call.id] = served[call.id] + NextBlock(call.id).n
                 /\ sorted' = sorted
         /\ [\E s \in Sessions : Contract!Begin(s) \/ Contract!Serve(s)]_<<sessionPhase, served>>
<1> DEFINE s == call.id
           r == Response(call)
<1>1. /\ call \in GridCalls /\ call.kind \in {"open", "fetch", "page"}
      /\ sessionPhase \in [Sessions -> {"unopened", "streaming", "ended"}]
      /\ served \in [Sessions -> Nat] /\ sorted \in [Sessions -> 0..MaxSorts] /\ ServedFits
      /\ length \in Nat
  BY DEF Proper, GridCalls, ServerInv, DatasourceTypeOK
<1>2. BlockSize \in Nat /\ OpenBlock \in Nat /\ RowBudget \in Nat
  BY SizesAssumption
<1>3. CASE call.kind = "page"
  <2>1. UNCHANGED <<sessionPhase, served, sorted>>
    BY <1>3 DEF Executes
  <2>2. r \in Answers
    BY <1>1, <1>3, ResponseCases, PageFacts
  <2> HIDE DEF r
  <2> QED  BY <1>1, <1>3, <2>1, <2>2 DEF ServedFits, r
<1>4. ASSUME call.kind # "page" PROVE s \in Sessions
  BY <1>4, SizesAssumption DEF Proper, Sessions, ServerInv, DatasourceTypeOK
<1>5. CASE call.kind = "fetch" /\ sessionPhase[s] # "streaming"
  <2>1. r = Gone
    BY <1>1, <1>5, ResponseCases
  <2>2. UNCHANGED <<sessionPhase, served, sorted>>
    BY <1>5, <2>1 DEF Executes
  <2>3. Gone \in Answers
    BY DEF Answers
  <2> QED  BY <1>1, <1>5, <2>1, <2>2, <2>3 DEF ServedFits
<1>6. ASSUME NEW n \in Nat, NEW ord \in 0..MaxSorts, NEW complete \in BOOLEAN, s \in Sessions,
             sessionPhase' = [sessionPhase EXCEPT ![s] = IF complete THEN "ended" ELSE "streaming"],
             served' = [served EXCEPT ![s] = @ + n], sorted' = [sorted EXCEPT ![s] = ord],
             served[s] + n <= length,
             ~complete => OpenBlock <= served[s] + n /\ served[s] + n < RowBudget
      PROVE  /\ sessionPhase' \in [Sessions -> {"unopened", "streaming", "ended"}]
             /\ served' \in [Sessions -> Nat] /\ sorted' \in [Sessions -> 0..MaxSorts]
             /\ ServedFits'
             /\ \A o \in Sessions : o # s =>
                  sessionPhase'[o] = sessionPhase[o] /\ served'[o] = served[o] /\ sorted'[o] = sorted[o]
             /\ \A o \in Sessions : served[o] <= served'[o]
             /\ served'[s] = served[s] + n /\ sorted'[s] = ord
             /\ sessionPhase'[s] = IF complete THEN "ended" ELSE "streaming"
  <2> HIDE DEF s, r
  <2>1. /\ sessionPhase' \in [Sessions -> {"unopened", "streaming", "ended"}]
        /\ served' \in [Sessions -> Nat] /\ sorted' \in [Sessions -> 0..MaxSorts]
        /\ served'[s] = served[s] + n /\ sorted'[s] = ord /\ served[s] \in Nat
        /\ sessionPhase'[s] = IF complete THEN "ended" ELSE "streaming"
        /\ \A o \in Sessions : o # s =>
             sessionPhase'[o] = sessionPhase[o] /\ served'[o] = served[o] /\ sorted'[o] = sorted[o]
    BY <1>1, <1>6
  <2>2. \A o \in Sessions : served[o] \in Nat
    BY <1>1
  <2>3. \A o \in Sessions : served[o] <= served'[o]
    BY <2>1, <2>2
  <2>4. ServedFits'
    BY <1>1, <1>6, <2>1 DEF ServedFits
  <2> QED  BY <2>1, <2>3, <2>4
<1>7. CASE call.kind = "open"
  <2> DEFINE n == r.n
             complete == r.complete
             ord == r.order
  <2>1. r = FirstBlock(call)
    BY <1>1, <1>7, ResponseCases
  <2>2. /\ r \in Answers /\ r # Gone /\ n \in Nat /\ n <= length /\ n <= OpenBlock
        /\ complete \in BOOLEAN /\ ord = call.order
        /\ (~complete => n = OpenBlock /\ n < RowBudget)
    BY <1>1, <2>1, FirstBlockFacts
  <2>3. s \in Sessions /\ sessionPhase[s] = "unopened" /\ served[s] = 0 /\ ord \in 0..MaxSorts
    BY <1>1, <1>4, <1>7, <2>2 DEF Proper, Unserved, GridCalls
  <2>4. /\ sessionPhase' = [sessionPhase EXCEPT ![s] = IF complete THEN "ended" ELSE "streaming"]
        /\ served' = [served EXCEPT ![s] = @ + n] /\ sorted' = [sorted EXCEPT ![s] = ord]
    BY <1>7, <2>2 DEF Executes
  <2> HIDE DEF r, s, n, complete, ord
  <2>5. served[s] + n <= length /\ (~complete => OpenBlock <= served[s] + n /\ served[s] + n < RowBudget)
    BY <1>2, <2>2, <2>3
  <2>6. served'[s] = n /\ sorted'[s] = ord
    <3>1. served'[s] = served[s] + n /\ sorted'[s] = ord
      BY <1>6, <2>2, <2>3, <2>4, <2>5
    <3> QED  BY <3>1, <2>2, <2>3
  <2>7. Contract!Begin(s)
    <3>1. served' = [served EXCEPT ![s] = n]
      BY <1>1, <2>3, <2>4, <2>2
    <3>2. n \in 0..OpenBlock
      BY <1>2, <2>2
    <3> DEFINE p == IF complete THEN "ended" ELSE "streaming"
    <3>3. p \in {"streaming", "ended"} /\ sessionPhase' = [sessionPhase EXCEPT ![s] = p]
          /\ (p = "streaming" => n < RowBudget)
      BY <2>2, <2>4
    <3> HIDE DEF p
    <3> QED  BY <2>3, <3>1, <3>2, <3>3 DEF Contract!Begin
  <2>8. served'[s] = FirstBlock(call).n /\ sorted'[s] = call.order
    BY <2>1, <2>2, <2>6 DEF n
  <2> QED  BY <1>6, <1>7, <2>2, <2>3, <2>4, <2>5, <2>7, <2>8 DEF r, s
<1>8. CASE call.kind = "fetch" /\ sessionPhase[s] = "streaming"
  <2> DEFINE n == r.n
             complete == r.complete
             ord == r.order
  <2>1. r = NextBlock(s) /\ s \in Sessions
    BY <1>1, <1>4, <1>8, ResponseCases
  <2>2. /\ r \in Answers /\ r # Gone /\ n \in Nat /\ n <= BlockSize /\ r.from = served[s]
        /\ r.from + n <= length /\ complete \in BOOLEAN /\ ord = sorted[s]
        /\ r.from + n <= RowBudget
        /\ (~complete => n = BlockSize /\ r.from + n < RowBudget)
    BY <1>8, <2>1, NextBlockFacts
  <2>3. OpenBlock <= served[s] /\ served[s] < RowBudget /\ served[s] \in Nat /\ ord \in 0..MaxSorts
    BY <1>1, <1>8, <2>1, <2>2 DEF ServedFits
  <2>4. /\ sessionPhase' = [sessionPhase EXCEPT ![s] = IF complete THEN "ended" ELSE "streaming"]
        /\ served' = [served EXCEPT ![s] = @ + n] /\ sorted' = [sorted EXCEPT ![s] = ord]
    BY <1>8, <2>2 DEF Executes
  <2>5. sorted' = sorted
    BY <1>1, <2>1, <2>2, <2>4
  <2> HIDE DEF r, s, n, complete, ord
  <2>6. served[s] + n <= length /\ (~complete => OpenBlock <= served[s] + n /\ served[s] + n < RowBudget)
    BY <1>2, <2>2, <2>3
  <2>7. Contract!Serve(s)
    <3> DEFINE size == Smaller(BlockSize, RowBudget - served[s])
               p == IF complete THEN "ended" ELSE "streaming"
    <3>1. /\ size \in 1..BlockSize /\ served[s] + size <= RowBudget
          /\ n \in 0..size /\ (~complete => n = size)
      BY <1>2, <2>2, <2>3, SizesAssumption DEF Smaller
    <3>2. sessionPhase[s] = "streaming"
      BY <1>8 DEF s
    <3>3. p \in {"streaming", "ended"} /\ sessionPhase' = [sessionPhase EXCEPT ![s] = p]
          /\ (p = "streaming" => n = size /\ served[s] + n < RowBudget)
      BY <2>2, <2>4, <3>1
    <3> HIDE DEF p, size
    <3>4. Contract!Accepts(s, size)
      BY <1>2, <3>1, <3>2 DEF Contract!Accepts
    <3>5. Contract!Serves(s, n, size)
      BY <2>4, <3>2, <3>3 DEF Contract!Serves
    <3> QED  BY <3>1, <3>4, <3>5 DEF Contract!Serve
  <2>8. served'[s] = served[s] + NextBlock(s).n
    BY <1>6, <2>1, <2>2, <2>3, <2>4, <2>6 DEF n
  <2> QED  BY <1>6, <1>8, <2>1, <2>2, <2>3, <2>4, <2>5, <2>6, <2>7, <2>8 DEF r, s
<1> HIDE DEF s, r
<1> QED  BY <1>1, <1>3, <1>5, <1>7, <1>8 DEF s

-----------------------------------------------------------------------------
(* The server's side is inductive on its own. *)

LEMMA Sizes ==
  ASSUME DatasourceTypeOK
  PROVE  /\ BlockSize \in Nat /\ BlockSize > 0 /\ OpenBlock \in Nat /\ OpenBlock > 0
         /\ RowBudget \in Nat /\ MaxOpens \in Nat /\ MaxSorts \in Nat
         /\ opens \in Nat /\ opens <= MaxOpens /\ 1..opens \subseteq Sessions
         /\ Sessions \subseteq Nat \ {0}
<1>1. /\ BlockSize \in Nat /\ BlockSize > 0 /\ OpenBlock \in Nat /\ OpenBlock > 0
      /\ RowBudget \in Nat /\ MaxOpens \in Nat /\ MaxSorts \in Nat
  BY SizesAssumption
<1>2. opens \in 0..MaxOpens
  BY DEF DatasourceTypeOK
<1>3. QED
  BY <1>1, <1>2 DEF Sessions

LEMMA ProperCalls ==
  ASSUME ServerInv
  PROVE  /\ request # Idle /\ answer = None => Proper(request)
         /\ \A call \in strays : Proper(call)
<1>1. ASSUME request # Idle, answer = None PROVE Proper(request)
  <2>1. request \in GridCalls /\ request.kind \in {"open", "fetch", "page"}
    BY <1>1, RequestType DEF ServerInv
  <2> QED  BY <1>1, <2>1 DEF Proper, ServerInv, OpensOnce
<1>2. ASSUME NEW call \in strays PROVE Proper(call)
  <2>1. call \in GridCalls
    BY DEF ServerInv, DatasourceTypeOK
  <2> QED  BY <2>1 DEF Proper, ServerInv, OpensOnce
<1> QED  BY <1>1, <1>2

LEMMA ShowsKeepsTypes ==
  ASSUME DatasourceTypeOK, request # Idle, answer.status = "rows",
         NEW hasLast \in BOOLEAN, NEW last \in Nat, Shows(hasLast, last)
  PROVE  /\ DOMAIN cache' \subseteq Nat /\ cache' \in [DOMAIN cache' -> Blocks]
         /\ known' \in Nat /\ ended' \in BOOLEAN
<1>1. /\ request.start \in Nat /\ request.id \in 0..MaxOpens
      /\ answer.from \in Nat /\ answer.n \in Nat /\ answer.order \in 0..MaxSorts
  BY RequestType, AnswerType
<1>2. /\ DOMAIN cache \subseteq Nat /\ cache \in [DOMAIN cache -> Blocks]
      /\ known \in Nat /\ ended \in BOOLEAN
  BY DEF DatasourceTypeOK
<1>3. CASE alive /\ request.order = order
  <2> DEFINE block == [from |-> answer.from, n |-> Smaller(answer.n, BlockSize),
                       order |-> answer.order, via |-> request.id]
  <2>1. cache' = [s \in DOMAIN cache \cup {request.start} |->
                   IF s = request.start THEN block ELSE cache[s]]
    BY <1>3 DEF Shows
  <2>2. block \in Blocks
    <3>1. Smaller(answer.n, BlockSize) \in Nat
      BY <1>1, Sizes DEF Smaller
    <3> QED  BY <1>1, <3>1 DEF Blocks
  <2>3. /\ known' = IF hasLast THEN last
                    ELSE IF ended THEN known ELSE Larger(known, request.start + BlockSize + 1)
        /\ ended' = (ended \/ hasLast)
    BY <1>3 DEF Shows
  <2>4. known' \in Nat /\ ended' \in BOOLEAN
    BY <1>1, <1>2, <2>3, Sizes DEF Larger
  <2> HIDE DEF block
  <2> QED  BY <1>1, <1>2, <2>1, <2>2, <2>4
<1>4. CASE ~(alive /\ request.order = order)
  BY <1>2, <1>4 DEF Shows
<1> QED  BY <1>3, <1>4

LEMMA ResponseIsAnAnswer ==
  ASSUME ServerInv, NEW call, Proper(call)
  PROVE  Response(call) \in Answers /\ Response(call) # None /\ Response(call) # Failed
<1>1. call \in GridCalls /\ call.kind \in {"open", "fetch", "page"}
  BY DEF Proper, GridCalls
<1>2. call.kind = "fetch" => call.id \in Sessions
  BY Sizes DEF Proper, ServerInv
<1> QED
  BY <1>1, <1>2, ResponseCases, PageFacts, FirstBlockFacts, NextBlockFacts, StatusesDiffer
     DEF Answers

\* Callbacks and requests leave the server alone, and give up no call.
LEMMA BrowserKeepsServer ==
  ASSUME ServerInv, UNCHANGED <<server, strays, lost, opens>>, DatasourceTypeOK',
         \/ request'.kind \notin {"open", "fetch"}
         \/ request' = request /\ answer' \in {answer, Failed}
         \/ request'.kind = "fetch" /\ request'.id \in 1..opens
  PROVE  ServerInv'
<1>1. ServedFits'
  BY DEF ServerInv, ServedFits, server
<1>2. \A s : Unserved(s)' <=> Unserved(s)
  BY DEF Unserved, server
<1>3. request'.kind \in {"open", "fetch"} => request'.id \in 1..opens'
  BY DEF ServerInv, OpensOnce
<1>4. request'.kind = "open" /\ answer' = None => request' = request /\ answer = None
  BY StatusesDiffer
<1>5. OpensOnce'
  BY <1>2, <1>3, <1>4 DEF ServerInv, OpensOnce
<1> QED  BY <1>1, <1>5 DEF ServerInv

\* The first part of each step: types.
LEMMA TypesStep == ServerInv /\ [DatasourceNext]_datasourceVars => DatasourceTypeOK'
<1> SUFFICES ASSUME ServerInv, [DatasourceNext]_datasourceVars PROVE DatasourceTypeOK'
  OBVIOUS
<1> USE DEF ServerInv
<1>0. DatasourceTypeOK
  OBVIOUS
<1>1. ASSUME NEW start \in BlockStarts, GetForward(start) PROVE DatasourceTypeOK'
  <2>1. start \in Nat
    BY <1>0, Sizes DEF BlockStarts, DatasourceTypeOK
  <2>2. request' \in GridCalls
    <3>1. sessionId \in 0..MaxOpens /\ order \in 0..MaxSorts
      BY Sizes DEF DatasourceTypeOK
    <3> QED  BY <1>1, <2>1, <3>1 DEF GetForward, Sends, GridCalls
  <2>3. request' # Idle
    BY <2>2 DEF GridCalls, Idle
  <2> QED  BY <1>1, <2>2, <2>3 DEF GetForward, Wanted, grid, server, DatasourceTypeOK, Answers
<1>2. ASSUME NEW start \in BlockStarts, GetTop(start) PROVE DatasourceTypeOK'
  <2>1. request' \in GridCalls /\ opens' \in 0..MaxOpens /\ opens' = opens + 1
    <3>1. opens + 1 \in 0..MaxOpens /\ order \in 0..MaxSorts
      BY <1>2, Sizes DEF DatasourceTypeOK, GetTop
    <3> QED  BY <1>2, <3>1 DEF GetTop, Sends, GridCalls
  <2>2. request' # Idle
    BY <2>1 DEF GridCalls, Idle
  <2>3. /\ sessionId' \in 0..opens' /\ position' \in Nat
        /\ deletes' \subseteq Sessions
    BY <1>2, <2>1, Sizes DEF GetTop, CloseSession, DatasourceTypeOK
  <2> QED  BY <1>2, <2>1, <2>2, <2>3 DEF GetTop, grid, server, DatasourceTypeOK, Answers
<1>3. ASSUME NEW start \in BlockStarts, GetByOffset(start) PROVE DatasourceTypeOK'
  <2>1. start \in Nat
    BY <1>0, Sizes DEF BlockStarts, DatasourceTypeOK
  <2>2. request' \in GridCalls
    BY <1>3, <2>1, Sizes DEF GetByOffset, Sends, GridCalls, DatasourceTypeOK
  <2>3. request' # Idle
    BY <2>2 DEF GridCalls, Idle
  <2> QED  BY <1>3, <2>2, <2>3 DEF GetByOffset, grid, server, DatasourceTypeOK, Answers
<1>4. CASE Destroy
  <2>1. sessionId' \in 0..opens /\ position' \in Nat /\ deletes' \subseteq Sessions
    BY <1>4, Sizes DEF Destroy, CloseSession, DatasourceTypeOK
  <2> QED  BY <1>4, <2>1 DEF Destroy, server, DatasourceTypeOK, Answers
<1>5. CASE Sort
  <2>1. order' \in 0..MaxSorts /\ cache' = <<>>
    BY <1>5, Sizes DEF Sort, DatasourceTypeOK
  <2>2. DOMAIN cache' \subseteq Nat /\ cache' \in [DOMAIN cache' -> Blocks]
    BY <2>1
  <2> QED  BY <1>5, <2>1, <2>2 DEF Sort, server, DatasourceTypeOK, Answers
<1>6. CASE Serve
  <2>1. Proper(request) /\ Executes(request) /\ length' = length
    BY <1>6, ProperCalls DEF Serve
  <2>2. answer' \in Answers
    BY <1>6, <2>1, ResponseIsAnAnswer DEF Serve
  <2>3. /\ sessionPhase' \in [Sessions -> {"unopened", "streaming", "ended"}]
        /\ served' \in [Sessions -> Nat] /\ sorted' \in [Sessions -> 0..MaxSorts]
    BY <2>1, ExecutesKeeps
  <2> QED  BY <1>6, <2>2, <2>3 DEF Serve, grid, DatasourceTypeOK, Answers
<1>7. CASE ServeFails
  BY <1>7 DEF ServeFails, grid, server, DatasourceTypeOK, Answers
<1>8. CASE Lose
  <2>1. request \in GridCalls
    BY <1>8, RequestType DEF Lose
  <2>2. request.id \in 0..MaxOpens
    BY <2>1 DEF GridCalls
  <2>3. lost' \subseteq Sessions
    <3>1. lost' = lost \cup ({request.id} \ {0})
      BY <1>8 DEF Lose, Loses
    <3>2. lost \subseteq Sessions /\ MaxOpens \in Nat
      BY Sizes DEF DatasourceTypeOK
    <3>3. request.id # 0 => request.id \in Sessions
      BY <2>2, <3>2 DEF Sessions
    <3> QED  BY <3>1, <3>2, <3>3
  <2>4. strays' \subseteq GridCalls
    BY <1>8, <2>1 DEF Lose, DatasourceTypeOK
  <2> QED  BY <1>8, <2>3, <2>4 DEF Lose, grid, server, DatasourceTypeOK, Answers
<1>9. ASSUME NEW call \in strays, ServeStray(call) PROVE DatasourceTypeOK'
  <2>1. Proper(call) /\ Executes(call) /\ length' = length
    BY <1>9, ProperCalls DEF ServeStray
  <2>2. /\ sessionPhase' \in [Sessions -> {"unopened", "streaming", "ended"}]
        /\ served' \in [Sessions -> Nat] /\ sorted' \in [Sessions -> 0..MaxSorts]
    BY <2>1, ExecutesKeeps
  <2> QED  BY <1>9, <2>2 DEF ServeStray, grid, DatasourceTypeOK, Answers
<1>10. ASSUME NEW s \in Sessions, Delete(s) \/ Reap(s) PROVE DatasourceTypeOK'
  BY <1>10 DEF Delete, Reap, Ends, Loses, grid, DatasourceTypeOK, Answers
<1>11. CASE OpenAnswered
  <2>1. request # Idle /\ answer.status = "rows" /\ request.id \in 1..opens
    BY <1>11, KindsOfRequests DEF OpenAnswered, Answered, OpensOnce
  <2>2. answer.n \in Nat /\ answer.complete \in BOOLEAN /\ answer.truncated \in BOOLEAN
    BY <2>1, AnswerType
  <2>3. /\ DOMAIN cache' \subseteq Nat /\ cache' \in [DOMAIN cache' -> Blocks]
        /\ known' \in Nat /\ ended' \in BOOLEAN
    BY <1>11, <2>1, <2>2, ShowsKeepsTypes DEF OpenAnswered
  <2>4. sessionId' \in 0..opens /\ position' \in Nat /\ told' \in BOOLEAN
    BY <1>11, <2>1, <2>2, Sizes DEF OpenAnswered, DatasourceTypeOK
  <2> QED  BY <1>11, <2>3, <2>4 DEF OpenAnswered, Settles, server, DatasourceTypeOK, Answers
<1>12. CASE FetchAnswered
  <2>1. request # Idle /\ answer.status = "rows"
    BY <1>12, KindsOfRequests DEF FetchAnswered, Answered
  <2>2. /\ answer.n \in Nat /\ answer.complete \in BOOLEAN /\ answer.truncated \in BOOLEAN
        /\ position' \in Nat
    BY <1>12, <2>1, AnswerType DEF FetchAnswered, DatasourceTypeOK
  <2>3. /\ DOMAIN cache' \subseteq Nat /\ cache' \in [DOMAIN cache' -> Blocks]
        /\ known' \in Nat /\ ended' \in BOOLEAN
    BY <1>12, <2>1, <2>2, ShowsKeepsTypes DEF FetchAnswered
  <2>4. told' \in BOOLEAN
    BY <1>12, <2>2 DEF FetchAnswered, DatasourceTypeOK
  <2> QED  BY <1>12, <2>2, <2>3, <2>4 DEF FetchAnswered, Settles, server, DatasourceTypeOK, Answers
<1>13. CASE FetchGone
  <2>1. request # Idle /\ request \in GridCalls
    BY <1>13, KindsOfRequests, RequestType DEF FetchGone, Answered
  <2>2. request' \in GridCalls
    <3>1. request' = [kind |-> "page", start |-> request.start, order |-> request.order, id |-> 0]
      BY <1>13, <2>1 DEF FetchGone, GridCalls
    <3> QED  BY <3>1, <2>1, Sizes DEF GridCalls
  <2>3. request' # Idle
    BY <2>2 DEF GridCalls, Idle
  <2>4. sessionId' \in 0..opens /\ position' \in Nat /\ deletes' \subseteq Sessions
    BY <1>13, Sizes DEF FetchGone, CloseSession, DatasourceTypeOK
  <2> QED  BY <1>13, <2>2, <2>3, <2>4 DEF FetchGone, grid, server, DatasourceTypeOK, Answers
<1>14. CASE PageAnswered
  <2>1. request # Idle /\ answer.status = "rows"
    BY <1>14, KindsOfRequests DEF PageAnswered, Answered
  <2>2. answer.complete \in BOOLEAN /\ request.start + answer.n \in Nat
    BY <2>1, AnswerType, RequestType
  <2>3. /\ DOMAIN cache' \subseteq Nat /\ cache' \in [DOMAIN cache' -> Blocks]
        /\ known' \in Nat /\ ended' \in BOOLEAN
    BY <1>14, <2>1, <2>2, ShowsKeepsTypes DEF PageAnswered
  <2> QED  BY <1>14, <2>3 DEF PageAnswered, Settles, server, DatasourceTypeOK, Answers
<1>15. CASE ErrorAnswered
  BY <1>15 DEF ErrorAnswered, Settles, grid, server, DatasourceTypeOK, Answers
<1>16. CASE UNCHANGED datasourceVars
  BY <1>16 DEF datasourceVars, grid, server, DatasourceTypeOK, Answers
<1> QED
  BY <1>1, <1>2, <1>3, <1>4, <1>5, <1>6, <1>7, <1>8, <1>9, <1>10, <1>11, <1>12, <1>13, <1>14,
     <1>15, <1>16 DEF DatasourceNext

\* The second part: each session is opened once and serves no more than there is.
LEMMA ServerSteps == ServerInv /\ [DatasourceNext]_datasourceVars => ServerInv'
<1> SUFFICES ASSUME ServerInv, [DatasourceNext]_datasourceVars PROVE ServerInv'
  OBVIOUS
<1>0. DatasourceTypeOK /\ DatasourceTypeOK'
  BY TypesStep DEF ServerInv
<1>1. ASSUME NEW start \in BlockStarts, GetForward(start) PROVE ServerInv'
  <2>1. request'.kind = "fetch" /\ request'.id = sessionId /\ sessionId \in 1..opens
    BY <1>0, <1>1 DEF GetForward, Forward, Sends, DatasourceTypeOK
  <2> QED  BY <1>0, <1>1, <2>1, BrowserKeepsServer DEF GetForward
<1>2. ASSUME NEW start \in BlockStarts, GetTop(start) PROVE ServerInv'
  <2>1. /\ request'.kind = "open" /\ request'.id = opens + 1 /\ opens' = opens + 1
        /\ UNCHANGED <<server, strays, lost>> /\ opens + 1 \in Sessions
    BY <1>0, <1>2, Sizes DEF GetTop, Sends, Sessions, DatasourceTypeOK
  <2>2. ServedFits' /\ \A s : Unserved(s)' <=> Unserved(s)
    BY <2>1 DEF ServerInv, ServedFits, Unserved, server
  <2>3. opens \in Nat
    BY <1>0, Sizes
  <2>4. \A call \in strays : call.id \in 1..opens /\ call.id # opens + 1 /\ call.id \in 1..(opens + 1)
    BY <2>3 DEF ServerInv, OpensOnce
  <2>5. /\ request'.id \in 1..opens' /\ Unserved(request'.id)
        /\ \A s \in Sessions : s > opens' => Unserved(s)
    BY <2>1, <2>3, Sizes, <1>0 DEF ServerInv, OpensOnce
  <2>6. OpensOnce'
    BY <2>1, <2>2, <2>4, <2>5 DEF ServerInv, OpensOnce
  <2> QED  BY <1>0, <2>2, <2>6 DEF ServerInv
<1>3. ASSUME NEW start \in BlockStarts, GetByOffset(start) PROVE ServerInv'
  BY <1>0, <1>3, BrowserKeepsServer DEF GetByOffset, Sends
<1>4. CASE Destroy \/ Sort \/ ServeFails \/ UNCHANGED datasourceVars
  BY <1>0, <1>4, BrowserKeepsServer DEF Destroy, Sort, ServeFails, datasourceVars, server, grid
<1>5. CASE OpenAnswered \/ FetchAnswered \/ PageAnswered \/ ErrorAnswered
  <2>1. request' = Idle /\ UNCHANGED <<server, strays, lost, opens>>
    BY <1>5 DEF OpenAnswered, FetchAnswered, PageAnswered, ErrorAnswered, Settles
  <2> QED  BY <1>0, <2>1, BrowserKeepsServer DEF Idle
<1>6. CASE FetchGone
  <2>1. request \in GridCalls
    BY <1>0, <1>6, KindsOfRequests, RequestType DEF FetchGone, Answered
  <2>2. request'.kind = "page"
    BY <1>6, <2>1 DEF FetchGone, GridCalls
  <2> QED  BY <1>0, <1>6, <2>2, BrowserKeepsServer DEF FetchGone
<1>7. CASE Serve
  <2>1. Proper(request) /\ Executes(request) /\ length' = length
    BY <1>7, ProperCalls DEF Serve
  <2>2. answer' # None
    BY <1>7, <2>1, ResponseIsAnAnswer DEF Serve
  <2>3. /\ ServedFits'
        /\ \A s \in Sessions : request.kind = "page" \/ s # request.id =>
             sessionPhase'[s] = sessionPhase[s] /\ served'[s] = served[s]
        /\ request.kind = "fetch" =>
             UNCHANGED <<sessionPhase, served>> \/ sessionPhase[request.id] = "streaming"
    BY <2>1, ExecutesKeeps
  <2>4. request.kind = "open" => \A call \in strays : call.id # request.id
    BY <1>7 DEF Serve, ServerInv, OpensOnce
  <2>5. request.kind \in {"open", "fetch", "page"} /\ (request.kind # "page" => request.id \in 1..opens)
    BY <2>1 DEF Proper, GridCalls
  <2>6. ASSUME NEW s \in Sessions, Unserved(s), s > opens \/ \E call \in strays : call.id = s
        PROVE  Unserved(s)'
    <3>1. request.kind = "open" => s # request.id
      BY <1>0, <2>4, <2>5, <2>6, Sizes
    <3> QED  BY <2>3, <2>5, <2>6, <3>1 DEF Unserved
  <2>7. UNCHANGED <<request, strays, lost, opens>>
    BY <1>7 DEF Serve
  <2>8. \A call \in strays : call.id \in Sessions
    BY <1>0, Sizes DEF ServerInv, OpensOnce
  <2>9. OpensOnce'
    BY <2>2, <2>6, <2>7, <2>8 DEF ServerInv, OpensOnce
  <2> QED  BY <1>0, <2>3, <2>9 DEF ServerInv
<1>8. ASSUME NEW call \in strays, ServeStray(call) PROVE ServerInv'
  <2>1. Proper(call) /\ Executes(call) /\ length' = length
    BY <1>8, ProperCalls DEF ServeStray
  <2>2. /\ ServedFits'
        /\ \A s \in Sessions : s # call.id =>
             sessionPhase'[s] = sessionPhase[s] /\ served'[s] = served[s]
        /\ call.kind = "fetch" =>
             UNCHANGED <<sessionPhase, served>> \/ sessionPhase[call.id] = "streaming"
    BY <2>1, ExecutesKeeps
  <2>3. call.kind \in {"open", "fetch"} /\ call.id \in 1..opens
    BY <2>1 DEF ServerInv, OpensOnce, Proper, GridCalls
  <2>4. ASSUME NEW s \in Sessions, Unserved(s), call.kind = "open" => s # call.id
        PROVE  Unserved(s)'
    BY <2>2, <2>3, <2>4 DEF Unserved
  <2>5. UNCHANGED <<request, answer, lost, opens>> /\ strays' = strays \ {call}
    BY <1>8 DEF ServeStray
  <2>6. \A s \in Sessions : s > opens => Unserved(s)'
    BY <1>0, <2>3, <2>4, Sizes DEF ServerInv, OpensOnce
  <2>7. ASSUME request.kind = "open", answer = None PROVE Unserved(request.id)'
    <3>1. request.id \in Sessions /\ Unserved(request.id) /\ request.id # call.id
      BY <1>0, <2>7, Sizes DEF ServerInv, OpensOnce
    <3>2. sessionPhase'[request.id] = "unopened" /\ served'[request.id] = 0
      BY <2>4, <3>1 DEF Unserved
    <3> QED  BY <2>5, <3>2 DEF Unserved
  <2>8. \A other \in strays' : other.kind = "open" => Unserved(other.id)'
    <3>1. ASSUME NEW other \in strays', other.kind = "open" PROVE Unserved(other.id)'
      <4>1. other \in strays /\ other # call
        BY <2>5, <3>1
      <4>2. other.id \in Sessions /\ Unserved(other.id)
        BY <1>0, <3>1, <4>1, Sizes DEF ServerInv, OpensOnce
      <4>3. call.kind = "open" => other.id # call.id
        BY <3>1, <4>1 DEF ServerInv, OpensOnce
      <4> QED  BY <2>4, <4>2, <4>3
    <3> QED  BY <3>1
  <2>9. OpensOnce'
    BY <2>5, <2>6, <2>7, <2>8 DEF ServerInv, OpensOnce
  <2> QED  BY <1>0, <2>2, <2>9 DEF ServerInv
<1>9. CASE Lose
  <2>1. /\ UNCHANGED <<request, server, opens>> /\ answer' = Failed
        /\ lost' = lost \cup ({request.id} \ {0})
        /\ strays' = IF answer = None /\ request.kind # "page" THEN strays \cup {request} ELSE strays
    BY <1>9 DEF Lose, Loses
  <2>2. request.kind \in {"open", "fetch", "page"}
    BY <1>0, <1>9, RequestType DEF Lose
  <2>3. ServedFits' /\ \A s : Unserved(s)' <=> Unserved(s)
    BY <2>1 DEF ServerInv, ServedFits, Unserved, server
  <2>4. ASSUME NEW call \in strays'
        PROVE  /\ call.kind # "page" /\ call.id \in (1..opens) \cap lost'
               /\ call.kind = "open" => Unserved(call.id)
    BY <1>0, <2>1, <2>2, <2>4, Sizes DEF ServerInv, OpensOnce
  <2>5. ASSUME NEW call \in strays', NEW other \in strays', call.kind = "open",
               other.kind = "open", other.id = call.id
        PROVE  other = call
    BY <2>1, <2>5 DEF ServerInv, OpensOnce
  <2>6. OpensOnce'
    BY <2>1, <2>3, <2>4, <2>5, StatusesDiffer DEF ServerInv, OpensOnce
  <2> QED  BY <1>0, <2>3, <2>6 DEF ServerInv
<1>10. ASSUME NEW s \in Sessions, Delete(s) \/ Reap(s) PROVE ServerInv'
  <2>1. /\ UNCHANGED <<request, answer, strays, opens, served, length>> /\ lost \subseteq lost'
        /\ Ends(s) \/ UNCHANGED sessionPhase
    BY <1>10 DEF Delete, Reap, Loses
  <2>2. \A o \in Sessions :
          /\ sessionPhase[o] = "unopened" => sessionPhase'[o] = "unopened"
          /\ sessionPhase'[o] = "streaming" => sessionPhase[o] = "streaming"
    BY <1>0, <2>1 DEF Ends, DatasourceTypeOK
  <2>3. ServedFits' /\ \A o \in Sessions : Unserved(o) => Unserved(o)'
    BY <2>1, <2>2 DEF ServerInv, ServedFits, Unserved
  <2>4. OpensOnce'
    BY <1>0, <2>1, <2>3, Sizes DEF ServerInv, OpensOnce
  <2> QED  BY <1>0, <2>3, <2>4 DEF ServerInv
<1> QED
  BY <1>1, <1>2, <1>3, <1>4, <1>5, <1>6, <1>7, <1>8, <1>9, <1>10 DEF DatasourceNext

LEMMA InitServerInv == DatasourceInit => ServerInv
<1> SUFFICES ASSUME DatasourceInit PROVE ServerInv
  OBVIOUS
<1>1. length \in Nat /\ MaxSorts \in Nat /\ MaxOpens \in Nat
  BY SizesAssumption DEF DatasourceInit
<1>2. DatasourceTypeOK
  <2>1. DOMAIN cache \subseteq Nat /\ cache \in [DOMAIN cache -> Blocks]
    BY DEF DatasourceInit
  <2>2. /\ sessionPhase \in [Sessions -> {"unopened", "streaming", "ended"}]
        /\ served \in [Sessions -> Nat] /\ sorted \in [Sessions -> 0..MaxSorts]
    BY <1>1 DEF DatasourceInit
  <2>3. /\ opens \in 0..MaxOpens /\ sessionId \in 0..opens /\ order \in 0..MaxSorts
        /\ position \in Nat /\ known \in Nat
    BY <1>1 DEF DatasourceInit
  <2> QED  BY <1>1, <2>1, <2>2, <2>3 DEF DatasourceInit, DatasourceTypeOK, Answers
<1>3. OpensOnce
  BY DEF DatasourceInit, OpensOnce, Unserved, Idle
<1>4. ServedFits
  BY <1>1 DEF DatasourceInit, ServedFits
<1> QED  BY <1>2, <1>3, <1>4 DEF ServerInv

\* Whatever is lost, reaped or sorted, a session is opened once and stays within
\* the result and its budget.
THEOREM ServerInvariant == DatasourceSpec => []ServerInv
<1> QED  BY InitServerInv, ServerSteps, PTL DEF DatasourceSpec

\* The server that the data source is checked with keeps to StreamContract.
THEOREM DatasourceUsesContract == DatasourceSpec => UsesContract
<1>1. DatasourceInit => Contract!Init
  BY DEF DatasourceInit, Contract!Init
<1>2. ServerInv /\ [DatasourceNext]_datasourceVars => [Contract!Next]_Contract!vars
  <2> SUFFICES ASSUME ServerInv, [DatasourceNext]_datasourceVars PROVE [Contract!Next]_Contract!vars
    OBVIOUS
  <2>1. ASSUME NEW call, Proper(call), Executes(call), length' = length
        PROVE  [Contract!Next]_Contract!vars
    <3>1. [\E s \in Sessions : Contract!Begin(s) \/ Contract!Serve(s)]_<<sessionPhase, served>>
      BY <2>1, ExecutesKeeps
    <3> QED  BY <3>1 DEF Contract!Next, Contract!vars
  <2>2. CASE Serve
    BY <2>1, <2>2, ProperCalls DEF Serve
  <2>3. ASSUME NEW call \in strays, ServeStray(call) PROVE [Contract!Next]_Contract!vars
    BY <2>1, <2>3, ProperCalls DEF ServeStray
  <2>4. ASSUME NEW s \in Sessions, Delete(s) \/ Reap(s) PROVE [Contract!Next]_Contract!vars
    <3>1. UNCHANGED served /\ (Ends(s) \/ UNCHANGED sessionPhase)
      BY <2>4 DEF Delete, Reap
    <3>2. sessionPhase \in [Sessions -> {"unopened", "streaming", "ended"}]
      BY DEF ServerInv, DatasourceTypeOK
    <3>3. CASE sessionPhase[s] = "streaming" /\ Ends(s)
      <4>1. Contract!End(s)
        BY <3>1, <3>2, <3>3 DEF Ends, Contract!End
      <4> QED  BY <4>1 DEF Contract!Next
    <3>4. CASE sessionPhase[s] # "streaming" \/ UNCHANGED sessionPhase
      BY <3>1, <3>2, <3>4 DEF Ends, Contract!vars
    <3> QED  BY <3>1, <3>3, <3>4
  <2>5. ASSUME NEW start \in BlockStarts, GetForward(start) \/ GetTop(start) \/ GetByOffset(start)
        PROVE  UNCHANGED Contract!vars
    BY <2>5 DEF GetForward, GetTop, GetByOffset, server, Contract!vars
  <2>6. CASE Destroy \/ Sort \/ ServeFails \/ Lose \/ UNCHANGED datasourceVars
    BY <2>6 DEF Destroy, Sort, ServeFails, Lose, datasourceVars, server, Contract!vars
  <2>7. CASE OpenAnswered \/ FetchAnswered \/ FetchGone \/ PageAnswered \/ ErrorAnswered
    BY <2>7 DEF OpenAnswered, FetchAnswered, FetchGone, PageAnswered, ErrorAnswered, server,
       Contract!vars
  <2> QED  BY <2>2, <2>3, <2>4, <2>5, <2>6, <2>7 DEF DatasourceNext
<1> QED
  BY <1>1, <1>2, ServerInvariant, PTL DEF DatasourceSpec, UsesContract, Contract!Spec

-----------------------------------------------------------------------------
(* What the grid shows. *)

\* Two starts less than a block apart are the same.
LEMMA SameBlock ==
  ASSUME NEW a, NEW b, IsStart(a), IsStart(b), a < b + BlockSize, b < a + BlockSize
  PROVE  a = b
<1>1. BlockSize \in Nat /\ BlockSize > 0
  BY SizesAssumption
<1>2. PICK k \in Nat : a = k * BlockSize
  BY DEF IsStart
<1>3. PICK j \in Nat : b = j * BlockSize
  BY DEF IsStart
<1>4. ASSUME NEW m \in Nat, NEW n \in Nat, m < n PROVE m * BlockSize + BlockSize <= n * BlockSize
  <2>1. n - m - 1 \in Nat
    BY <1>4
  <2>2. (n - m - 1) * BlockSize \in Nat
    BY <2>1, <1>1
  <2> QED  BY <2>2, <1>1
<1>5. a \in Nat /\ b \in Nat
  BY <1>1, <1>2, <1>3
<1> QED  BY <1>1, <1>2, <1>3, <1>4, <1>5

LEMMA StartsAreStarts ==
  ASSUME DatasourceTypeOK, NEW start \in BlockStarts
  PROVE  IsStart(start) /\ start \in Nat
BY Sizes DEF BlockStarts, IsStart, DatasourceTypeOK

\* Showing a block, given what the callbacks know of the answer.
LEMMA ShowsKeeps ==
  ASSUME DatasourceInv, request # Idle, answer.status = "rows",
         NEW hasLast \in BOOLEAN, NEW last \in Nat, Shows(hasLast, last),
         lost' = lost, length' = length, order' = order, told \in BOOLEAN, told => told',
         alive /\ request.order = order =>
           LET n == Smaller(answer.n, BlockSize)
           IN  /\ request.id \notin lost =>
                    /\ answer.from = request.start /\ answer.order = order
                    /\ \/ n = Smaller(BlockSize, length - request.start)
                       \/ /\ hasLast /\ request.start + n = RowBudget /\ last <= RowBudget
                          /\ request.start < RowBudget
                          /\ RowBudget < length /\ OpenBlock < RowBudget
               /\ hasLast => last <= length
               /\ ~hasLast => request.start + BlockSize <= length
               /\ hasLast /\ OpenBlock < RowBudget /\ RowBudget < length =>
                    last <= RowBudget \/ request.start + BlockSize >= length
               /\ hasLast /\ lost = {} =>
                    last = length \/ (last < length /\ last >= RowBudget /\ told')
  PROVE  CacheFits' /\ RowCountHonest'
<1>1. DatasourceTypeOK /\ CacheFits /\ RowCountHonest /\ RequestFits
  BY DEF DatasourceInv, ServerInv
<1>2. /\ request.start \in Nat /\ IsStart(request.start)
      /\ answer.from \in Nat /\ answer.n \in Nat
  BY <1>1, RequestType, AnswerType DEF RequestFits
<1>3. known \in Nat /\ length \in Nat /\ ended \in BOOLEAN /\ DOMAIN cache \subseteq Nat
      /\ cache \in [DOMAIN cache -> Blocks]
  BY <1>1 DEF DatasourceTypeOK
<1>4. BlockSize \in Nat /\ BlockSize > 0 /\ RowBudget \in Nat /\ OpenBlock \in Nat
  BY <1>1, Sizes
<1>5. CASE ~(alive /\ request.order = order)
  <2>1. UNCHANGED <<cache, known, ended>>
    BY <1>5 DEF Shows
  <2>2. CacheFits'
    BY <1>1, <2>1 DEF CacheFits, BlockFits
  <2>3. RowCountHonest'
    BY <1>1, <2>1 DEF RowCountHonest
  <2> QED  BY <2>2, <2>3
<1>6. CASE alive /\ request.order = order
  <2> DEFINE b == request.start
             n == Smaller(answer.n, BlockSize)
             block == [from |-> answer.from, n |-> n, order |-> answer.order, via |-> request.id]
  <2>1. /\ cache' = [s \in DOMAIN cache \cup {b} |-> IF s = b THEN block ELSE cache[s]]
        /\ known' = IF hasLast THEN last
                    ELSE IF ended THEN known ELSE Larger(known, b + BlockSize + 1)
        /\ ended' = (ended \/ hasLast)
    BY <1>6 DEF Shows
  <2>2. n \in Nat /\ n <= BlockSize
    BY <1>2, <1>4 DEF Smaller
  <2>3. b < known
    BY <1>1, <1>6 DEF RequestFits
  <2>4. known' <= length + 1 /\ (ended' => known' <= length)
    BY <1>1, <1>2, <1>3, <1>4, <1>6, <2>1 DEF CacheFits, Larger
  <2>5. RowCountHonest'
    BY <1>1, <1>3, <1>6, <2>1 DEF RowCountHonest
  <2>6. ASSUME NEW s \in DOMAIN cache', s = b, cache'[s].via \notin lost PROVE BlockFits(s)'
    <3>1. cache'[s] = block
      BY <2>1, <2>6
    <3>2. request.id \notin lost
      BY <2>6, <3>1
    <3>3. answer.from = b /\ answer.order = order
          /\ \/ n = Smaller(BlockSize, length - b)
             \/ /\ hasLast /\ b + n = RowBudget /\ last <= RowBudget /\ b < RowBudget
                /\ RowBudget < length /\ OpenBlock < RowBudget
      BY <1>6, <3>2
    <3>4. cache'[s].from = b /\ cache'[s].n = n /\ cache'[s].order = order
      BY <3>1, <3>3
    <3>5. hasLast => known' = last /\ ended'
      BY <2>1
    <3> HIDE DEF n, block, b
    <3> QED  BY <1>2, <1>4, <2>2, <2>6, <3>3, <3>4, <3>5 DEF BlockFits, b
  <2>7. ASSUME NEW s \in DOMAIN cache', s # b, cache'[s].via \notin lost PROVE BlockFits(s)'
    <3>1. s \in DOMAIN cache /\ cache'[s] = cache[s]
      BY <2>1, <2>7
    <3>2. BlockFits(s) /\ IsStart(s) /\ s \in Nat
      BY <1>1, <1>3, <2>7, <3>1 DEF CacheFits
    <3>3. CASE cache[s].n = Smaller(BlockSize, length - s)
      BY <3>1, <3>2, <3>3 DEF BlockFits
    <3>4. CASE cache[s].n # Smaller(BlockSize, length - s)
      <4>1. /\ ended /\ s + cache[s].n = RowBudget /\ s < RowBudget
            /\ RowBudget <= s + BlockSize
            /\ known <= RowBudget /\ RowBudget < length /\ OpenBlock < RowBudget
        BY <3>2, <3>4 DEF BlockFits
      <4>2. ended'
        BY <2>1, <4>1
      <4>3. ~(b + BlockSize >= length)
        <5>1. SUFFICES ASSUME b + BlockSize >= length PROVE FALSE
          OBVIOUS
        <5>2. b < s + BlockSize /\ s < b + BlockSize
          BY <1>2, <1>3, <1>4, <2>3, <3>2, <4>1, <5>1
        <5> QED  BY <1>2, <2>7, <3>2, <5>2, SameBlock
      <4>4. known' <= RowBudget
        BY <1>6, <2>1, <4>1, <4>3
      <4> QED  BY <3>1, <3>2, <4>1, <4>2, <4>4 DEF BlockFits
    <3> QED  BY <3>3, <3>4
  <2>8. \A s \in DOMAIN cache' : IsStart(s)
    BY <1>1, <1>2, <2>1 DEF CacheFits
  <2>9. \A s \in DOMAIN cache' : IsStart(s)'
    BY <2>8 DEF IsStart
  <2> HIDE DEF n, block, b
  <2> QED  BY <2>4, <2>5, <2>6, <2>7, <2>9 DEF CacheFits
<1> QED  BY <1>5, <1>6

\* Steps that leave what is shown alone.
LEMMA ShownIsKept ==
  ASSUME DatasourceInv, UNCHANGED <<cache, known, ended, told, order, length>>, lost \subseteq lost'
  PROVE  CacheFits' /\ RowCountHonest'
<1>1. CacheFits'
  BY DEF DatasourceInv, CacheFits, BlockFits, IsStart
<1>2. RowCountHonest'
  BY DEF DatasourceInv, RowCountHonest
<1> QED  BY <1>1, <1>2

\* Steps of the server's sessions alone.
LEMMA SessionsMove ==
  ASSUME DatasourceInv,
         UNCHANGED <<sessionId, position, alive, order, cache, known, ended, told, request, length>>,
         lost \subseteq lost', UNCHANGED answer \/ answer' = Failed,
         request.kind = "fetch" /\ request.id \notin lost' /\ answer' = Failed =>
           answer \in {None, Failed},
         \A s \in Sessions : served[s] \in Nat /\ served'[s] \in Nat /\ served[s] <= served'[s],
         \A s \in Sessions \ lost' : served'[s] = served[s] /\ sorted'[s] = sorted[s]
  PROVE  RequestFits' /\ PositionFits' /\ AnswerFits' /\ CacheFits' /\ RowCountHonest'
<1> USE DEF DatasourceInv, ServerInv
<1>1. CacheFits' /\ RowCountHonest'
  BY ShownIsKept
<1>2. RequestFits'
  BY StatusesDiffer DEF RequestFits, IsStart
<1>3. sessionId # 0 => sessionId \in Sessions
  BY Sizes DEF DatasourceTypeOK
<1>4. sessionId # 0 /\ sessionId \notin lost' =>
        served'[sessionId] = served[sessionId] /\ sorted'[sessionId] = sorted[sessionId]
  BY <1>3
<1>5. PositionFits'
  <2> SUFFICES ASSUME sessionId # 0 PROVE PositionFits'
    BY DEF PositionFits
  <2>1. OpenBlock <= position /\ position <= served'[sessionId]
    BY <1>3, Sizes DEF PositionFits, DatasourceTypeOK
  <2>2. ASSUME sessionId \notin lost', request.kind = "fetch", answer.status = "rows",
               answer'.status # "rows"
        PROVE  FALSE
    <3>1. request.id = sessionId
      BY <2>2, KindsOfRequests DEF RequestFits
    <3>2. answer' = Failed /\ answer # Failed /\ answer # None
      BY <2>2, StatusesDiffer
    <3> QED  BY <2>2, <3>1, <3>2
  <2> QED  BY <1>4, <2>1, <2>2 DEF PositionFits
<1>6. AnswerFits'
  <2> SUFFICES ASSUME answer'.status = "rows" PROVE AnswerFits'
    BY DEF AnswerFits
  <2>1. answer' = answer /\ answer.status = "rows" /\ request # Idle
    BY StatusesDiffer DEF DatasourceTypeOK
  <2>2. request.id \in 0..MaxOpens /\ (request.kind \in {"open", "fetch"} => request.id \in Sessions)
    BY <2>1, RequestType, Sizes DEF OpensOnce
  <2>3. answer.from + answer.n \in Nat /\ answer.n \in Nat
    BY <2>1, AnswerType
  <2>4. CASE request.kind = "page"
    BY <2>1, <2>4 DEF AnswerFits, Page
  <2>5. CASE request.kind = "open"
    <3>1. answer' = FirstBlock(request)'
      BY <2>1, <2>5 DEF AnswerFits, FirstBlock
    <3>2. answer.n <= served'[request.id]
      BY <2>1, <2>2, <2>3, <2>5 DEF AnswerFits
    <3>3. request.id \notin lost' =>
            served'[request.id] = served[request.id] /\ sorted'[request.id] = sorted[request.id]
      BY <2>2, <2>5
    <3> QED  BY <2>1, <2>5, <3>1, <3>2, <3>3 DEF AnswerFits
  <2>6. CASE request.kind = "fetch"
    <3> SUFFICES ASSUME sessionId # 0 PROVE AnswerFits'
      BY <2>1, <2>6 DEF AnswerFits
    <3>1. request.id = sessionId
      BY <2>1, <2>6 DEF RequestFits
    <3>2. answer.from + answer.n <= served'[request.id]
      BY <2>1, <2>2, <2>3, <2>6 DEF AnswerFits
    <3> QED  BY <1>4, <2>1, <2>6, <3>1, <3>2 DEF AnswerFits
  <2> QED  BY <2>1, <2>4, <2>5, <2>6, RequestType
<1> QED  BY <1>1, <1>2, <1>5, <1>6

LEMMA ServeKeeps ==
  ASSUME DatasourceInv, Serve, DatasourceTypeOK'
  PROVE  RequestFits' /\ PositionFits' /\ AnswerFits' /\ CacheFits' /\ RowCountHonest'
<1> DEFINE id == request.id
<1>1. /\ ServerInv /\ DatasourceTypeOK /\ request # Idle /\ answer = None
      /\ Proper(request) /\ Executes(request) /\ answer' = Response(request)
      /\ UNCHANGED <<sessionId, position, alive, order, cache, known, ended, told, request, length, lost>>
  BY ProperCalls DEF Serve, DatasourceInv, ServerInv, grid
<1>2. CacheFits' /\ RowCountHonest'
  BY <1>1, ShownIsKept
<1>3. request \in GridCalls /\ request.kind \in {"open", "fetch", "page"}
      /\ (request.kind # "page" => id \in Sessions)
  BY <1>1, Sizes DEF Proper, GridCalls
<1>4. /\ \A s \in Sessions : request.kind = "page" \/ s # id =>
           served'[s] = served[s] /\ sorted'[s] = sorted[s]
      /\ \A s \in Sessions : served[s] <= served'[s]
      /\ request.kind = "open" => served'[id] = FirstBlock(request).n /\ sorted'[id] = request.order
      /\ request.kind = "fetch" =>
           \/ answer' = Gone /\ UNCHANGED <<served, sorted>>
           \/ /\ sessionPhase[id] = "streaming" /\ answer' = NextBlock(id)
              /\ served'[id] = served[id] + NextBlock(id).n
              /\ sorted' = sorted
  BY <1>1, ExecutesKeeps
<1>5. answer' = Gone => request.kind = "fetch"
  BY <1>1, <1>3, ResponseCases, PageFacts, FirstBlockFacts
<1>6. RequestFits'
  BY <1>1, <1>5 DEF DatasourceInv, RequestFits, IsStart
<1>7. served \in [Sessions -> Nat] /\ served' \in [Sessions -> Nat] /\ position \in Nat /\ OpenBlock \in Nat
      /\ OpenBlock > 0
  BY <1>1, Sizes DEF DatasourceTypeOK
<1>8. sessionId # 0 =>
        /\ sessionId \in Sessions /\ OpenBlock <= position /\ position <= served[sessionId]
        /\ sessionId \notin lost =>
             position = served[sessionId] /\ (sorted[sessionId] = order \/ known = 1)
        /\ request.kind = "open" => id # sessionId
        /\ request.kind = "fetch" => id = sessionId /\ request.start = position
  <2>1. SUFFICES ASSUME sessionId # 0
        PROVE  /\ sessionId \in Sessions /\ OpenBlock <= position /\ position <= served[sessionId]
               /\ sessionId \notin lost =>
                    position = served[sessionId] /\ (sorted[sessionId] = order \/ known = 1)
               /\ request.kind = "open" => id # sessionId
               /\ request.kind = "fetch" => id = sessionId /\ request.start = position
    OBVIOUS
  <2>2. sessionId \in Sessions
    BY <1>1, <2>1, Sizes DEF DatasourceTypeOK
  <2>3. request.kind = "open" => served[id] = 0
    BY <1>1 DEF Proper, Unserved
  <2> QED  BY <1>1, <1>7, <2>1, <2>2, <2>3, StatusesDiffer DEF DatasourceInv, PositionFits, RequestFits
<1>9. PositionFits'
  <2>1. SUFFICES ASSUME sessionId # 0
        PROVE  /\ OpenBlock <= position /\ position <= served'[sessionId]
               /\ sessionId \notin lost =>
                    /\ position = served'[sessionId]
                       \/ (request.kind = "fetch" /\ answer'.status = "rows")
                    /\ sorted'[sessionId] = order \/ known = 1
    BY <1>1 DEF PositionFits
  <2>2. position <= served'[sessionId]
    BY <1>4, <1>7, <1>8, <2>1
  <2>3. CASE request.kind = "fetch"
    <3>1. sessionPhase[id] = "streaming" => NextBlock(id).status = "rows"
      BY <1>1, <1>3, <2>3, NextBlockFacts
    <3> QED  BY <1>4, <1>8, <2>1, <2>2, <2>3, <3>1
  <2>4. CASE request.kind # "fetch"
    <3>1. request.kind = "page" \/ sessionId # id
      BY <1>3, <1>8, <2>1, <2>4
    <3> QED  BY <1>4, <1>8, <2>1, <2>2, <3>1
  <2> QED  BY <2>3, <2>4
<1>10. AnswerFits'
  <2>1. CASE request.kind = "page"
    <3>1. answer' = Page(request)
      BY <1>1, <1>3, <2>1, ResponseCases
    <3> QED  BY <1>1, <2>1, <3>1 DEF AnswerFits, Page
  <2>2. CASE request.kind = "open"
    <3>1. answer' = FirstBlock(request) /\ answer'.order = request.order /\ answer'.n \in Nat
      BY <1>1, <1>3, <2>2, ResponseCases, FirstBlockFacts
    <3>2. FirstBlock(request)' = FirstBlock(request)
      BY <1>1 DEF FirstBlock
    <3>3. served'[id] = answer'.n /\ sorted'[id] = answer'.order
      BY <1>4, <2>2, <3>1
    <3> QED  BY <1>1, <2>2, <3>1, <3>2, <3>3 DEF AnswerFits
  <2>3. CASE request.kind = "fetch"
    <3> SUFFICES ASSUME sessionId # 0, answer'.status = "rows" PROVE AnswerFits'
      BY <1>1, <2>3 DEF AnswerFits
    <3>1. sessionPhase[id] = "streaming" /\ answer' = NextBlock(id) /\ sorted' = sorted
          /\ served'[id] = served[id] + NextBlock(id).n
      BY <1>4, <2>3, StatusesDiffer
    <3> DEFINE r == NextBlock(id)
               to == r.from + r.n
    <3>2. /\ r.from = served[id] /\ r.order = sorted[id] /\ r.n \in Nat /\ r.n <= BlockSize
          /\ to <= length /\ to <= RowBudget /\ r.complete \in BOOLEAN
          /\ ~r.complete => r.n = BlockSize /\ to < RowBudget
          /\ \/ r.n = Smaller(BlockSize, length - r.from)
             \/ r.complete /\ to = RowBudget /\ RowBudget < length
          /\ r.complete => to = length \/ (to = RowBudget /\ r.truncated)
      BY <1>1, <1>3, <2>3, <3>1, NextBlockFacts
    <3>3. served[id] < RowBudget /\ served[id] \in Nat /\ served'[id] = to
      BY <1>1, <1>3, <1>7, <2>3, <3>1, <3>2 DEF ServerInv, ServedFits
    <3>4. OpenBlock <= r.from /\ request.start <= r.from /\ r.from < RowBudget
          /\ (id \notin lost => r.from = request.start)
      BY <1>7, <1>8, <2>3, <3>2, <3>3
    <3> HIDE DEF r
    <3>5. answer' = r
      BY <3>1 DEF r
    <3>6. to <= served'[id] /\ to = served'[id]
      BY <1>7, <1>3, <2>3, <3>3
    <3> QED  BY <1>1, <2>3, <3>1, <3>2, <3>4, <3>5, <3>6 DEF AnswerFits
  <2> QED  BY <1>3, <2>1, <2>2, <2>3
<1> QED  BY <1>2, <1>6, <1>9, <1>10

LEMMA CallbackKeeps ==
  ASSUME BlockSize <= OpenBlock, DatasourceInv, DatasourceTypeOK',
         OpenAnswered \/ FetchAnswered \/ PageAnswered
  PROVE  RequestFits' /\ PositionFits' /\ AnswerFits' /\ CacheFits' /\ RowCountHonest'
<1> DEFINE id == request.id
           start == request.start
           n == answer.n
<1>1. /\ DatasourceTypeOK /\ request # Idle /\ answer.status = "rows"
      /\ request' = Idle /\ answer' = None /\ UNCHANGED <<alive, order, deletes, opens, server, lost>>
  BY KindsOfRequests DEF DatasourceInv, ServerInv, OpenAnswered, FetchAnswered, PageAnswered,
     Answered, Settles
<1>2. RequestFits' /\ AnswerFits'
  BY <1>1, StatusesDiffer DEF RequestFits, AnswerFits
<1>3. /\ start \in Nat /\ n \in Nat /\ answer.from \in Nat /\ position \in Nat /\ length \in Nat
      /\ known \in Nat /\ order \in Nat /\ answer.complete \in BOOLEAN /\ answer.truncated \in BOOLEAN
      /\ told \in BOOLEAN /\ sessionId \in Nat
      /\ request \in GridCalls /\ (request.kind \in {"open", "fetch"} => id \in Sessions)
      /\ served \in [Sessions -> Nat] /\ \A s \in Sessions : served[s] \in Nat /\ served[s] <= length
  BY <1>1, RequestType, AnswerType, Sizes
     DEF DatasourceTypeOK, DatasourceInv, ServerInv, OpensOnce, ServedFits
<1>4. /\ BlockSize \in Nat /\ BlockSize > 0 /\ OpenBlock \in Nat /\ OpenBlock > 0 /\ RowBudget \in Nat
  BY <1>1, Sizes
<1>5. UNCHANGED <<sessionPhase, served, sorted, length, lost, order, alive>>
  BY <1>1 DEF server
<1>6. order' = order /\ length' = length /\ lost' = lost
  BY <1>5
<1>7. IF request.order = order THEN start < known ELSE known = 1
  BY <1>1 DEF DatasourceInv, RequestFits
<1>8. request.order # order => UNCHANGED <<cache, known, ended>>
  BY DEF OpenAnswered, FetchAnswered, PageAnswered, Shows
<1>9. CASE OpenAnswered
  <2>1. /\ request.kind = "open" /\ answer = FirstBlock(request) /\ n <= served[id] /\ start = 0
        /\ id \notin lost => served[id] = n /\ sorted[id] = answer.order
    BY <1>1, <1>9 DEF OpenAnswered, Answered, DatasourceInv, AnswerFits, RequestFits
  <2>2. /\ answer.from = 0 /\ answer.order = request.order /\ n <= OpenBlock /\ n <= length
        /\ ~answer.complete => n = OpenBlock
        /\ answer.complete => \/ n = length /\ length < OpenBlock
                              \/ n = OpenBlock /\ OpenBlock >= RowBudget /\ answer.truncated
    BY <1>3, <2>1, FirstBlockFacts DEF DatasourceInv
  <2>3. Shows(answer.complete, n) /\ (told => told') /\ (answer.truncated => told')
    BY <1>9 DEF OpenAnswered
  <2>4. CacheFits' /\ RowCountHonest'
    <3>1. ASSUME alive, request.order = order
          PROVE  LET m == Smaller(n, BlockSize)
                 IN  /\ answer.from = start /\ answer.order = order
                     /\ m = Smaller(BlockSize, length - start)
                     /\ answer.complete => n <= length
                     /\ ~answer.complete => start + BlockSize <= length
                     /\ ~(answer.complete /\ OpenBlock < RowBudget /\ RowBudget < length)
                     /\ answer.complete => n = length \/ (n < length /\ n >= RowBudget /\ told')
      <4>1. Smaller(n, BlockSize) = Smaller(BlockSize, length - start)
        BY <1>3, <1>4, <2>1, <2>2 DEF Smaller
      <4> HIDE DEF n, start
      <4> QED  BY <1>3, <1>4, <2>1, <2>2, <2>3, <3>1, <4>1
    <3> QED  BY <1>1, <1>3, <1>6, <2>3, <3>1, ShowsKeeps
  <2>5. PositionFits'
    <3>1. SUFFICES ASSUME sessionId' # 0 PROVE PositionFits'
      BY DEF PositionFits
    <3>2. ~answer.complete /\ sessionId' = id /\ position' = n
      BY <1>9, <3>1 DEF OpenAnswered
    <3>3. id \notin lost => position' = served[id] /\ (sorted[id] = order \/ known' = 1)
      BY <1>7, <1>8, <2>1, <2>2, <3>2
    <3> QED  BY <1>3, <1>4, <1>5, <2>1, <2>2, <3>2, <3>3 DEF PositionFits
  <2> QED  BY <1>2, <2>4, <2>5
<1>10. CASE FetchAnswered
  <2>1. /\ request.kind = "fetch" /\ (alive => sessionId # 0)
        /\ sessionId # 0 => id = sessionId /\ start = position
        /\ position' = position + n /\ sessionId' = sessionId
        /\ Shows(answer.complete, position + n) /\ (told => told') /\ (answer.truncated => told')
    BY <1>1, <1>10 DEF FetchAnswered, Answered, DatasourceInv, RequestFits
  <2>2. sessionId # 0 =>
          LET to == answer.from + n
          IN  /\ OpenBlock <= answer.from /\ start <= answer.from
              /\ answer.from < RowBudget /\ to <= RowBudget /\ to <= served[id]
              /\ n <= BlockSize /\ (answer.complete \/ n = BlockSize)
              /\ id \notin lost =>
                   /\ answer.from = start /\ to = served[id] /\ answer.order = sorted[id]
                   /\ \/ n = Smaller(BlockSize, length - answer.from)
                      \/ answer.complete /\ to = RowBudget /\ RowBudget < length
                   /\ answer.complete => to = length \/ (to = RowBudget /\ answer.truncated)
    BY <1>1, <2>1 DEF DatasourceInv, AnswerFits
  <2>3. sessionId # 0 =>
          /\ OpenBlock <= position /\ position <= served[sessionId] /\ id \in Sessions
          /\ sessionId \notin lost => sorted[sessionId] = order \/ known = 1
    BY <1>3, <2>1 DEF DatasourceInv, PositionFits
  <2>4. CacheFits' /\ RowCountHonest'
    <3>1. ASSUME alive, request.order = order
          PROVE  LET m == Smaller(n, BlockSize)
                     last == position + n
                 IN  /\ id \notin lost =>
                          /\ answer.from = start /\ answer.order = order
                          /\ \/ m = Smaller(BlockSize, length - start)
                             \/ /\ answer.complete /\ start + m = RowBudget /\ last <= RowBudget
                                /\ start < RowBudget
                                /\ RowBudget < length /\ OpenBlock < RowBudget
                     /\ last <= length /\ last <= RowBudget
                     /\ ~answer.complete => start + BlockSize <= length
                     /\ answer.complete /\ id \notin lost =>
                          last = length \/ (last < length /\ last >= RowBudget /\ told')
      <4>1. sessionId # 0 /\ id = sessionId /\ start = position /\ id \in Sessions
        BY <2>1, <2>3, <3>1
      <4>2. Smaller(n, BlockSize) = n
        BY <1>3, <1>4, <2>2, <4>1 DEF Smaller
      <4>3. id \notin lost => answer.order = order
        BY <1>3, <1>4, <1>7, <2>2, <2>3, <3>1, <4>1
      <4>4. served[id] \in Nat /\ served[id] <= length
        BY <1>3, <4>1
      <4> HIDE DEF n, start, id
      <4> QED  BY <1>3, <1>4, <2>1, <2>2, <4>1, <4>2, <4>3, <4>4
    <3>2. position + n \in Nat
      BY <1>3
    <3>3. lost = {} => id \notin lost
      OBVIOUS
    <3> QED  BY <1>1, <1>3, <1>6, <2>1, <3>1, <3>2, <3>3, ShowsKeeps
  <2>5. PositionFits'
    <3>1. SUFFICES ASSUME sessionId # 0 PROVE PositionFits'
      BY <2>1 DEF PositionFits
    <3>2. OpenBlock <= position' /\ position' <= served[sessionId]
      BY <1>3, <1>4, <2>1, <2>2, <2>3, <3>1
    <3>3. sessionId \notin lost =>
            position' = served[sessionId] /\ (sorted[sessionId] = order \/ known' = 1)
      <4>1. ASSUME sessionId \notin lost, known = 1, sorted[sessionId] # order PROVE known' = 1
        BY <1>3, <1>4, <1>7, <1>8, <2>1, <2>3, <3>1, <4>1
      <4> QED  BY <1>3, <2>1, <2>2, <2>3, <3>1, <4>1
    <3> QED  BY <1>5, <2>1, <3>2, <3>3 DEF PositionFits
  <2> QED  BY <1>2, <2>4, <2>5
<1>11. CASE PageAnswered
  <2>1. request.kind = "page" /\ answer = Page(request) /\ id = 0
        /\ Shows(answer.complete, start + n) /\ told' = told
    BY <1>1, <1>11 DEF PageAnswered, Answered, DatasourceInv, AnswerFits, RequestFits
  <2>2. /\ answer.from = start /\ answer.order = request.order
        /\ start <= length => n = Smaller(BlockSize, length - start)
        /\ answer.complete = (length <= start + BlockSize)
    BY <1>3, <2>1, PageFacts DEF DatasourceInv
  <2>3. CacheFits' /\ RowCountHonest'
    <3>1. ASSUME alive, request.order = order
          PROVE  LET m == Smaller(n, BlockSize)
                 IN  /\ answer.from = start /\ answer.order = order
                     /\ m = Smaller(BlockSize, length - start)
                     /\ answer.complete => start + n = length /\ start + BlockSize >= length
                     /\ ~answer.complete => start + BlockSize <= length
      <4>1. start <= length
        BY <1>3, <1>7, <3>1 DEF DatasourceInv, CacheFits
      <4>2. n = Smaller(BlockSize, length - start) /\ Smaller(n, BlockSize) = n
        BY <1>3, <1>4, <2>2, <4>1 DEF Smaller
      <4>3. answer.complete <=> length <= start + BlockSize
        BY <1>3, <2>2
      <4>4. length <= start + BlockSize => start + n = length
        BY <1>3, <1>4, <4>1, <4>2 DEF Smaller
      <4> HIDE DEF n, start
      <4> QED  BY <1>3, <1>4, <2>2, <3>1, <4>2, <4>3, <4>4
    <3>2. start + n \in Nat
      BY <1>3
    <3> QED  BY <1>1, <1>3, <1>6, <2>1, <3>1, <3>2, ShowsKeeps
  <2>4. PositionFits'
    <3>1. UNCHANGED <<sessionId, position>>
      BY <1>11 DEF PageAnswered
    <3>2. known = 1 => known' = 1 \/ request.order = order
      BY <1>8
    <3>3. ~(request.order = order /\ known = 1)
      BY <1>1, <1>3, <1>7, <2>1 DEF DatasourceInv, RequestFits
    <3> QED  BY <1>1, <1>5, <2>1, <3>1, <3>2, <3>3 DEF DatasourceInv, PositionFits
  <2> QED  BY <1>2, <2>3, <2>4
<1> QED  BY <1>9, <1>10, <1>11

LEMMA DatasourceSteps ==
  ASSUME BlockSize <= OpenBlock, DatasourceInv, [DatasourceNext]_datasourceVars
  PROVE  DatasourceInv'
<1>0. /\ ServerInv /\ DatasourceTypeOK /\ ServerInv' /\ DatasourceTypeOK'
      /\ OpenBlock \in Nat /\ OpenBlock > 0 /\ order \in Nat /\ known \in Nat /\ position \in Nat
      /\ length \in Nat
  BY ServerSteps, Sizes DEF DatasourceInv, ServerInv, DatasourceTypeOK
<1>a. SUFFICES RequestFits' /\ PositionFits' /\ AnswerFits' /\ CacheFits' /\ RowCountHonest'
  BY <1>0 DEF DatasourceInv
<1> DEFINE Goal == RequestFits' /\ PositionFits' /\ AnswerFits' /\ CacheFits' /\ RowCountHonest'
<1>b. request = Idle => answer = None /\ request.kind = "idle"
  BY <1>0 DEF DatasourceTypeOK, Idle
<1>1. ASSUME NEW start \in BlockStarts, GetForward(start) PROVE Goal
  <2>1. /\ alive /\ request = Idle /\ start < known /\ sessionId # 0 /\ start = position
        /\ request'.kind = "fetch" /\ request'.start = start /\ request'.order = order
        /\ request'.id = sessionId /\ answer' = None
        /\ UNCHANGED <<sessionId, position, grid, server, lost>>
    BY <1>1, <1>b DEF GetForward, Wanted, Forward, Sends
  <2>2. CacheFits' /\ RowCountHonest'
    BY <2>1, ShownIsKept DEF grid, server
  <2>3. IsStart(start) /\ start # 0
    BY <1>0, <2>1, StartsAreStarts DEF DatasourceInv, PositionFits
  <2>4. RequestFits'
    BY <1>0, <2>1, <2>3, StatusesDiffer DEF RequestFits, grid, IsStart
  <2>5. PositionFits'
    BY <1>b, <2>1 DEF DatasourceInv, PositionFits, grid, server
  <2>6. AnswerFits'
    BY <2>1, StatusesDiffer DEF AnswerFits
  <2> QED  BY <2>2, <2>4, <2>5, <2>6
<1>2. ASSUME NEW start \in BlockStarts, GetTop(start) PROVE Goal
  <2>1. /\ alive /\ request = Idle /\ 0 < known /\ sessionId' = 0
        /\ request'.kind = "open" /\ request'.start = 0 /\ request'.order = order
        /\ answer' = None /\ UNCHANGED <<grid, server, lost>>
    BY <1>2, <1>b DEF GetTop, Wanted, CloseSession, Sends
  <2>2. CacheFits' /\ RowCountHonest'
    BY <2>1, ShownIsKept DEF grid, server
  <2>3. IsStart(0)
    BY Sizes, <1>0 DEF IsStart
  <2>4. RequestFits'
    BY <1>0, <2>1, <2>3, StatusesDiffer DEF RequestFits, grid, IsStart
  <2>5. PositionFits' /\ AnswerFits'
    BY <2>1, StatusesDiffer DEF PositionFits, AnswerFits
  <2> QED  BY <2>2, <2>4, <2>5
<1>3. ASSUME NEW start \in BlockStarts, GetByOffset(start) PROVE Goal
  <2>1. /\ alive /\ request = Idle /\ start < known /\ start # 0
        /\ request'.kind = "page" /\ request'.start = start /\ request'.order = order
        /\ request'.id = 0 /\ answer' = None
        /\ UNCHANGED <<sessionId, position, grid, server, lost>>
    BY <1>3, <1>b DEF GetByOffset, Wanted, Sends
  <2>2. CacheFits' /\ RowCountHonest'
    BY <2>1, ShownIsKept DEF grid, server
  <2>3. IsStart(start)
    BY <1>0, StartsAreStarts
  <2>4. RequestFits'
    BY <1>0, <2>1, <2>3, StatusesDiffer DEF RequestFits, grid, IsStart
  <2>5. PositionFits' /\ AnswerFits'
    BY <1>b, <2>1, StatusesDiffer DEF DatasourceInv, PositionFits, AnswerFits, grid, server
  <2> QED  BY <2>2, <2>4, <2>5
<1>4. CASE Destroy
  <2>1. /\ sessionId' = 0 /\ ~alive'
        /\ UNCHANGED <<order, cache, known, ended, told, request, answer, length, served, sorted, lost>>
    BY <1>4 DEF Destroy, CloseSession, server
  <2>2. CacheFits' /\ RowCountHonest'
    BY <2>1, ShownIsKept
  <2>3. RequestFits' /\ PositionFits'
    BY <2>1 DEF DatasourceInv, RequestFits, PositionFits, IsStart
  <2>4. AnswerFits'
    BY <2>1 DEF DatasourceInv, AnswerFits, Page, FirstBlock
  <2> QED  BY <2>2, <2>3, <2>4
<1>5. CASE Sort
  <2>1. /\ order' = order + 1 /\ cache' = <<>> /\ known' = 1 /\ ended' = FALSE
        /\ UNCHANGED <<sessionId, position, alive, request, answer, length, served, sorted, lost>>
    BY <1>5 DEF Sort, server
  <2>2. CacheFits' /\ RowCountHonest'
    BY <1>0, <2>1 DEF CacheFits, RowCountHonest
  <2>3. RequestFits'
    <3>1. request # Idle => request.order \in Nat /\ request.order <= order
      BY <1>0, RequestType DEF DatasourceInv, RequestFits
    <3> QED  BY <1>0, <2>1, <3>1 DEF DatasourceInv, RequestFits, IsStart
  <2>4. PositionFits'
    BY <2>1 DEF DatasourceInv, PositionFits
  <2>5. AnswerFits'
    BY <2>1 DEF DatasourceInv, AnswerFits, Page, FirstBlock
  <2> QED  BY <2>2, <2>3, <2>4, <2>5
<1>6. CASE Serve
  BY <1>0, <1>6, ServeKeeps
<1>c. \A s \in Sessions : served[s] \in Nat /\ served'[s] \in Nat
  BY <1>0 DEF DatasourceTypeOK
<1>7. CASE ServeFails \/ Lose
  <2>1. /\ UNCHANGED <<sessionId, position, alive, order, cache, known, ended, told, request,
                       length, served, sorted>>
        /\ answer' = Failed /\ lost \subseteq lost'
    BY <1>7 DEF ServeFails, Lose, Loses, grid, server
  <2>2. ASSUME request.kind = "fetch", request.id \notin lost' PROVE answer = None
    <3>1. request.id \in 1..opens
      BY <1>0, <2>2 DEF ServerInv, OpensOnce
    <3> QED  BY <1>7, <2>2, <3>1, Sizes, <1>0 DEF ServeFails, Lose, Loses
  <2> QED  BY <1>c, <2>1, <2>2, SessionsMove
<1>8. ASSUME NEW call \in strays, ServeStray(call) PROVE Goal
  <2>1. Proper(call) /\ Executes(call) /\ length' = length /\ call.kind # "page" /\ call.id \in lost
    BY <1>0, <1>8, ProperCalls DEF ServeStray, ServerInv, OpensOnce
  <2>2. /\ \A s \in Sessions : s # call.id => served'[s] = served[s] /\ sorted'[s] = sorted[s]
        /\ \A s \in Sessions : served[s] <= served'[s]
    BY <1>0, <2>1, ExecutesKeeps
  <2>3. UNCHANGED <<sessionId, position, alive, order, cache, known, ended, told, request, answer,
                    length, lost>>
    BY <1>8 DEF ServeStray, grid
  <2>4. \A s \in Sessions \ lost' : served'[s] = served[s] /\ sorted'[s] = sorted[s]
    BY <2>1, <2>2, <2>3
  <2>5. request.kind = "fetch" /\ request.id \notin lost' /\ answer' = Failed => answer = Failed
    BY <2>3
  <2> QED  BY <1>c, <2>2, <2>3, <2>4, <2>5, SessionsMove
<1>9. ASSUME NEW s \in Sessions, Delete(s) \/ Reap(s) PROVE Goal
  <2>1. /\ UNCHANGED <<sessionId, position, alive, order, cache, known, ended, told, request, answer,
                       length, served, sorted>>
        /\ lost \subseteq lost'
    BY <1>9 DEF Delete, Reap, Loses, grid
  <2> QED  BY <1>c, <2>1, SessionsMove
<1>10. CASE OpenAnswered \/ FetchAnswered \/ PageAnswered
  BY <1>0, <1>10, CallbackKeeps
<1>11. CASE FetchGone
  <2>1. /\ request.kind = "fetch" /\ request \in GridCalls /\ request # Idle /\ sessionId' = 0
        /\ answer' = None /\ UNCHANGED <<grid, server, lost>>
        /\ request' = [request EXCEPT !.kind = "page", !.id = 0]
    BY <1>0, <1>11, KindsOfRequests, RequestType DEF FetchGone, Answered, CloseSession
  <2>2. /\ request'.kind = "page" /\ request'.start = request.start /\ request'.order = request.order
        /\ request'.id = 0
    BY <2>1 DEF GridCalls
  <2>3. CacheFits' /\ RowCountHonest'
    BY <2>1, ShownIsKept DEF grid, server
  <2>4. RequestFits'
    BY <2>1, <2>2, StatusesDiffer DEF DatasourceInv, RequestFits, grid, IsStart
  <2>5. PositionFits' /\ AnswerFits'
    BY <2>1, StatusesDiffer DEF PositionFits, AnswerFits
  <2> QED  BY <2>3, <2>4, <2>5
<1>12. CASE ErrorAnswered
  <2>1. /\ answer = Failed /\ request' = Idle /\ answer' = None
        /\ UNCHANGED <<sessionId, position, grid, server, lost>>
    BY <1>12 DEF ErrorAnswered, Settles
  <2>2. CacheFits' /\ RowCountHonest'
    BY <2>1, ShownIsKept DEF grid, server
  <2>3. RequestFits' /\ PositionFits' /\ AnswerFits'
    BY <2>1, StatusesDiffer DEF DatasourceInv, RequestFits, PositionFits, AnswerFits, grid, server
  <2> QED  BY <2>2, <2>3
<1>13. CASE UNCHANGED datasourceVars
  <2>1. UNCHANGED <<sessionId, position, alive, order, cache, known, ended, told, request, answer,
                    length, served, sorted, lost>>
    BY <1>13 DEF datasourceVars, grid, server
  <2> QED  BY <1>c, <2>1, SessionsMove
<1> QED
  BY <1>1, <1>2, <1>3, <1>4, <1>5, <1>6, <1>7, <1>8, <1>9, <1>10, <1>11, <1>12, <1>13
     DEF DatasourceNext

LEMMA InitDatasourceInv == DatasourceInit => DatasourceInv
<1> SUFFICES ASSUME DatasourceInit PROVE DatasourceInv
  OBVIOUS
<1>1. ServerInv
  BY InitServerInv
<1>2. RequestFits /\ PositionFits /\ AnswerFits
  BY StatusesDiffer DEF DatasourceInit, RequestFits, PositionFits, AnswerFits
<1>3. CacheFits /\ RowCountHonest
  BY <1>1 DEF DatasourceInit, CacheFits, RowCountHonest, ServerInv, DatasourceTypeOK
<1> QED  BY <1>1, <1>2, <1>3 DEF DatasourceInv

\* Requests, answers, the cache and the position fit together for any sizes of
\* which the first block is at least the grid's.
THEOREM DatasourceInvariant ==
  ASSUME BlockSize <= OpenBlock
  PROVE  DatasourceSpec => []DatasourceInv
<1>1. DatasourceInv /\ [DatasourceNext]_datasourceVars => DatasourceInv'
  BY DatasourceSteps
<1> QED  BY <1>1, InitDatasourceInv, PTL DEF DatasourceSpec

\* However large the result and whatever is lost, reaped, reloaded or sorted, the
\* grid shows the rows that belong where they are shown, and a final row count is
\* the result's or the user knows of the budget.
THEOREM TheResultIsShown ==
  ASSUME BlockSize <= OpenBlock
  PROVE  DatasourceSpec => []ShowsTheResult
<1>1. DatasourceInv => ShowsTheResult
  <2> SUFFICES ASSUME DatasourceInv PROVE ShowsTheResult
    OBVIOUS
  <2>1. ASSUME NEW s \in DOMAIN cache, cache[s].via \notin lost
        PROVE  /\ cache[s].from = s /\ cache[s].order = order
               /\ cache[s].n = Smaller(BlockSize, length - s) \/ (ended /\ s + cache[s].n >= known)
    <3>1. BlockFits(s)
      BY <2>1 DEF DatasourceInv, CacheFits
    <3>2. known \in Nat /\ RowBudget \in Nat
      BY Sizes DEF DatasourceInv, ServerInv, DatasourceTypeOK
    <3> QED  BY <3>1, <3>2 DEF BlockFits
  <2> QED  BY <2>1 DEF DatasourceInv, ShowsTheResult, BlocksHoldTheirRows
<1> QED  BY <1>1, DatasourceInvariant, PTL
=============================================================================
