-------------------------- MODULE SchemaMigration --------------------------
(***************************************************************************)
(* Comparing two live schemas and bringing one to the shape of the other:  *)
(* the change-set that diff.util.ts builds, the validation every candidate *)
(* goes through (SchemaDiffService, DdlService, the drivers' normalizers), *)
(* the comparison view that lists the survivors (SchemaDiffView) and the   *)
(* DDL request an applied change becomes, with other clients of the two    *)
(* databases.                                                              *)
(*                                                                         *)
(* A schema gives each table name a table or NoTable.  A column's type is  *)
(* the name that data_type reports, and extra is what else it was declared *)
(* with: length, precision, UNSIGNED, character set, ON UPDATE.  Left out: *)
(* a primary key's own index (every loop over indexes skips it),           *)
(* auto-increment, index methods and the order of an index's columns,      *)
(* referential actions, comments, and the index that MySQL makes for a     *)
(* foreign key without one.  A default on an allow-list is taken to be     *)
(* reported as it is written (a number, not the text of one).  The two     *)
(* schemas have the same name, on two connections.                         *)
(***************************************************************************)
EXTENDS Naturals, Sequences, SequencesExt

CONSTANTS
  TableOrder, ColumnOrder, IndexOrder, FkOrder,  \* names, in sorted order
  Values,        \* a column's types and defaults
  Known,         \* those on the drivers' allow-lists
  Sized,         \* types that MySQL does not take without a length
  Pairs,         \* the pairs of schemas that may be compared
  MaxLists,      \* bound: how often a migration is generated
  MaxDrifts      \* bound: changes made by other clients

VARIABLES
  engine,    \* of both connections (assertSameEngine)
  readOnly,  \* the sides whose connection is read-only
  db,        \* the two live schemas
  source,    \* the view's "source of truth" radio button
  gen,       \* the migration request under way
  list,      \* migration.data
  checked,   \* the rows whose box is ticked
  review,    \* ddlStore's pending change: an open DDL modal
  dialog,    \* the change whose danger confirmation is open
  call,      \* the DDL request under way
  lists, drifts

vars == <<engine, readOnly, db, source, gen, list, checked, review, dialog, call, lists, drifts>>

Sides == {"left", "right"}
Other(side) == IF side = "left" THEN "right" ELSE "left"

Tables == Range(TableOrder)
Columns == Range(ColumnOrder)

None == [kind |-> "none"]
NoTable == [kind |-> "no table"]
NoColumn == [kind |-> "no column"]
NoIndex == [kind |-> "no index"]
NoFk == [kind |-> "no foreign key"]

\* The attributes of a column and the parts of a table, whatever their values.
IsColumn(column) == DOMAIN column = {"nullable", "default", "type", "pk", "extra"}
IsTable(table) ==
  /\ DOMAIN table = {"columns", "indexes", "fks"}
  /\ DOMAIN table.columns = Columns
  /\ DOMAIN table.indexes = Range(IndexOrder) /\ DOMAIN table.fks = Range(FkOrder)
  /\ \A c \in Columns : table.columns[c] = NoColumn \/ IsColumn(table.columns[c])
IsSchema(schema) ==
  DOMAIN schema = Tables /\ \A t \in Tables : schema[t] = NoTable \/ IsTable(schema[t])

ASSUME PairsAssumption ==
  \A pair \in Pairs : DOMAIN pair = Sides /\ \A side \in Sides : IsSchema(pair[side])

\* The attributes an alterTable operation changes one at a time: setNotNull,
\* setDefault, changeType, in the order a list names them.
AttrOrder == <<"nullable", "default", "type">>
Attributes == {"nullable", "default", "type"}

-----------------------------------------------------------------------------
(* The change-set: buildSchemaDiff and buildMigrationCandidates.           *)

HasColumn(schema, t, c) == schema[t] # NoTable /\ schema[t].columns[c] # NoColumn

\* f[n] for each name n of a sequence, concatenated.
Concat(order, f(_)) == FlattenSeq([i \in DOMAIN order |-> f(order[i])])

CreateIndex(t, n, index) == [kind |-> "createIndex", table |-> t, name |-> n, index |-> index]
AddFk(t, n, fk) == [kind |-> "addForeignKey", table |-> t, name |-> n, fk |-> fk]

TableCandidates(t, s) ==
  LET Index(n) == IF s.indexes[n] = NoIndex THEN <<>> ELSE <<CreateIndex(t, n, s.indexes[n])>>
      Fk(n) == IF s.fks[n] = NoFk THEN <<>> ELSE <<AddFk(t, n, s.fks[n])>>
  IN <<[kind |-> "createTable", table |-> t, columns |-> s.columns]>>
       \o Concat(IndexOrder, Index) \o Concat(FkOrder, Fk)

ColumnCandidates(t, c, s, g) ==
  LET Attr(a) == IF s[a] = g[a] THEN <<>>
                 ELSE <<[kind |-> "set", table |-> t, column |-> c, attr |-> a, value |-> s[a]]>>
  IN CASE s = NoColumn /\ g = NoColumn -> <<>>
       [] s # NoColumn /\ g = NoColumn ->
            <<[kind |-> "addColumn", table |-> t, column |-> c, def |-> s]>>
       [] s = NoColumn /\ g # NoColumn -> <<[kind |-> "dropColumn", table |-> t, column |-> c]>>
       [] OTHER -> Concat(AttrOrder, Attr)

\* An index or foreign key both sides have is dropped and made again, whether it
\* differs or not.
Drops(kind, t, n, g, absent) ==
  IF g = absent THEN <<>> ELSE <<[kind |-> kind, table |-> t, name |-> n]>>
IndexCandidates(t, n, s, g) ==
  Drops("dropIndex", t, n, g, NoIndex) \o IF s = NoIndex THEN <<>> ELSE <<CreateIndex(t, n, s)>>
FkCandidates(t, n, s, g) ==
  Drops("dropForeignKey", t, n, g, NoFk) \o IF s = NoFk THEN <<>> ELSE <<AddFk(t, n, s)>>

MemberCandidates(t, s, g) ==
  LET Column(c) == ColumnCandidates(t, c, s.columns[c], g.columns[c])
      Index(n) == IndexCandidates(t, n, s.indexes[n], g.indexes[n])
      Fk(n) == FkCandidates(t, n, s.fks[n], g.fks[n])
  IN Concat(ColumnOrder, Column) \o Concat(IndexOrder, Index) \o Concat(FkOrder, Fk)

Candidates(src, target) ==
  LET Of(t) == CASE src[t] = NoTable /\ target[t] = NoTable -> <<>>
                 [] src[t] # NoTable /\ target[t] = NoTable -> TableCandidates(t, src[t])
                 [] src[t] = NoTable /\ target[t] # NoTable ->
                      <<[kind |-> "dropTable", table |-> t]>>
                 [] OTHER -> MemberCandidates(t, src[t], target[t])
  IN Concat(TableOrder, Of)

\* Mutant of IsDestructive: only data counts, not indexes and keys.
IsDestructiveOfData(change) == change.kind \in {"dropTable", "dropColumn"}

IsDestructive(change) == change.kind \in {"dropTable", "dropIndex", "dropColumn", "dropForeignKey"}

-----------------------------------------------------------------------------
(* DdlService: validation against the live metadata, then the statement.   *)

Supported(def) == {def.type, def.default} \subseteq Known

\* A statement on a column that is there; a new type or default is on the allow-list.
CanSet(schema, change) ==
  /\ change.attr \in Attributes
  /\ HasColumn(schema, change.table, change.column)
  /\ change.attr # "nullable" => change.value \in Known

\* MySQL restates the whole column, so the type it has now must be on the allow-list.
CanRestate(schema, change) ==
  engine = "mysql" => schema[change.table].columns[change.column].type \in Known

CanAlter(schema, change) ==
  LET t == change.table
  IN CASE change.kind = "addColumn" -> ~HasColumn(schema, t, change.column) /\ Supported(change.def)
       [] change.kind = "dropColumn" ->
            HasColumn(schema, t, change.column) /\ ~schema[t].columns[change.column].pk
       [] change.kind = "set" -> CanSet(schema, change) /\ CanRestate(schema, change)
       [] change.kind = "addForeignKey" -> HasColumn(schema, t, change.fk.column)
       [] change.kind = "dropForeignKey" -> TRUE
       [] OTHER -> FALSE

CanCreateTable(change) ==
  \A c \in Columns : change.columns[c] # NoColumn => Supported(change.columns[c])

CanDropTable(schema, change) == schema[change.table] # NoTable

CanCreateIndex(schema, change) ==
  \A c \in change.index.on : HasColumn(schema, change.table, c)

CanDropIndex(schema, change) ==
  schema[change.table] # NoTable /\ schema[change.table].indexes[change.name] # NoIndex

\* The checks of DdlService and of the drivers' normalizers, for a preview and for
\* the execution alike.  A table that does not exist has no columns.
Valid(schema, change) ==
  CASE change.kind = "createTable" -> CanCreateTable(change)
    [] change.kind = "dropTable" -> CanDropTable(schema, change)
    [] change.kind = "createIndex" -> CanCreateIndex(schema, change)
    [] change.kind = "dropIndex" -> CanDropIndex(schema, change)
    [] OTHER -> CanAlter(schema, change)

\* What MySQL makes of a default that is restated as it was reported.
ReadAs(default) == IF default \in Known THEN {default} ELSE Values

\* A column as a statement that names no more than the metadata do declares it.
Stated(column, default) == [column EXCEPT !.default = default, !.extra = FALSE]

\* Mutant of Restated: NOT NULL is not restated.
RestatedNullable(schema, change) ==
  IF change.kind # "set" THEN {None}
  ELSE LET column == schema[change.table].columns[change.column]
       IN {[Stated(column, d) EXCEPT !.nullable = TRUE] : d \in ReadAs(column.default)}

\* The column that MySQL restates: rebuilt from the metadata the request is validated
\* against, which name its type and no more.
Restated(schema, change) ==
  IF change.kind # "set" THEN {None}
  ELSE LET column == schema[change.table].columns[change.column]
       IN {Stated(column, d) : d \in ReadAs(column.default)}

\* PostgreSQL alters one attribute, and a new type comes without the old one's
\* declaration; MySQL puts base, the restated column, in the place of the old one.
Altered(column, change, base) ==
  LET Set(old) == [old EXCEPT ![change.attr] = change.value]
  IN IF engine = "mysql" THEN Set(base)
     ELSE IF change.attr = "type" THEN [Set(column) EXCEPT !.extra = FALSE] ELSE Set(column)

\* Table t has a foreign key to u.
Refers(schema, t, u) ==
  schema[t] # NoTable /\
    \E n \in Range(FkOrder) : schema[t].fks[n] # NoFk /\ schema[t].fks[n].table = u

\* Types are written by their name alone.
Writable(type) == engine = "mysql" => type \notin Sized

\* InnoDB keeps the columns of a foreign key, and the last index that serves one.
ForeignKeyColumns(table) ==
  {table.fks[f].column : f \in {g \in Range(FkOrder) : table.fks[g] # NoFk}}
CanLoseColumn(table, c) == engine = "mysql" => c \notin ForeignKeyColumns(table)
CanLoseIndex(table, n) ==
  LET Others == {m \in Range(IndexOrder) \ {n} : table.indexes[m] # NoIndex}
      Served == UNION {table.indexes[m].on : m \in Others}
                  \cup {c \in Columns : table.columns[c] # NoColumn /\ table.columns[c].pk}
  IN engine = "mysql" => ForeignKeyColumns(table) \cap table.indexes[n].on \subseteq Served

\* A set statement leaves a type that can be written, and a primary key not null.
AcceptsSet(column, change, base) ==
  /\ Writable(Altered(column, change, base).type)
  /\ change.attr = "nullable" /\ change.value => ~column.pk

\* What the database asks of a statement on a table that is there.
AcceptsMember(schema, change, base) ==
  LET t == change.table
  IN CASE change.kind = "addColumn" ->
            ~HasColumn(schema, t, change.column) /\ Writable(change.def.type)
       [] change.kind = "dropColumn" ->
            HasColumn(schema, t, change.column) /\ CanLoseColumn(schema[t], change.column)
       [] change.kind = "set" ->
            /\ HasColumn(schema, t, change.column)
            /\ AcceptsSet(schema[t].columns[change.column], change, base)
       [] change.kind = "createIndex" ->
            /\ schema[t].indexes[change.name] = NoIndex
            /\ \A c \in change.index.on : HasColumn(schema, t, c)
       [] change.kind = "dropIndex" ->
            schema[t].indexes[change.name] # NoIndex /\ CanLoseIndex(schema[t], change.name)
       [] change.kind = "addForeignKey" ->
            /\ schema[t].fks[change.name] = NoFk
            /\ HasColumn(schema, t, change.fk.column)
            /\ schema[change.fk.table] # NoTable
       [] OTHER -> schema[t].fks[change.name] # NoFk

\* What the database asks of any statement.  It may still refuse one: for the rows, for
\* what a key refers to, or for a default or an index it cannot make.
DbAccepts(schema, change, base) ==
  LET t == change.table
  IN CASE change.kind = "createTable" ->
            /\ schema[t] = NoTable
            /\ \A c \in Columns :
                 change.columns[c] # NoColumn => Writable(change.columns[c].type)
       [] change.kind = "dropTable" ->
            schema[t] # NoTable /\ \A u \in Tables \ {t} : ~Refers(schema, u, t)
       [] OTHER -> schema[t] # NoTable /\ AcceptsMember(schema, change, base)

\* A column as the drivers create it: a primary key is never nullable.
Created(def) ==
  [nullable |-> def.nullable /\ ~def.pk, default |-> def.default, type |-> def.type,
   pk |-> def.pk, extra |-> FALSE]

\* MySQL's ADD COLUMN does not mention the key.
Added(def) == [Created(def) EXCEPT !.pk = @ /\ engine # "mysql"]

\* PostgreSQL drops the indexes and foreign keys a column is in along with it; MySQL
\* takes it out of its indexes, which go with their last column.
WithoutColumn(table, c) ==
  LET Keeps(index) == index = NoIndex \/ c \notin index.on
      Rest(index) == IF engine = "mysql" /\ index.on # {c}
                     THEN [index EXCEPT !.on = @ \ {c}] ELSE NoIndex
  IN [columns |-> [table.columns EXCEPT ![c] = NoColumn],
      indexes |-> [n \in DOMAIN table.indexes |->
                     IF Keeps(table.indexes[n]) THEN table.indexes[n] ELSE Rest(table.indexes[n])],
      fks |-> [n \in DOMAIN table.fks |->
                 IF table.fks[n] # NoFk /\ table.fks[n].column = c THEN NoFk ELSE table.fks[n]]]

NewTable(columns) ==
  [columns |-> [c \in Columns |-> IF columns[c] = NoColumn THEN NoColumn ELSE Created(columns[c])],
   indexes |-> [n \in Range(IndexOrder) |-> NoIndex],
   fks |-> [n \in Range(FkOrder) |-> NoFk]]

\* The schema after a statement.
After(schema, change, base) ==
  LET t == change.table
  IN CASE change.kind = "createTable" -> [schema EXCEPT ![t] = NewTable(change.columns)]
       [] change.kind = "dropTable" -> [schema EXCEPT ![t] = NoTable]
       [] change.kind = "addColumn" ->
            [schema EXCEPT ![t].columns[change.column] = Added(change.def)]
       [] change.kind = "dropColumn" -> [schema EXCEPT ![t] = WithoutColumn(@, change.column)]
       [] change.kind = "set" ->
            [schema EXCEPT ![t].columns[change.column] = Altered(@, change, base)]
       [] change.kind = "createIndex" -> [schema EXCEPT ![t].indexes[change.name] = change.index]
       [] change.kind = "dropIndex" -> [schema EXCEPT ![t].indexes[change.name] = NoIndex]
       [] change.kind = "addForeignKey" -> [schema EXCEPT ![t].fks[change.name] = change.fk]
       [] OTHER -> [schema EXCEPT ![t].fks[change.name] = NoFk]

-----------------------------------------------------------------------------
(* The comparison view and the requests it makes.                          *)

NoModal == review = None /\ dialog = None

Init ==
  /\ engine \in {"postgresql", "mysql"}
  /\ readOnly \in {{}, {"right"}}
  /\ db \in Pairs
  /\ source = "left"
  /\ gen = None /\ list = None /\ checked = {}
  /\ review = None /\ dialog = None /\ call = None
  /\ lists = 0 /\ drifts = 0

\* The radio buttons stay enabled, and choosing one keeps the list.
SetSource ==
  /\ NoModal
  /\ source' = Other(source)
  /\ UNCHANGED <<engine, readOnly, db, gen, list, checked, review, dialog, call, lists, drifts>>

\* handleGenerateMigration: useMutation forgets the previous answer, and the server
\* compares the two schemas as they are now.
Generate ==
  /\ NoModal /\ gen = None /\ lists < MaxLists
  /\ gen' = [kind |-> "gen", target |-> Other(source), done |-> <<>>,
             todo |-> Candidates(db[source], db[Other(source)])]
  /\ list' = None /\ lists' = lists + 1
  /\ UNCHANGED <<engine, readOnly, db, source, checked, review, dialog, call, drifts>>

Survives(change, side) == side \notin readOnly /\ Valid(db[side], change)

\* One round of generateMigration's loop: a candidate the preview refuses, for
\* whatever reason, is left out with a line in the log.
PreviewOne ==
  /\ gen # None /\ gen.todo # <<>>
  /\ LET change == Head(gen.todo)
     IN gen' = [gen EXCEPT !.todo = Tail(@),
                           !.done = IF Survives(change, gen.target) THEN Append(@, change) ELSE @]
  /\ UNCHANGED <<engine, readOnly, db, source, list, checked, review, dialog, call, lists, drifts>>

\* The answer: rows that remove nothing start ticked.  It names no connection; target
\* is the side it was made for.
Answer ==
  /\ gen # None /\ gen.todo = <<>>
  /\ list' = [kind |-> "list", target |-> gen.target, items |-> gen.done]
  /\ checked' = {i \in DOMAIN gen.done : ~IsDestructive(gen.done[i])}
  /\ gen' = None
  /\ UNCHANGED <<engine, readOnly, db, source, review, dialog, call, lists, drifts>>

\* Clearing a box again is left out: a ticked row need not be applied.
Tick(i) ==
  /\ NoModal /\ list # None /\ i \in DOMAIN list.items \ checked
  /\ checked' = checked \cup {i}
  /\ UNCHANGED <<engine, readOnly, db, source, gen, list, review, dialog, call, lists, drifts>>

\* applyItem: the change is for the side that is the target when the row is clicked.
Opened(i) == [kind |-> "open", row |-> i, side |-> Other(source), target |-> list.target,
              change |-> list.items[i]]

Clickable(i) ==
  /\ NoModal /\ list # None /\ i \in DOMAIN list.items \cap checked
  /\ call # None => call.row # i

Review(i) ==
  /\ Clickable(i) /\ ~IsDestructive(list.items[i])
  /\ review' = Opened(i)
  /\ UNCHANGED <<engine, readOnly, db, source, gen, list, checked, dialog, call, lists, drifts>>

AskToApply(i) ==
  /\ Clickable(i) /\ IsDestructive(list.items[i])
  /\ dialog' = Opened(i)
  /\ UNCHANGED <<engine, readOnly, db, source, gen, list, checked, review, call, lists, drifts>>

Send(opened, confirmed) ==
  [kind |-> "sent", row |-> opened.row, side |-> opened.side, target |-> opened.target,
   change |-> opened.change, confirmed |-> confirmed, base |-> None]

\* The danger dialog is answered.  One request at a time is under way (a bound).
Confirm ==
  /\ dialog # None /\ call = None
  /\ call' = Send(dialog, TRUE) /\ dialog' = None
  /\ UNCHANGED <<engine, readOnly, db, source, gen, list, checked, review, lists, drifts>>

Refuse ==
  /\ dialog # None
  /\ dialog' = None
  /\ UNCHANGED <<engine, readOnly, db, source, gen, list, checked, review, call, lists, drifts>>

\* DdlSuggestionHost has a modal for every change but a drop; the seeded fields are
\* submitted as they are.
SubmitModal ==
  /\ review # None /\ ~IsDestructive(review.change) /\ call = None
  /\ call' = Send(review, FALSE)
  /\ UNCHANGED <<engine, readOnly, db, source, gen, list, checked, review, dialog, lists, drifts>>

CloseModal ==
  /\ review # None
  /\ review' = None
  /\ UNCHANGED <<engine, readOnly, db, source, gen, list, checked, dialog, call, lists, drifts>>

\* The API reads the metadata it validates the request against...
Validate ==
  /\ call # None /\ call.kind = "sent"
  /\ \/ /\ Survives(call.change, call.side)
        /\ \E base \in Restated(db[call.side], call.change) :
             call' = [call EXCEPT !.kind = "valid", !.base = base]
     \/ /\ ~Survives(call.change, call.side)
        /\ call' = None
  /\ UNCHANGED <<engine, readOnly, db, source, gen, list, checked, review, dialog, lists, drifts>>

\* ...and then runs the statement.  The modal closes on success.
Execute ==
  /\ call # None /\ call.kind = "valid"
  /\ \/ /\ DbAccepts(db[call.side], call.change, call.base)
        /\ db' = [db EXCEPT ![call.side] = After(@, call.change, call.base)]
        /\ review' = IF call.confirmed THEN review ELSE None
     \/ UNCHANGED <<db, review>>
  /\ call' = None
  /\ UNCHANGED <<engine, readOnly, source, gen, list, checked, dialog, lists, drifts>>

\* Another client alters a column, or drops it.
Drift(side, t, c) ==
  /\ drifts < MaxDrifts /\ HasColumn(db[side], t, c) /\ ~db[side][t].columns[c].pk
  /\ \/ db' = [db EXCEPT ![side][t].columns[c].nullable = ~@]
     \/ CanLoseColumn(db[side][t], c) /\ db' = [db EXCEPT ![side][t] = WithoutColumn(@, c)]
  /\ drifts' = drifts + 1
  /\ UNCHANGED <<engine, readOnly, source, gen, list, checked, review, dialog, call, lists>>

Next ==
  \/ SetSource \/ Generate \/ PreviewOne \/ Answer
  \/ \E i \in (IF list = None THEN {} ELSE DOMAIN list.items) :
       Tick(i) \/ Review(i) \/ AskToApply(i)
  \/ Confirm \/ Refuse \/ SubmitModal \/ CloseModal \/ Validate \/ Execute
  \/ \E side \in Sides, t \in Tables, c \in Columns : Drift(side, t, c)

Spec == Init /\ [][Next]_vars

-----------------------------------------------------------------------------
ColumnType ==
  [nullable : BOOLEAN, default : Values, type : Values, pk : BOOLEAN, extra : BOOLEAN]

\* Every table keeps the shape of one, and a tick is on a row of some list.
TypeOK ==
  /\ source \in Sides /\ lists \in 0..MaxLists /\ drifts \in 0..MaxDrifts
  /\ \A side \in Sides, t \in Tables : db[side][t] # NoTable =>
       /\ db[side][t].columns \in [Columns -> ColumnType \cup {NoColumn}]
       /\ \A n \in Range(IndexOrder) : db[side][t].indexes[n] # NoIndex =>
            \A c \in db[side][t].indexes[n].on : HasColumn(db[side], t, c)
       /\ \A n \in Range(FkOrder) : db[side][t].fks[n] # NoFk =>
            HasColumn(db[side], t, db[side][t].fks[n].column)

\* Something a schema had is gone.
Removes(before, after) ==
  \E t \in Tables : before[t] # NoTable /\
    \/ after[t] = NoTable
    \/ \E c \in Columns : before[t].columns[c] # NoColumn /\ after[t].columns[c] = NoColumn
    \/ \E n \in Range(IndexOrder) : before[t].indexes[n] # NoIndex /\ after[t].indexes[n] = NoIndex
    \/ \E n \in Range(FkOrder) : before[t].fks[n] # NoFk /\ after[t].fks[n] = NoFk

\* A table, column, index or foreign key leaves a schema only by another client's hand
\* or by a row of the list whose danger dialog was confirmed.
RemovalWasConfirmed ==
  [][\A side \in Sides : Removes(db[side], db'[side]) =>
       drifts' # drifts \/ (call.confirmed /\ call.side = side)]_vars

\* What an alteration of one attribute leaves of a column.  PostgreSQL keeps all others,
\* but for the declaration of a type that is replaced.  MySQL keeps the nullability, the
\* type's name, the key and a default on the allow-list, and nothing of the declaration:
\* DECIMAL(12,4) becomes DECIMAL, INT UNSIGNED becomes INT.
KeepsTheRest(before, after, change) ==
  /\ DOMAIN after = DOMAIN before
  /\ after[change.attr] = change.value
  /\ \A a \in {"nullable", "type", "pk"} \ {change.attr} : after[a] = before[a]
  /\ change.attr = "default" \/ after.default = before.default
       \/ (engine = "mysql" /\ before.default \notin Known)
  /\ IF engine = "mysql" \/ change.attr = "type" THEN ~after.extra ELSE after.extra = before.extra

\* An alteration keeps the rest of its column; only MySQL undoes another client's change
\* to it, and only one made between the request's validation and its statement.
AlterKeepsTheRest ==
  [][\A side \in Sides, t \in Tables, c \in Columns :
       /\ drifts' = drifts
       /\ HasColumn(db[side], t, c) /\ HasColumn(db'[side], t, c)
       /\ db'[side][t].columns[c] # db[side][t].columns[c]
       => \/ KeepsTheRest(db[side][t].columns[c], db'[side][t].columns[c], call.change)
          \/ /\ engine = "mysql" /\ drifts > 0
             /\ call.base \notin Restated(db[side], call.change)]_vars

\* The kinds of changes the API takes.
Kinds == {"createTable", "dropTable", "addColumn", "dropColumn", "set", "createIndex", "dropIndex",
          "addForeignKey", "dropForeignKey"}

\* The inductive strengthening behind the two: a request for something destructive was
\* confirmed, and one that has been validated restates the column as it was then.
CallFits ==
  call # None =>
    /\ DOMAIN call = {"kind", "row", "side", "target", "change", "confirmed", "base"}
    /\ IsDestructive(call.change) => call.confirmed
    /\ call.kind = "valid" => call.change.kind \in Kinds
    /\ \A side \in Sides, t \in Tables, c \in Columns :
         /\ call.kind = "valid" /\ call.change.kind = "set"
         /\ call.side = side /\ call.change.table = t /\ call.change.column = c
         => /\ IsColumn(call.base) /\ call.change.attr \in Attributes
            /\ drifts = 0 => call.base \in Restated(db[side], call.change)

SchemasFit ==
  /\ drifts \in Nat
  /\ DOMAIN db = Sides /\ \A side \in Sides : IsSchema(db[side])

MigrationInv == SchemasFit /\ CallFits

-----------------------------------------------------------------------------
\* What the repository says of the list and the code does not keep.

\* diff.util.ts: the change-set reconciles the other side to match the source.  A
\* change reaches the side it was generated for.
AppliedWhereGenerated ==
  [][\A side \in Sides : db'[side] # db[side] /\ drifts' = drifts => call.target = side]_vars
=============================================================================
