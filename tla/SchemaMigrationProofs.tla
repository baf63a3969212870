----------------------- MODULE SchemaMigrationProofs -----------------------
(***************************************************************************)
(* Proofs about SchemaMigration, for any names, any pairs of schemas and   *)
(* any lists of changes: what a list holds is not used.                    *)
(***************************************************************************)
EXTENDS SchemaMigration, TLAPS

\* A table's parts are not what stands for no table, nor a column's attributes what
\* stands for no column.
LEMMA NothingIsNeither ==
  /\ \A column : IsColumn(column) => column # NoColumn
  /\ \A table : IsTable(table) => table # NoTable
<1>1. DOMAIN NoColumn = {"kind"} /\ DOMAIN NoTable = {"kind"}
  BY DEF NoColumn, NoTable
<1>2. QED
  BY <1>1 DEF IsColumn, IsTable

\* Two schemas agree on a table's members, up to those in one part under one name.
AgreeBut(before, after, t, part, n) ==
  /\ DOMAIN after = Tables
  /\ \A u \in Tables : u # t => after[u] = before[u]
  /\ t \in Tables =>
       /\ DOMAIN after[t] = DOMAIN before[t]
       /\ \A p \in DOMAIN before[t] :
            /\ DOMAIN after[t][p] = DOMAIN before[t][p]
            /\ \A m \in DOMAIN before[t][p] :
                 ~(p = part /\ m = n) => after[t][p][m] = before[t][p][m]

\* A schema that agrees with another but for one member is a schema, if that member is.
LEMMA AgreementFits ==
  ASSUME NEW schema, IsSchema(schema), NEW after, NEW t, schema[t] # NoTable,
         NEW part, NEW n, AgreeBut(schema, after, t, part, n),
         part = "columns" /\ t \in Tables /\ n \in Columns =>
           IsColumn(after[t].columns[n]) \/ after[t].columns[n] = NoColumn
  PROVE  IsSchema(after)
BY DEF IsSchema, IsTable, AgreeBut

\* Without a drop, a statement that the database accepts removes nothing and changes no
\* column but the one it sets.
LEMMA MembersAdded ==
  ASSUME NEW schema, IsSchema(schema), NEW change, NEW base, DbAccepts(schema, change, base),
         change.kind \in Kinds \ {"createTable", "dropTable", "dropColumn"},
         engine = "mysql" /\ change.kind = "set"
           /\ change.table \in Tables /\ change.column \in Columns => IsColumn(base)
  PROVE  LET after == After(schema, change, base)
         IN /\ IsSchema(after)
            /\ Removes(schema, after) => IsDestructive(change)
            /\ \A t \in Tables, c \in Columns :
                 /\ HasColumn(schema, t, c) /\ HasColumn(after, t, c)
                 /\ after[t].columns[c] # schema[t].columns[c]
                 => /\ change.kind = "set" /\ change.table = t /\ change.column = c
                    /\ after[t].columns[c] = Altered(schema[t].columns[c], change, base)
<1> DEFINE t == change.table
           after == After(schema, change, base)
           Fits == /\ IsSchema(after)
                   /\ Removes(schema, after) => IsDestructive(change)
                   /\ \A u \in Tables, c \in Columns :
                        /\ HasColumn(schema, u, c) /\ HasColumn(after, u, c)
                        /\ after[u].columns[c] # schema[u].columns[c]
                        => /\ change.kind = "set" /\ t = u /\ change.column = c
                           /\ after[u].columns[c] = Altered(schema[u].columns[c], change, base)
<1>1. schema[t] # NoTable /\ AcceptsMember(schema, change, base)
  BY DEF DbAccepts
<1>2. ASSUME NEW part, NEW n, AgreeBut(schema, after, t, part, n),
             part = "columns" /\ t \in Tables /\ n \in Columns =>
               /\ IsColumn(after[t].columns[n])
               /\ HasColumn(schema, t, n) =>
                    /\ change.kind = "set" /\ change.column = n
                    /\ after[t].columns[n] = Altered(schema[t].columns[n], change, base),
             part = "indexes" /\ t \in Tables /\ n \in Range(IndexOrder)
               /\ schema[t].indexes[n] # NoIndex /\ ~IsDestructive(change)
               => after[t].indexes[n] # NoIndex,
             part = "fks" /\ t \in Tables /\ n \in Range(FkOrder)
               /\ schema[t].fks[n] # NoFk /\ ~IsDestructive(change)
               => after[t].fks[n] # NoFk
      PROVE  Fits
  <2>1. IsSchema(after)
    BY <1>1, <1>2, AgreementFits
  <2>2. ASSUME NEW u \in Tables, IsTable(schema[u]), ~IsDestructive(change)
        PROVE  /\ after[u] # NoTable
               /\ \A c \in Columns :
                    schema[u].columns[c] # NoColumn => after[u].columns[c] # NoColumn
               /\ \A m \in Range(IndexOrder) :
                    schema[u].indexes[m] # NoIndex => after[u].indexes[m] # NoIndex
               /\ \A m \in Range(FkOrder) :
                    schema[u].fks[m] # NoFk => after[u].fks[m] # NoFk
    <3>1. after[u] # NoTable
      <4>1. DOMAIN after[u] = DOMAIN schema[u]
        BY <1>2 DEF AgreeBut
      <4>2. DOMAIN schema[u] = {"columns", "indexes", "fks"}
        BY <2>2 DEF IsTable
      <4>3. DOMAIN NoTable = {"kind"}
        BY DEF NoTable
      <4>4. QED
        BY <4>1, <4>2, <4>3
    <3>2. \A c \in Columns :
            schema[u].columns[c] # NoColumn => after[u].columns[c] # NoColumn
      BY <1>2, <2>2, NothingIsNeither DEF AgreeBut, IsTable, IsSchema, HasColumn
    <3>3. \A m \in Range(IndexOrder) :
            schema[u].indexes[m] # NoIndex => after[u].indexes[m] # NoIndex
      BY <1>2, <2>2, NothingIsNeither DEF AgreeBut, IsTable, IsSchema
    <3>4. \A m \in Range(FkOrder) : schema[u].fks[m] # NoFk => after[u].fks[m] # NoFk
      BY <1>2, <2>2, NothingIsNeither DEF AgreeBut, IsTable, IsSchema
    <3>5. QED
      BY <3>1, <3>2, <3>3, <3>4
  <2>3. Removes(schema, after) => IsDestructive(change)
    BY <2>2 DEF Removes, IsSchema
  <2>4. QED
    BY <1>1, <1>2, <2>1, <2>3 DEF AgreeBut, IsTable, IsSchema, HasColumn
<1> HIDE DEF Fits
<1>3. ASSUME change.kind = "addColumn" PROVE Fits
  <2>1. after = [schema EXCEPT ![t].columns[change.column] = Added(change.def)]
    BY <1>3 DEF After
  <2>2. IsColumn(Added(change.def)) /\ ~HasColumn(schema, t, change.column)
    BY <1>1, <1>3 DEF Added, Created, IsColumn, AcceptsMember
  <2> HIDE DEF after, t
  <2>3. /\ AgreeBut(schema, after, t, "columns", change.column)
        /\ t \in Tables /\ change.column \in Columns
             => after[t].columns[change.column] = Added(change.def)
    BY <1>1, <2>1 DEF IsSchema, IsTable, AgreeBut
  <2>5. QED
    BY <1>2, <2>2, <2>3
<1>4. ASSUME change.kind = "set" PROVE Fits
  <2> DEFINE column == schema[t].columns[change.column]
  <2>1. after = [schema EXCEPT ![t].columns[change.column] = Altered(column, change, base)]
    BY <1>4 DEF After
  <2>2. t \in Tables /\ change.column \in Columns => IsColumn(Altered(column, change, base))
    BY <1>1, <1>4 DEF Altered, IsColumn, AcceptsMember, HasColumn, IsSchema, IsTable
  <2> HIDE DEF after, t
  <2>3. /\ AgreeBut(schema, after, t, "columns", change.column)
        /\ t \in Tables /\ change.column \in Columns
             => after[t].columns[change.column] = Altered(column, change, base)
    BY <1>1, <2>1 DEF IsSchema, IsTable, AgreeBut
  <2>4. QED
    BY <1>2, <1>4, <2>2, <2>3
<1>5. ASSUME change.kind = "createIndex" PROVE Fits
  <2>1. after = [schema EXCEPT ![t].indexes[change.name] = change.index]
    BY <1>5 DEF After
  <2>2. schema[t].indexes[change.name] = NoIndex
    BY <1>1, <1>5 DEF AcceptsMember
  <2> HIDE DEF after, t
  <2>3. AgreeBut(schema, after, t, "indexes", change.name)
    BY <1>1, <2>1 DEF IsSchema, IsTable, AgreeBut
  <2>4. QED
    BY <1>2, <2>2, <2>3
<1>6. ASSUME change.kind = "dropIndex" PROVE Fits
  <2>1. after = [schema EXCEPT ![t].indexes[change.name] = NoIndex]
    BY <1>6 DEF After
  <2> HIDE DEF after, t
  <2>2. AgreeBut(schema, after, t, "indexes", change.name) /\ IsDestructive(change)
    BY <1>1, <1>6, <2>1 DEF IsSchema, IsTable, AgreeBut, IsDestructive
  <2>3. QED
    BY <1>2, <2>2
<1>7. ASSUME change.kind = "addForeignKey" PROVE Fits
  <2>1. after = [schema EXCEPT ![t].fks[change.name] = change.fk]
    BY <1>7 DEF After
  <2>2. schema[t].fks[change.name] = NoFk
    BY <1>1, <1>7 DEF AcceptsMember
  <2> HIDE DEF after, t
  <2>3. AgreeBut(schema, after, t, "fks", change.name)
    BY <1>1, <2>1 DEF IsSchema, IsTable, AgreeBut
  <2>4. QED
    BY <1>2, <2>2, <2>3
<1>8. ASSUME change.kind = "dropForeignKey" PROVE Fits
  <2>1. after = [schema EXCEPT ![t].fks[change.name] = NoFk]
    BY <1>8 DEF After
  <2> HIDE DEF after, t
  <2>2. AgreeBut(schema, after, t, "fks", change.name) /\ IsDestructive(change)
    BY <1>1, <1>8, <2>1 DEF IsSchema, IsTable, AgreeBut, IsDestructive
  <2>3. QED
    BY <1>2, <2>2
<1>9. Fits
  BY <1>3, <1>4, <1>5, <1>6, <1>7, <1>8 DEF Kinds
<1>10. QED
  BY <1>9 DEF Fits

\* A column that is dropped leaves a table with the others.
LEMMA ColumnDropped ==
  ASSUME NEW table, IsTable(table), NEW c
  PROVE  /\ IsTable(WithoutColumn(table, c))
         /\ \A d \in Columns : WithoutColumn(table, c).columns[d] \in {table.columns[d], NoColumn}
BY DEF IsTable, WithoutColumn

\* A table made from any columns is one.
LEMMA TableCreated ==
  ASSUME NEW columns
  PROVE  IsTable(NewTable(columns))
BY DEF NewTable, Created, IsTable, IsColumn

\* A statement that replaces a table, or takes it or a column away.
LEMMA TableReplaced ==
  ASSUME NEW schema, IsSchema(schema), NEW change, NEW base, DbAccepts(schema, change, base),
         change.kind \in {"createTable", "dropTable", "dropColumn"}
  PROVE  LET after == After(schema, change, base)
         IN /\ IsSchema(after)
            /\ Removes(schema, after) => IsDestructive(change)
            /\ \A t \in Tables, c \in Columns :
                 HasColumn(schema, t, c) /\ HasColumn(after, t, c)
                 => after[t].columns[c] = schema[t].columns[c]
<1> DEFINE t == change.table
           after == After(schema, change, base)
<1>1. PICK table : after = [schema EXCEPT ![t] = table]
  BY DEF After
<1>2. /\ DOMAIN after = Tables
      /\ \A u \in Tables : after[u] = IF u = t THEN table ELSE schema[u]
  <2> HIDE DEF after, t
  <2>1. QED
    BY <1>1 DEF IsSchema
<1>3. CASE change.kind = "createTable"
  <2>1. schema[t] = NoTable
    BY <1>3 DEF DbAccepts
  <2>2. t \in Tables => IsTable(after[t])
    <3>1. after = [schema EXCEPT ![t] = NewTable(change.columns)]
      BY <1>3 DEF After
    <3>2. IsTable(NewTable(change.columns))
      BY TableCreated
    <3> HIDE DEF after, t
    <3>3. QED
      BY <3>1, <3>2 DEF IsSchema
  <2> HIDE DEF after, t
  <2>3. /\ IsSchema(after) /\ ~Removes(schema, after)
        /\ \A u \in Tables, c \in Columns :
             HasColumn(schema, u, c) => after[u].columns[c] = schema[u].columns[c]
    BY <1>2, <2>1, <2>2 DEF IsSchema, Removes, HasColumn
  <2>4. QED
    BY <2>3 DEF after
<1>4. CASE change.kind = "dropTable"
  <2>1. IsDestructive(change)
    BY <1>4 DEF IsDestructive
  <2>2. t \in Tables => after[t] = NoTable
    <3>1. after = [schema EXCEPT ![t] = NoTable]
      BY <1>4 DEF After
    <3> HIDE DEF after, t
    <3>2. QED
      BY <3>1 DEF IsSchema
  <2> HIDE DEF after, t
  <2>3. /\ IsSchema(after)
        /\ \A u \in Tables, c \in Columns :
             HasColumn(after, u, c) => after[u].columns[c] = schema[u].columns[c]
    BY <1>2, <2>2 DEF IsSchema, HasColumn
  <2>4. QED
    BY <2>1, <2>3 DEF after
<1>5. CASE change.kind = "dropColumn"
  <2>1. IsDestructive(change) /\ schema[t] # NoTable
    BY <1>5 DEF IsDestructive, DbAccepts
  <2>2. t \in Tables => /\ IsTable(schema[t])
                        /\ after[t] = WithoutColumn(schema[t], change.column)
    <3>1. after = [schema EXCEPT ![t] = WithoutColumn(schema[t], change.column)]
      BY <1>5 DEF After
    <3> HIDE DEF after, t
    <3>2. QED
      BY <2>1, <3>1 DEF IsSchema
  <2> HIDE DEF after, t
  <2>3. t \in Tables => /\ IsTable(after[t])
                        /\ \A d \in Columns : after[t].columns[d] \in {schema[t].columns[d], NoColumn}
    BY <2>2, ColumnDropped
  <2>4. /\ IsSchema(after)
        /\ \A u \in Tables, c \in Columns :
             HasColumn(after, u, c) => after[u].columns[c] = schema[u].columns[c]
    BY <1>2, <2>3 DEF IsSchema, HasColumn
  <2>5. QED
    BY <2>1, <2>4 DEF after
<1>6. QED
  BY <1>3, <1>4, <1>5

\* A statement takes a schema to a schema, removes nothing unless it is destructive, and
\* changes no column but the one it sets.
LEMMA StatementFits ==
  ASSUME NEW schema, IsSchema(schema), NEW change, NEW base, DbAccepts(schema, change, base),
         change.kind \in Kinds,
         engine = "mysql" /\ change.kind = "set"
           /\ change.table \in Tables /\ change.column \in Columns => IsColumn(base)
  PROVE  LET after == After(schema, change, base)
         IN /\ IsSchema(after)
            /\ Removes(schema, after) => IsDestructive(change)
            /\ \A t \in Tables, c \in Columns :
                 /\ HasColumn(schema, t, c) /\ HasColumn(after, t, c)
                 /\ after[t].columns[c] # schema[t].columns[c]
                 => /\ change.kind = "set" /\ change.table = t /\ change.column = c
                    /\ after[t].columns[c] = Altered(schema[t].columns[c], change, base)
<1>1. CASE change.kind \in {"createTable", "dropTable", "dropColumn"}
  BY <1>1, TableReplaced
<1>2. CASE change.kind \in Kinds \ {"createTable", "dropTable", "dropColumn"}
  BY <1>2, MembersAdded
<1>3. QED
  BY <1>1, <1>2

-----------------------------------------------------------------------------
(* The steps.                                                              *)

\* Every step but Execute and Drift leaves the schemas alone.
LEMMA OthersLook ==
  [Next]_vars =>
    \/ UNCHANGED <<engine, db, drifts>>
    \/ Execute
    \/ \E side \in Sides, t \in Tables, c \in Columns : Drift(side, t, c)
BY DEF Next, vars, SetSource, Generate, PreviewOne, Answer, Tick, Review, AskToApply, Confirm,
       Refuse, SubmitModal, CloseModal, Validate

\* What a statement that runs does to the two schemas.
LEMMA ExecuteFits ==
  ASSUME SchemasFit, CallFits, Execute, db' # db
  PROVE  /\ DOMAIN db' = Sides /\ \A side \in Sides : IsSchema(db'[side])
         /\ \A side \in Sides : Removes(db[side], db'[side]) =>
              IsDestructive(call.change) /\ call.side = side
         /\ \A side \in Sides, t \in Tables, c \in Columns :
              /\ HasColumn(db[side], t, c) /\ HasColumn(db'[side], t, c)
              /\ db'[side][t].columns[c] # db[side][t].columns[c]
              => /\ call.side = side /\ call.change.table = t /\ call.change.column = c
                 /\ call.kind = "valid" /\ call.change.kind = "set"
                 /\ db'[side][t].columns[c]
                      = Altered(db[side][t].columns[c], call.change, call.base)
<1> DEFINE s == call.side
           after == After(db[s], call.change, call.base)
<1>1. /\ DbAccepts(db[s], call.change, call.base) /\ db' = [db EXCEPT ![s] = after]
      /\ call # None /\ call.kind = "valid"
  BY DEF Execute
<1>2. ASSUME NEW side \in Sides, side # s PROVE db'[side] = db[side]
  BY <1>1, <1>2 DEF SchemasFit
<1>3. ASSUME s \in Sides
      PROVE  /\ db'[s] = after
             /\ IsSchema(after)
             /\ Removes(db[s], after) => IsDestructive(call.change)
             /\ \A t \in Tables, c \in Columns :
                  /\ HasColumn(db[s], t, c) /\ HasColumn(after, t, c)
                  /\ after[t].columns[c] # db[s][t].columns[c]
                  => /\ call.change.kind = "set" /\ call.change.table = t
                     /\ call.change.column = c
                     /\ after[t].columns[c] = Altered(db[s][t].columns[c], call.change, call.base)
  <2>1. call.change.kind = "set" /\ call.change.table \in Tables /\ call.change.column \in Columns
          => IsColumn(call.base)
    BY <1>1, <1>3 DEF CallFits
  <2>2. IsSchema(db[s]) /\ call.change.kind \in Kinds
    BY <1>1, <1>3 DEF CallFits, SchemasFit
  <2>3. db'[s] = after
    BY <1>1, <1>3 DEF SchemasFit
  <2>4. QED
    BY <1>1, <2>1, <2>2, <2>3, StatementFits
<1> HIDE DEF after
<1>4. DOMAIN db' = Sides
  BY <1>1 DEF SchemasFit
<1>5. \A schema : ~Removes(schema, schema)
  BY DEF Removes
<1>6. QED
  BY <1>1, <1>2, <1>3, <1>4, <1>5 DEF SchemasFit

\* What another client does to them.
LEMMA DriftFits ==
  ASSUME SchemasFit, NEW side \in Sides, NEW t \in Tables, NEW c \in Columns, Drift(side, t, c)
  PROVE  SchemasFit' /\ drifts' # drifts /\ drifts' # 0
<1>1. IsTable(db[side][t]) /\ IsColumn(db[side][t].columns[c])
  BY DEF Drift, SchemasFit, IsSchema, IsTable, HasColumn
<1>2. drifts' \in Nat /\ drifts' # drifts /\ drifts' # 0
  BY DEF Drift, SchemasFit
<1>3. CASE db' = [db EXCEPT ![side][t].columns[c].nullable = ~@]
  <2> DEFINE column == db[side][t].columns[c]
             table == [db[side][t] EXCEPT !.columns[c].nullable = ~column.nullable]
  <2>1. IsTable(table)
    BY <1>1 DEF IsTable, IsColumn
  <2>2. db' = [db EXCEPT ![side] = [db[side] EXCEPT ![t] = table]]
    BY <1>3
  <2> HIDE DEF table
  <2>3. QED
    BY <1>2, <2>1, <2>2 DEF SchemasFit, IsSchema
<1>4. CASE db' = [db EXCEPT ![side][t] = WithoutColumn(@, c)]
  <2>1. IsTable(WithoutColumn(db[side][t], c))
    BY <1>1, ColumnDropped
  <2>2. QED
    BY <1>2, <1>4, <2>1 DEF SchemasFit, IsSchema
<1>5. QED
  BY <1>2, <1>3, <1>4 DEF Drift

\* A request for a drop was confirmed from the start, and one that has been validated
\* knows the column it restates until another client changes a schema.
LEMMA CallStep ==
  SchemasFit /\ CallFits /\ [Next]_vars => CallFits'
<1> SUFFICES ASSUME SchemasFit, CallFits, [Next]_vars PROVE CallFits'
  OBVIOUS
<1>1. CASE UNCHANGED <<db, drifts, call>>
  BY <1>1 DEF CallFits
<1>2. CASE SetSource \/ Generate \/ PreviewOne \/ Answer \/ Refuse \/ CloseModal
  BY <1>1, <1>2 DEF SetSource, Generate, PreviewOne, Answer, Refuse, CloseModal
<1>3. ASSUME NEW i, Tick(i) \/ Review(i) \/ AskToApply(i) PROVE CallFits'
  BY <1>1, <1>3 DEF Tick, Review, AskToApply
<1>4. ASSUME NEW opened, NEW confirmed \in BOOLEAN, call' = Send(opened, confirmed),
             IsDestructive(opened.change) => confirmed
      PROVE  CallFits'
  BY <1>4 DEF CallFits, Send
<1>5. CASE Confirm
  BY <1>4, <1>5 DEF Confirm
<1>6. CASE SubmitModal
  BY <1>4, <1>6 DEF SubmitModal
<1>7. CASE Validate
  <2>1. CASE ~Survives(call.change, call.side)
    BY <1>7, <2>1 DEF Validate, CallFits
  <2>2. CASE Survives(call.change, call.side)
    <3>1. PICK base \in Restated(db[call.side], call.change) :
            /\ call # None /\ Valid(db[call.side], call.change) /\ UNCHANGED <<engine, db, drifts>>
            /\ call' = [call EXCEPT !.kind = "valid", !.base = base]
      BY <1>7, <2>2 DEF Validate, Survives
    <3>2. call.change.kind \in Kinds
      BY <3>1 DEF Valid, CanAlter, Kinds
    <3>3. call.change.kind = "set" =>
            /\ HasColumn(db[call.side], call.change.table, call.change.column)
            /\ call.change.attr \in Attributes
      BY <3>1 DEF Valid, CanAlter, CanSet
    <3>4. /\ DOMAIN call' = DOMAIN call
          /\ call'.kind = "valid" /\ call'.base = base
          /\ call'.change = call.change /\ call'.side = call.side
          /\ call'.confirmed = call.confirmed
      BY <3>1 DEF CallFits
    <3>5. ASSUME NEW side \in Sides, NEW t \in Tables, NEW c \in Columns,
                 call.change.kind = "set", call.side = side, call.change.table = t,
                 call.change.column = c
          PROVE  IsColumn(call'.base)
      <4>1. IsColumn(db[side][t].columns[c])
        BY <3>3, <3>5 DEF HasColumn, SchemasFit, IsSchema, IsTable
      <4>2. PICK d : base = Stated(db[side][t].columns[c], d)
        BY <3>1, <3>5 DEF Restated
      <4>3. QED
        BY <3>4, <4>1, <4>2 DEF IsColumn, Stated
    <3>6. call'.base \in Restated(db'[call'.side], call'.change)
      BY <3>1, <3>4
    <3>7. QED
      BY <3>1, <3>2, <3>3, <3>4, <3>5, <3>6 DEF CallFits
  <2>3. QED
    BY <2>1, <2>2
<1>8. CASE Execute
  BY <1>8 DEF Execute, CallFits
<1>9. ASSUME NEW side \in Sides, NEW t \in Tables, NEW c \in Columns, Drift(side, t, c)
      PROVE  CallFits'
  <2>1. call' = call /\ drifts' # 0
    BY <1>9, DriftFits DEF Drift
  <2>2. QED
    BY <2>1 DEF CallFits
<1>10. CASE UNCHANGED vars
  BY <1>1, <1>10 DEF vars
<1>11. QED
  BY <1>2, <1>3, <1>5, <1>6, <1>7, <1>8, <1>9, <1>10 DEF Next

\* The schemas stay schemas, whatever is applied to them and whoever else changes them.
LEMMA SchemasStep ==
  SchemasFit /\ CallFits /\ [Next]_vars => SchemasFit'
<1> SUFFICES ASSUME SchemasFit, CallFits, [Next]_vars PROVE SchemasFit'
  OBVIOUS
<1>1. CASE UNCHANGED <<engine, db, drifts>>
  BY <1>1 DEF SchemasFit
<1>2. CASE Execute
  <2>1. UNCHANGED drifts
    BY <1>2 DEF Execute
  <2>2. CASE db' = db
    BY <2>1, <2>2 DEF SchemasFit
  <2>3. CASE db' # db
    BY <1>2, <2>1, <2>3, ExecuteFits DEF SchemasFit
  <2>4. QED
    BY <2>2, <2>3
<1>3. QED
  BY <1>1, <1>2, OthersLook, DriftFits

\* Lists, requests and schemas stay well-formed.
THEOREM MigrationInvariant == Spec => []MigrationInv
<1>1. Init => MigrationInv
  BY PairsAssumption DEF Init, MigrationInv, SchemasFit, CallFits
<1>2. MigrationInv /\ [Next]_vars => MigrationInv'
  BY SchemasStep, CallStep DEF MigrationInv
<1>3. QED
  BY <1>1, <1>2, PTL DEF Spec

\* A table, column, index or foreign key leaves a schema only by another client's hand
\* or by a request whose danger dialog was confirmed, whatever the list holds and however
\* the radio buttons, dialogs, requests and other clients interleave.
THEOREM RemovalsWereConfirmed == Spec => RemovalWasConfirmed
<1>1. MigrationInv /\ [Next]_vars =>
        [\A side \in Sides : Removes(db[side], db'[side]) =>
           drifts' # drifts \/ (call.confirmed /\ call.side = side)]_vars
  <2> SUFFICES ASSUME MigrationInv, [Next]_vars, NEW side \in Sides,
                      Removes(db[side], db'[side]), drifts' = drifts
               PROVE  call.confirmed /\ call.side = side
    OBVIOUS
  <2>1. db' # db
    BY DEF Removes
  <2>2. Execute
    BY <2>1, OthersLook, DriftFits DEF MigrationInv
  <2>3. IsDestructive(call.change) /\ call.side = side
    BY <2>1, <2>2, ExecuteFits DEF MigrationInv
  <2>4. call # None
    BY <2>2 DEF Execute
  <2>5. QED
    BY <2>3, <2>4 DEF MigrationInv, CallFits
<1>2. QED
  BY <1>1, MigrationInvariant, PTL DEF Spec, RemovalWasConfirmed

\* The column that an alteration leaves keeps the rest of the one it found.
LEMMA AlteredKeeps ==
  ASSUME NEW column, IsColumn(column), NEW change, change.attr \in Attributes, NEW base,
         engine = "mysql" => \E d \in ReadAs(column.default) : base = Stated(column, d)
  PROVE  KeepsTheRest(column, Altered(column, change, base), change)
<1> DEFINE after == Altered(column, change, base)
<1>1. CASE engine = "mysql"
  <2>1. PICK d \in ReadAs(column.default) : base = Stated(column, d)
    BY <1>1
  <2>2. column.default \in Known => d = column.default
    BY <2>1 DEF ReadAs
  <2>3. after = [base EXCEPT ![change.attr] = change.value]
    BY <1>1 DEF Altered
  <2>4. /\ DOMAIN base = DOMAIN column /\ base.default = d /\ ~base.extra
        /\ \A a \in {"nullable", "type", "pk"} : base[a] = column[a]
    BY <2>1 DEF Stated, IsColumn
  <2> HIDE DEF after
  <2>5. /\ DOMAIN after = DOMAIN column /\ after[change.attr] = change.value
        /\ \A a \in DOMAIN column \ {change.attr} : after[a] = base[a]
    BY <2>3, <2>4 DEF IsColumn, Attributes
  <2>6. KeepsTheRest(column, after, change)
    BY <1>1, <2>2, <2>4, <2>5 DEF KeepsTheRest, IsColumn, Attributes
  <2>7. QED
    BY <2>6 DEF after
<1>2. CASE engine # "mysql"
  <2> DEFINE set == [column EXCEPT ![change.attr] = change.value]
  <2>1. after = IF change.attr = "type" THEN [set EXCEPT !.extra = FALSE] ELSE set
    BY <1>2 DEF Altered
  <2>2. /\ DOMAIN set = DOMAIN column /\ set[change.attr] = change.value
        /\ \A a \in DOMAIN column \ {change.attr} : set[a] = column[a]
    BY DEF IsColumn, Attributes
  <2> HIDE DEF after, set
  <2>3. /\ DOMAIN after = DOMAIN column /\ after[change.attr] = change.value
        /\ \A a \in DOMAIN column \ {change.attr, "extra"} : after[a] = column[a]
        /\ after.extra = IF change.attr = "type" THEN FALSE ELSE column.extra
    BY <2>1, <2>2 DEF IsColumn, Attributes
  <2>4. KeepsTheRest(column, after, change)
    BY <1>2, <2>3 DEF KeepsTheRest, IsColumn, Attributes
  <2>5. QED
    BY <2>4 DEF after
<1>3. QED
  BY <1>1, <1>2

\* An alteration of one attribute keeps what KeepsTheRest says of the others: all on
\* PostgreSQL, on MySQL what the metadata name.  Only MySQL undoes another client's
\* change to the column, and only one made between validation and statement.
THEOREM AlterationsKeepTheRest == Spec => AlterKeepsTheRest
<1>1. MigrationInv /\ [Next]_vars =>
        [\A side \in Sides, t \in Tables, c \in Columns :
           /\ drifts' = drifts
           /\ HasColumn(db[side], t, c) /\ HasColumn(db'[side], t, c)
           /\ db'[side][t].columns[c] # db[side][t].columns[c]
           => \/ KeepsTheRest(db[side][t].columns[c], db'[side][t].columns[c], call.change)
              \/ /\ engine = "mysql" /\ drifts > 0
                 /\ call.base \notin Restated(db[side], call.change)]_vars
  <2> SUFFICES ASSUME MigrationInv, [Next]_vars, drifts' = drifts,
                      NEW side \in Sides, NEW t \in Tables, NEW c \in Columns,
                      HasColumn(db[side], t, c), HasColumn(db'[side], t, c),
                      db'[side][t].columns[c] # db[side][t].columns[c]
               PROVE  \/ KeepsTheRest(db[side][t].columns[c], db'[side][t].columns[c], call.change)
                      \/ /\ engine = "mysql" /\ drifts > 0
                         /\ call.base \notin Restated(db[side], call.change)
    OBVIOUS
  <2>1. db' # db
    OBVIOUS
  <2>2. Execute /\ call # None
    BY <2>1, OthersLook, DriftFits DEF MigrationInv, Execute
  <2>3. /\ call.side = side /\ call.change.table = t /\ call.change.column = c
        /\ call.kind = "valid" /\ call.change.kind = "set"
        /\ db'[side][t].columns[c] = Altered(db[side][t].columns[c], call.change, call.base)
    BY <2>1, <2>2, ExecuteFits DEF MigrationInv
  <2>4. /\ call.change.attr \in Attributes
        /\ drifts = 0 => call.base \in Restated(db[side], call.change)
    BY <2>2, <2>3 DEF MigrationInv, CallFits
  <2>5. IsColumn(db[side][t].columns[c])
    BY DEF MigrationInv, SchemasFit, IsSchema, IsTable, HasColumn
  <2>6. CASE engine # "mysql"
    BY <2>3, <2>4, <2>5, <2>6, AlteredKeeps
  <2>7. CASE call.base \in Restated(db[side], call.change)
    <3>1. \E d \in ReadAs(db[side][t].columns[c].default) :
            call.base = Stated(db[side][t].columns[c], d)
      BY <2>3, <2>7 DEF Restated
    <3>2. QED
      BY <2>3, <2>4, <2>5, <3>1, AlteredKeeps
  <2>8. CASE engine = "mysql" /\ call.base \notin Restated(db[side], call.change)
    BY <2>4, <2>8 DEF MigrationInv, SchemasFit
  <2>9. QED
    BY <2>6, <2>7, <2>8
<1>2. QED
  BY <1>1, MigrationInvariant, PTL DEF Spec, AlterKeepsTheRest
=============================================================================
