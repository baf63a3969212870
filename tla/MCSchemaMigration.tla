------------------------- MODULE MCSchemaMigration -------------------------
(***************************************************************************)
(* Small instances of SchemaMigration: two tables, each with a key and one *)
(* more column, an index and a foreign key.                                *)
(***************************************************************************)
EXTENDS SchemaMigration

MCTableOrder == <<"a", "b">>
MCColumnOrder == <<"id", "x">>
MCIndexOrder == <<"i">>
MCFkOrder == <<"f">>

Column(pk, type) ==
  [nullable |-> ~pk, default |-> "plain", type |-> type, pk |-> pk, extra |-> FALSE]
Id == Column(TRUE, "plain")
Table(x, index, fk) ==
  [columns |-> ("id" :> Id @@ "x" :> x), indexes |-> ("i" :> index), fks |-> ("f" :> fk)]
On(columns) == [on |-> columns]
To(table) == [column |-> "x", table |-> table]

X == Column(FALSE, "plain")
Bare == Table(NoColumn, NoIndex, NoFk)
Schema(a, b) == ("a" :> a @@ "b" :> b)

Pair(l, r) == [side \in Sides |-> IF side = "left" THEN l ELSE r]
\* Declared with more than its type's name, and with a default that cannot be written.
Declared == [X EXCEPT !.extra = TRUE, !.default = "odd"]
MCPairs ==
  {\* a column is missing, and an index holds it and the key
   Pair(Schema(Table(X, On({"id", "x"}), NoFk), NoTable), Schema(Bare, NoTable)),
   \* a column differs in its nullability and its type; identical indexes
   Pair(Schema(Table([Declared EXCEPT !.nullable = FALSE, !.type = "sized"], On({"id"}), NoFk), NoTable),
        Schema(Table(Declared, On({"id"}), NoFk), NoTable)),
   \* a table too many, another that cannot be expressed
   Pair(Schema(NoTable, Table(Column(FALSE, "odd"), NoIndex, NoFk)), Schema(Bare, NoTable)),
   \* a column, its index and its foreign key are missing
   Pair(Schema(Table(X, On({"x"}), To("b")), Bare), Schema(Bare, Bare))}
=============================================================================
