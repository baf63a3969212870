# Prost in TLA+

Prost is a self-hosted database client for PostgreSQL, MySQL and SQLite: a NestJS API
(`apps/api/src`) that keeps its own data in an app database (Prisma over SQLite) and reaches the
users' *target databases* through a driver layer and pooled connections, and a React front end
(`apps/web/src`).  This directory holds TLA+ models of the parts whose behaviour depends on
interleavings, failures and order, TLC configurations that check them on small instances, and
TLAPS proofs about them for every value of the constants.

Contents: [the system](#the-system-and-its-parts), [the modules](#the-modules),
[the runs](#the-runs), [fairness](#fairness), [the proofs](#the-proofs),
[divergences](#where-the-code-and-its-documentation-disagree),
[what is not modelled](#what-is-not-modelled), [plan](#plan).

## The system and its parts

The API is one Node process: one callback runs at a time, and everything between two `await`s is
atomic.  All its concurrency is therefore of requests, timers and shutdown that take turns at
awaits, of several statements in flight on the target database, and of a browser whose requests
and answers may be lost or overtake each other.

### API

| Component | State | Operations | What is hard, and what makes it correct |
|---|---|---|---|
| Pool manager (`database/pool-manager.service.ts`) | `pools` (cached promises), `poolLastUsed`, `poolEngine`, `tunnels`, `activeCursors` | `resolve`/`run`/`withSession`/`withTransaction`/`openCursor`, `driverFor`, `evictPool`, `sweep` (idle and LRU), `onModuleDestroy` | creations, evictions and sweeps of one connection overlap at awaits, and clean up by connection id. One usable pool per connection, built from the stored settings; a pool with counted cursors is not swept; what is evicted is closed, its tunnel with it, and nothing else |
| SSH tunnels (`database/ssh-tunnel.service.ts`) | SSH client, local server, `settled`/`closed` flags; the host key stored with the connection | `open` with host-key check (trust on first use), `close` | several asynchronous stages, each of which may fail, and the settings may be saved between them. Nothing survives a failed `open`; a changed host key is refused |
| Cursor sessions (`query/cursor-session.service.ts`) | `sessions` map | `open`, `fetch`, `close`, `reap`, shutdown | fetches, the reaper and a close of one session overlap; caps and budget are checked before awaits. Each cursor is closed exactly when its session ends; abandoned streams are released |
| Drivers (`database/drivers/*`) | pooled clients; one shared handle for SQLite | `withTransaction`, `withSession`, `withReadOnlyTransaction`, `openCursor`, `run` | a call may hold a client while it waits for another. A transaction is all or nothing; every client goes back to its pool, outside of any transaction |
| Query service (`query/query.service.ts`) | none (scripts in flight) | `execute` (autocommit, transactional), `explain`, `fetchPage`, `runReadOnlyQuery` | any command may fail or lose its connection. A read-only connection refuses a script before it runs any of it; a transactional script is done as a whole; the audit trail tells what happened |
| Grid service (`grid/grid.service.ts`) | none (edits in flight) | `updateCell`, `bulkUpdate`, `insertRow`, `deleteRow`, `rows` | optimistic concurrency against other writers. A batch is applied as a whole, and only to rows that are what the editor saw |
| Connections (`connections/connections.service.ts`) | connection rows | `create`, `update`, `remove`, `test` | the row is changed and the pool evicted in two steps. The next use after an update has the new settings; a deleted connection's pool goes |
| Audit and history (`audit`, `history`) | rows of the app database | `record`, `withAudit`, lists, retention sweep | recording is fire and forget. A record says what happened; starred history is kept |
| Import and export (`import`, `export`) | requests in flight | batches; streamed rows | a batch is all or nothing; every export closes its cursor and marks what it cuts off |
| Schema diff and DDL (`diff`, `ddl`) | none | compare two schemas, build the changes that reconcile them, preview each; validate, render and run one statement | the schemas change between the comparison and the run. What is executed was validated against live metadata, removes nothing unconfirmed and changes of a column only what it says |
| Metadata, performance, session monitoring | none | read catalogues; kill one session | |
| AI assistant (`ai`, `conversations`) | endpoints and conversations (rows) | chat with bounded tool calls, suggestions, read-only runs; conversations appended to, loaded, deleted | only proven reads run; a completed exchange is kept, once, in the conversation it belongs to |
| Masking (`preferences`, `grid`) | the user's preferences, one row | a PATCH of the masked columns; rows read with masked values as tokens | the list is mirrored and sent as a whole. What is shown in the clear was asked for; a token is never written back |
| Auth, crypto, the other preferences, snippets, app shell | rows of the app database | single reads and writes | rows are scoped to their user |

### Web

| Component | State | Operations | What is hard, and what makes it correct |
|---|---|---|---|
| Edit buffer and table view (`grid/useEditBuffer.ts`, `workspace/TableView.tsx`) | loaded rows, staged edits, undo and redo stacks | stage, save, undo, redo, discard, reload | answers overtake each other and rows are reloaded while edits are staged. An edit is guarded by what it was made against; undo takes back what was saved |
| Cursor data source (`workspace/cursorDatasource.ts`) | `sessionId`, `position` | `getRows`, `destroy` | answers may be lost, the session reaped, the grid gone. The block shown at row *n* holds the rows from *n*; its session does not outlive it |
| Workspace tabs (`stores/workspaceStore.ts`, `workspace/Workspace.tsx`) | `tabs`, `activeTabId`, each query tab's result | open, close, reorder, load a query | one editor and one table view serve all tabs of their kind, with runs and saves in flight across switches. A tab's result and edits stay its own; a query tab always remains |
| Schema comparison (`workspace/SchemaDiffView.tsx`) | the list of changes, its boxes, the review and the danger dialog | generate, tick, review, confirm, apply | the list ages while it is looked at. What is applied is what was confirmed, where it was generated for |
| Masked columns (`stores/themeStore.ts`, `workspace/TableView.tsx`) | the mirror of the preference, the columns' report, the cells | mark, unmark, reveal, edit | three copies follow one another by requests that overtake each other. They come to agree; an edit is not blind |
| AI chat panel (`ai/ChatPanel.tsx`) | messages, `conversationId`, the stream, auto-runs | send, stop, new, load, resume, run a query | answers stream while the user moves on. An exchange is kept in its chat |
| CSV import wizard (`import/useCsvImport.ts`) | buffered rows, `inserted`, cancel flag | run, cancel | a parser paused around awaits. The count is honest; a cancel stops |
| Everything else | server caches, forms, preferences | rendering | |

### How they interact

A request enters through a controller, which checks the user's ownership of the connection.  The
query, grid, import, export, metadata and DDL services call `PoolManager` (a call), which resolves
the connection's pool - creating it, through a tunnel if the connection has one - and passes the
statement to the driver.  `CursorSessionService.open` keeps the driver's cursor, and with it a
pooled client, between requests; `PoolManager.activeCursors` is the state through which it keeps
the sweeps off that pool.  `ConnectionsService` changes a stored connection and then calls
`evictPool`.  The browser's table view and editor hold what the server told them and send it back
as guards (row versions, pre-images, cursor ids).

## The modules

| Module | Models | Notes |
|---|---|---|
| `CursorSession` | `CursorSessionService`, the cursor wrapper of `PoolManager.openCursor`, the drivers' cursors, the two cursor endpoints | one element of `Cursors` is an open call, its cursor and its session; a step is the code between two awaits |
| `StreamContract` | what the service promises about one stream | abstract specification, implemented by `CursorSession` (`ImplementsContract`) |
| `PoolManager` | the maps of `PoolManager`, pool and tunnel creation and its failures, requests, evictions after `update`/`remove`, the sweep, shutdown | a request stands for one call that resolves a pool; the pool it may create carries its name |
| `SshTunnels` | `SshTunnelService.open` stage by stage with its host-key check, the stored key, saves of the settings, connection tests | the hosts are external; `PoolManager` says when tunnels are opened and closed |
| `TargetClients` | the clients of one driver pool, the queue for them, and the calls that hold one while they wait for another (streams that open, transactional scripts) | the pool library (pg, mysql2) is external |
| `GridRows`, `GridPatches` | rows, edits, guards and what a write leaves behind, as operators; the patches asked for | shared by the next three |
| `AtomicGrid` | what the write endpoints promise: all rows of a request, as their guards demand, at once, or none | abstract specification |
| `GridWrites` | `bulkUpdate`, `updateCell`, `insertRow`, `deleteRow`, statement by statement in a driver transaction, with row locks, deadlocks and lost answers | implements `AtomicGrid` (`AtomicSpec`) |
| `GridEditor` | the rows a `TableView` has loaded, the edit buffer, save, undo and redo over the (atomic) bulk endpoint, other writers, answers in any order | uses `GridRows` and relies on what `GridWrites` shows of the endpoint |
| `ColumnMasking` | the masked columns: the preference, its mirror and hydration, the PATCHes, the columns' report, redacted rows, revealing, and the edits of a view that may not know yet what is masked | one row of one table |
| `ScriptTexts`, `QueryScript` | `QueryService.execute` in both modes on all three engines, the drivers' `withSession`, the read-only guardrail, the audit trail's verdicts | commands may fail, or lose their connection before or after taking effect |
| `StreamSizes`, `CursorDatasource` | the browser's data source for a large result, the grid that asks it for blocks, requests and answers on their way, and the cursor and offset endpoints as it sees them | its server is one that `StreamContract` allows (`UsesContract`), which is what `CursorSession` implements |
| `CsvImport` | the import dialog, the hook that parses a file chunk by chunk and sends batches, the batch endpoint | a batch's answer may be lost |
| `ExportStream` | the block loops of CSV, JSON and SQL exports over the drivers' cursors, budget and truncation notes | a count of rows stands for the rows |
| `SchemaMigration` | the change-set of two schemas, the preview of its candidates, the comparison view with its boxes, reviews and confirmations, and the DDL request an applied row becomes, next to other clients | |
| `WorkspaceTabs` | the tabs' store, the editor and the table view mounted under them, and the requests each has under way | |
| `ChatThreads` | the chat panel and the conversations it is kept in | the model and its tools are external |
| `MCSessions`, `MCStreamUse`, `MCPools`, `MCWrites`, `MCWorkspace` | the instances of the passing runs; each puts several components side by side, one of them at work in each behaviour (`part`) | no definition is replaced |
| `MCCursorSession`, `MCPoolManager`, `MCTargetClients`, `MCCursorDatasource`, `MCGridEditor`, `MCSchemaMigration` | symmetry sets and bounded inputs | |
| `...Proofs` | the theorems: about the module of that name; `PoolsProofs` about `PoolManager` and `SshTunnels`, `BrowserProofs` about `ColumnMasking`, `WorkspaceTabs`, `GridEditor` and `ChatThreads`, `TransferProofs` about `CsvImport`, `ExportStream` and `CursorDatasource` | see [below](#the-proofs) |

Where a run's module extends two components, the names of one carry its prefix (`PoolInit`, `SshInit`,
`GridInit`, `MaskInit`, `ImportInit`, `DatasourceInit`, `TabsInit`, `EditorInit`, `ChatInit`, `poolVars`, ...), so that a run and a theorem speak of the same definition.

### Correspondence of state and actions

*CursorSession.*  `live` is the key set of `sessions`; `pos` is `session.position`; `idle` holds
the sessions whose `lastUsed` is older than `idleMs` (time itself is left out, a session grows idle
at any moment); `counted` is `activeCursors` as a set; `cur` is the driver's cursor with its closing
as two steps, since `close()` awaits; `fetch` holds the fetch calls in flight with the block size
they computed *before* their await and the rows they have taken so far.  `open()` is `AssertCapacity`,
`OpenCursor`, `FirstBlock`, `Register` and the failures between them.  `fetch()` is `StartFetch`,
`TakeRows` and the ways it can return: a full block (`FullBlock`), also of a session that was closed or
reaped meanwhile, since nothing after the await looks at the session again; a short block, after the driver's
close (`LastBlock`, `CompleteFetch`) or without one when another call has closed the cursor
(`FetchClosed`); or an error (`FetchFails`).  Overlapping calls share the cursor, as on MySQL they share the iterator:
each may be answered in full.

*PoolManager.*  `pools`, `tunnels`, `used` (keys of `poolLastUsed`, with `older` as their order) and
`engine` (keys of `poolEngine`) are the maps; `pool` and `tunnel` say what has become of the
resources themselves, so that a resource no map leads to can be seen.  `snap` is the settings a
request read before its await.  `evictPool` is `EvictPools` (the synchronous prefix) followed by
`CloseEvicted` and `EvictionEnds`; a cursor is counted in the stage "holding", and for good in the
stage "abandoned", where an open call leaves it that throws after its first block (`CursorAbandoned`).
The clock behind `poolLastUsed` is taken to tell any two uses apart.  `createPool` with a tunnel is `TunnelUp`, `PoolReady` or
`PoolFails`, `TunnelUnwinds` and `TunnelUnwound`.

*SshTunnels.*  `hostRow` is the connection's SSH columns, `cfg` what an open read of them, `saw` the key
it was presented, `client` and `server` its resources, `sshStage` the await it is at.  `key` is the world's:
how often each host's key has changed.  `overtaken`, `pinner`, `late` and `informed` are history variables.

*TargetClients.*  `queue` is the library's waiting list, `stage` where a call is.  `AskSecond` is the
nested `PoolManager.run` of `open()` (editability, column types) and of `executeTransactional`.

*CursorDatasource.*  `sessionId` and `position` are the closure's variables; `cache`, `known` (row
count), `ended` (it is final) and `order` (sort) are the grid's.  The grid is configured with
`maxConcurrentDatasourceRequests={1}`, so there is one `request`, with at most one `answer` on its
way; `GetForward`, `GetTop` and `GetByOffset` are the three paths of `getRows`, the `...Answered`
actions and `FetchGone` its callbacks.  Blocks that the grid drops and reloads need no action: any
block below `known` may be asked for again.  `Serve` is the endpoint, `ServeFails` an error it
answers with, `Lose` a request or an answer that does not arrive; a lost request may still reach
the server (`strays`), and `closeSession`'s DELETE is on its way (`deletes`) until it is served or
lost.  `lost` is a history variable.

*GridWrites.*  `table` is what is committed, `writes` what open transactions have written.
`WriteRow` waits while another open transaction has written the row; `Refused` is the zero-row
result that makes the service throw; `Fails` and `CommitUnanswered` are errors before and after the
commit took effect, `CommitRequestPartly` a mutant.

*GridEditor.*  `view` is the grid's row cache, `buffer` the entries of `useEditBuffer`, `calls` the
mutations in the order they were sent, `undo`/`redo` the stacks.  `Serve` is the endpoint, the
`...Answered` actions are the callbacks; as TanStack Query does, only the latest call's callbacks
run.  The field `since` of an entry is a history variable: no code has it.

*ColumnMasking.*  `prefs` is the preferences row, `store` `themeStore`'s mirror of it, `patches` the PATCHes
under way (each carries the whole mirror), `reported` the columns query's `maskedColumns`, `block` the
grid's read of its block, `shown` what the row's cells show, `staged` the buffer with an edit called blind when its
original is a token.  A read finds the preference when it is served and is applied when it is answered;
`failed`, `lifted`, `overwritten` and `fromSave` are history variables.

*QueryScript.*  `session` is the server's session behind a client: its transaction and the writes
pending in it.  `Outcomes` says how a command may end on each engine (a failed statement fails a
PostgreSQL transaction, DDL commits on MySQL, a nested BEGIN fails on SQLite).  The PostgreSQL
driver's `withSession` wraps its own BEGIN/COMMIT around the service's: `OuterBegin`, `OuterCommit`
and `Unwind`.  `AuditedSuccess` and `AuditedFailure` are what `auditMutations` records.

*CsvImport.*  A row of the file is its position; `file` says with which row each chunk the parser hands over ends; `todo` the rows of the present chunk
that are not in the `buffer` yet; `batch` the request in flight; `table` what the batches have inserted;
`inserted` the hook's count.  *ExportStream.*  `cursor` is the driver's, `rowCount` and `truncated` the
loop's variables, `pending` the rows of the INSERT statement not yet written, `written` and `noted` the file.

*SchemaMigration.*  `db` is the two live schemas; `list`, `checked`, `review` (ddlStore's pending change)
and `dialog` (the danger confirmation) the view's; `call` the DDL request under way, which validates
against the schema it reads and runs on the one it finds.  `After` is what the drivers' SQL does to a schema,
`DbAccepts` what each engine asks of a statement; it may be refused for reasons the model does not have, too.  A column's
type is the name that `data_type` reports, its `extra` what else it was declared with.  MySQL restates a column from
the metadata (`Restated`): the declaration is lost (`VARCHAR(40)` cannot be restated, `DECIMAL(12,4)` becomes
`DECIMAL`, `INT UNSIGNED` becomes `INT`), and a default that is not on the allow-list is read in some way or other.
On MySQL a bare `VARCHAR` is refused, a foreign key keeps its column and the last index that serves it, and a dropped
column leaves the indexes it shares with others.

*WorkspaceTabs.*  `tabs` and `active` are the store's; `result` the stored result of each query tab,
`response` the one the mounted editor displays; `tabEdits` the mounted table view's staged edits, by the table they
were made on; a request is `heard` while the component that made it is mounted.
*ChatThreads.*  `thread` is `conversationId`, `stream` the answer that streams, `appends` and `loads` the requests
to the conversation endpoints, `convs` what the server keeps (`Conversation` and its messages in `schema.prisma`); `messages` counts the exchanges
on display, `queries` are the proposed reads that run.

## The runs

`tlc -config <cfg> <module>`; every run takes less than three minutes with two workers.  Five runs pass:

| Run | Module, cfg | Parts | What it shows |
|---|---|---|---|
| sessions | MCSessions, Sessions | CursorSession; PoolManager (sweeps) | overlapping opens, fetches, closes, reaps and a shutdown leave no cursor without an owner but for the abandoned open call, and no count without a cursor; the caps are overstepped by no more than the overlap explains, the budget by a block for each call that overlaps; the service implements `StreamContract`. A sweep takes only pools without counted cursors that are idle or older than as many others as the cap allows, and misses the cap by the stale `poolLastUsed` entries at most |
| stream_use | MCStreamUse, StreamUse | TargetClients; CursorSession (liveness); CursorDatasource; CsvImport; ExportStream | with fewer nesting calls than clients nobody waits for ever; an abandoned stream is given up; the grid shows the rows that belong where they are shown (but for what a lost answer breaks) and answers every block; an import's count is honest and it settles; nothing is cut from an export without a note |
| pool_lifecycle | MCPools, PoolLifecycle | PoolManager (saved, deleted and used at once); SshTunnels | pools are lost only where another creation failed, tunnels only where two creations overlap, a pool's tunnel only to a predecessor; a deleted connection's cached pool goes, unless an abandoned cursor pins it. A host key is trusted on first use and verified from then on; an SSH client outlives its tunnel only where the local server could not listen |
| writes | MCWrites, Writes | QueryScript; GridWrites | "run as transaction" is all or nothing and the audit trail is right about it, for scripts that leave transactions to the service; grid requests are atomic whatever the order of their statements, and everything is answered |
| workspace | MCWorkspace, Workspace | SchemaMigration; GridEditor; WorkspaceTabs (with scripts; with edits); ChatThreads; ColumnMasking | undo overwrites nobody else; results and edits stay with their tab but for the paths the properties name; every whole exchange of a chat is stored once; of a schema nothing is removed unconfirmed, and an alteration keeps of its column what the metadata name; the copies of the masked columns come to agree |

Seven end in a counterexample on purpose ([below](#where-the-code-and-its-documentation-disagree)): cursor_leak,
pool_orphan, target_clients_starve, cursor_page_size, grid_overwrite, edits_cross_tables, migration_target.

A behaviour of a passing run is one of its parts; the variables of the others stay in one initial state.
The parts share constants where the components share things (calls, connections), and nothing else.

### Bounds, and why they are enough

* **sessions**.  Streams: three on two of the connections reach every cap (two sessions, one per
  connection) with a third open call in flight and two fetches that may be of the same stream.  A budget
  of 4 with a first block of 1 and further blocks of up to 2 lets two fetches overlap below the budget and answer
  beyond it; totals 0, 1, 2 and 7 give a result that is empty, ends with its first block, ends within the budget, and
  outlives it and the overshoot.  All streams but one have one row, since one that ends is the same next to any other, and
  next to a stream of 7 all calls name one connection (`Calls`).
  `MaxOpening` bounds the open calls that overlap: the overshoot of the caps is stated in terms of it.
  Sweeps: three connections with a cap of one give the sweep two victims to choose and an order
  to get wrong; each request has a connection of its own,
  and `driverFor` is left to pool_lifecycle (`NoDriverFor`).  Calls and connections are interchangeable, and the run has
  no liveness property, so symmetry is sound.
* **stream_use**.  Of `TargetClients`, three clients, a stream and a script are the largest number of nesting
  calls that may not deadlock, and two statements make a queue.  Of `CursorSession`, two streams,
  since the property is about one stream next to another.  Of `CursorDatasource`, blocks of two rows with a budget of
  three and results of 2 and 5 rows: exactly a block, and outliving the budget in the middle of a block; two open
  calls and one sort let a session be replaced and its late requests arrive at the wrong time, and one
  session may lose requests and answers.  Of `CsvImport`, files of up to six rows in up to three chunks with batches of
  two: batches that end in, at and across chunks.  Of `ExportStream`, one table or two, every length from 0 to 7 around a
  page of 3, a budget of 5 and INSERT statements of 2 rows.
* **pool_lifecycle**.  Two requests are two creations, the fewest that overlap; two stored versions
  are the fewest in which a save makes a difference, and the save turns the tunnel off (`TunneledAtFirst`).
  Two opens of tunnels over two hosts, each of which changes its key once: a changed key, and another host's.
* **writes**.  Two scripts of up to three statements over two clients: one script leaves a
  transaction open that another gets; five texts contain two writes, a read, DDL and both ends of a
  hand-written transaction, which at most one of the two scripts has (`WritesInit`); every engine and both modes are
  initial states.  Two grid requests on two rows in either order are a deadlock, a stale guard behind a
  passed one, and a lost answer; two columns tell pre-images from versions.
* **workspace**.  `SchemaMigration`: two tables of up to two columns, an index and a foreign key; on either engine, four pairs of
  schemas are followed through the view with one list and one change by somebody else; between them they have every kind of change, an
  index of two columns, a type without its length, and a default and a type that are not on the allow-lists.  `GridEditor`: three calls are save, undo, redo (or save, save, undo); one write by somebody else is
  enough to be overwritten.  `WorkspaceTabs`: three tabs of two query tabs and two tables, with two
  scripts that overlap, or with an overview and one save.  `ChatThreads`: two turns over two connections and two chats.
  `ColumnMasking`: one column, since columns are masked independently of each other, marked or unmarked twice, so
  that two PATCHes overlap, and one save; once a change of the preference has gone wrong, the view asks for
  nothing in the clear any more (`NoRevealAfterFailure`), which the properties then say nothing about.
* **cursor_leak** one stream; **pool_orphan** three requests on one connection; **target_clients_starve** as many streams
  as clients; **cursor_page_size** one stream whose blocks (3) are larger than what an open call answers
  with (2), as page sizes of 200 and 500 are larger than 100; **grid_overwrite** one row of two columns;
  **edits_cross_tables** two tables; **migration_target** one list.

Deadlock checking is off in all configurations, because every model has final states: requests
have been answered, bounds are used up, or the process has stopped.

### Hazards and mutants

`PROJECT.json` lists the hazards the code is exposed to, each at its line, with the properties that
would catch it going wrong.  It also names, for each property of a passing run, a mutant: the
operator defined next to an action with the comment "Mutant of ...", which differs from it as a
plausible slip in that code would, and with which TLC finds the property violated.

## Fairness

Safety properties are checked and proved without any.  The liveness properties assume:

* *CursorSession*: the reaper's interval fires, a session nobody fetches from grows idle, and the
  driver's `close()` settles.  Nothing obliges a client to call, nor the target to answer a read.
* *PoolManager*: awaited calls settle (pool creation and tunnels have connect timeouts), statements
  end (statement timeouts), a counted cursor is closed (its session is reaped) unless its open call
  has abandoned it, `evictPool` follows the change that calls it, and the sweep's interval fires.
  That the close of an evicted pool ends is not assumed: a driver may wait for clients that are still out.
* *TargetClients*: the library serves its queue, statements end, and pg's
  `connectionTimeoutMillis` fires.  For mysql2 no timeout is assumed, because there is none.
* *CursorDatasource*: a request is answered or its loss is noticed (HTTP and the browser see to
  that), and callbacks run.  The user need not scroll, nor a DELETE arrive.
* *CsvImport*: the parser goes on when it is resumed, and a batch is answered or its loss noticed.
* *GridWrites*: statements return; one that waits for a row gives up after the statement timeout
  unless the row has become free.  A request need not fail otherwise.
* *QueryScript*: the database answers each command or the connection breaks.

All of it is weak fairness of actions that stay enabled until they happen.  Strong fairness is
not needed anywhere: a queue that serves first come first served and a loop that waits for nobody
else do not lose their turn.

## The proofs

`tlapm <module>Proofs.tla` checks them; together they take some ten minutes.  They hold for any sets of
streams, connections, requests, hosts, rows, columns, clients, scripts, schemas, files, tables, results and turns, and for any caps and sizes that
satisfy the named assumptions of the modules: sets are finite where cardinalities are compared
(`FiniteAssumption`, `ConnectionsAssumption`, `CallsAssumption`), bounds and sizes are naturals or positive
(`CapsAssumption`, `RowsAssumption`, `MaxOthersAssumption`, `BoundsAssumption`, `SizeAssumption`, `ChangesAssumption`, `BatchAssumption`,
`ExportSizesAssumption`, `SizesAssumption`, `TabsAssumption`, `ChatAssumption`), a default is a value (`DefaultAssumption`), schemas are shaped like schemas (`PairsAssumption`),
a chunk of a file ends at or after the one before it (`FilesAssumption`), tables are exported by number (`TablesAssumption`), and the names of absent things are not
members (`PoolsAssumption`, `NamesAssumption`, `ClientsAssumption`, `TabsAssumption`, which also keeps the ids of query tabs apart
from those of other tabs and starts with a query tab, as `initialTabs` does).  TLC evaluates each on a run.

**CursorSessionProofs.**  The invariants checked by the sessions run are not inductive: that a
count is given back depends on how far the open call is, what a stream may serve on what the fetches
in flight may still add.  `StreamInv` adds `StageFitsCursor` (how far a call has come fixes what its
cursor and session can be), `CountIsDue` (a count outlives the client only where a close is still
due), `FetchesFit` (a fetch belongs to a stream that was registered, its block is within the limits)
and `PositionFits`: of the fetches in flight one began last, its block fits in the budget as it was then, and each of the
others can add one more.  When a fetch is answered, that one or another takes its place, whatever their order.  From `StreamInvariant` follow
`TypeCorrect`, `OpenCursorsHaveOwners`, `CountsFollowCursors`, `LiveSessionsHaveBudget` and `BudgetOvershoot`.

The caps count sets that change.  `AdmissionBounded` counts an open call that has passed its check like a session: when
the check lets a call in, the sessions are within the cap, so sessions and calls under way together are less than cap and
`MaxOpening` (`CheckAdmits`), and every other step leaves the two together as they were or fewer (`AdmitsNobody`).
`CapOvershoot` follows.

`ServiceImplementsContract` is the refinement: under the mapping each step of the service is a step of
`StreamContract` for the one stream it moves (`OneStreamMoves`) and a stutter for all others.  The lemmas follow the
contract's actions: `OpenBegins`, `StartIsAccepted`, `EndOfFetchAnswers`, `FetchAnswers`, `ClosingEnds`.  The contract
has calls in flight, since a call that was accepted while the stream had budget may be answered after others have
used it up, or after the stream's end.

**PoolsProofs.**  `PoolInv` adds to the checked invariants `PoolsFit` and `TunnelServesPool`:
which pools a map entry may name, and which tunnel a pool that is being created or open stands
behind.  The three "lost ... only" theorems then say of the known losses that there are no others.
`SweepsTakeOnlyStale` relates what a sweep would take, at any moment, to the uses since: from `UseOrder` below, the
entries that the cap makes it take come first, so that as many as the cap allows come after each (`SweepTakesOld`).

`SweepsNearCap` needs to know that the least recently used entries exist: `UseOrder` (the order of `poolLastUsed`
is strict and total) is proved inductive, and `FirstOfOrder` says that an order has, for each number up to its size,
exactly that many first elements.  `SweepLeavesCap` then counts what one sweep takes: unless it runs out
of entries it may close, as many as there are pools over the cap, of which at most the stale ones close nothing.

Of the tunnels, `SshInv` says: an open that no save has overtaken connects to the stored host, one that has got past
the host saw the key it knew, only opens that knew no key store one, and who has read the settings since then knows the stored
key (`InformedKnow`).  From it `TrustedOnFirstUse`.  `ClientInv` ties the local server to the SSH client
(`ServerFollowsClient`); `ClientsLeftByFailedListenOnly` says that the leak it names is the only one.

**TargetClientsProofs.**  `ClientInv`: the queue is exactly the waiting calls, once each
(`QueueAgrees`), which is what makes granting to its head sound, and only streams and scripts wait with a client in hand.
`FewNestedCallsNeverDeadlock` counts: when all clients are in use and nobody can go on, each
client is held by a different nesting call, so there are at least as many of those as clients.

**GridWritesProofs.**  `GridInv`: open transactions have written different rows (`Exclusive`), and each
written row is still what its guard accepted (`GuardsStillHold`).  With it every step of `GridWrites`
is a step of `AtomicGrid` or leaves its variables alone (`EndpointsAreAtomic`).

**BrowserProofs.**  Of the masked columns: four copies of one list follow each other, so `MaskInv` says of each what it knows of the one
before it, at every stage of the read that copies it: unless a request failed or changes overlapped, the mirror is the
preference or a PATCH of it is under way (`MirrorLeads`), the report is the preference or its query is being read again
(`ReportFollows`), and the cells show what the report says or the block is being read again (`CellsFollow`).  At rest this is
`MaskingSettles`.  `TokensWereMasked` (what a cell shows as a token, or an edit or a save was made over, was masked
or has been unmarked since) and `CheckedWasUnmarked` (what a save has passed) give `BlindWritesAfterUnmarkOnly`.

Of the tabs: `TabsInv` says that a run keeps the tab it was started from (`RunsFit`), that a stored result is of a run of
its tab, and that staged edits have a mounted view (`EditsHaveAView`); every step goes to some list of tabs, or leaves
them alone (`TabSteps`), so that nothing about the lists themselves is needed.  The invariant
`StoredResultsAreTheTabs` and the action properties `ForeignResultsAreLateAnswers` and `EditsMoveOnDirectSwitches` follow.
The lists are the matter of `TabsFit` - no tab is open twice, the active one is open, no query tab is open that was not given
out - and of `QueryStays`.  A `filter` of tabs is defined by positions (`Filter`: the n-th tab kept is where there are n of them up
to it), so that its laws need no induction: counting those up to a place maps the places kept one to one into `1..n`, hence onto it
(`FilterFacts`).  Moving a tab permutes the places (`TabMoved`).  `TabsStep` then goes through the ways of opening, moving and
closing: the tab bar keeps a query tab because two of them are different tabs, which is where `TabsFit` is needed (`QueryCounts`),
closing several because `applyClose` adds the first one back (`TabsClosed`).  `TabsTypeCorrect` and
`LastQueryTabGoesByShortcut` follow.

Of the editor of rows: `StampsFit` is what makes a version a guard.  Each batch - on a stack, in a call that waits, or in an answer
on its way - carries a version for each of its rows, and as long as the row has that version it holds the batch's side
of its cells: what an undo is to meet is what the save has put (`Stamped`); every write raises the version, so nobody can
break it, whichever answers are lost or not heard (`StampKept`).  `TopsAreCalled` ties the latest call to the top of its stack.
With pre-images instead of versions a batch's guard speaks of values only, and `StacksInOrder` says why undo still works for an editor that
is alone: each batch meets, in every cell, what the next one above it to touch that cell puts, and the last one to touch it meets what the
table has (`Chained`) - of the stacks as they will be when the answer under way has arrived (`UndoToCome`, `RedoToCome`), since between the
write and its answer the table is ahead of the stacks.  `ChainPopped` and `ChainPushed` move a batch from stack to stack.
From `EditorInvariant` follow the action property `UndoOverwritesOwn` and the invariant `UndoIsPossible`.

Of the chat, `ChatInv` follows an exchange from its turn to the table.  The turn that streams is the latest one and not complete
(`TurnStreams`); a complete one travels in one request, and no conversation has it before that request stores it (`SentOnce`), which
makes storing it add to one conversation what no other has (`StoredOnce`); a request that has not arrived can still create its
conversation (`Uncreated`).  `OneThread` is about chats that were not disturbed: then there is at most one request, of the chat on
display and with the latest exchange; before it arrives it is addressed to the panel's thread; and a chat that has neither
thread nor request is kept nowhere, which is why creating its conversation is no fork.  Each of the ways to disturb a chat that the
property excepts breaks one of these.  `ChatsAreStoredAsSaid` follows.

**QueryScriptProofs.**  `ScriptInv`: a client has one holder; a script's uncommitted writes sit on the
client it holds and only there; and the stage of a script says what has become of its writes (for
instance: once a statement has failed, none of them is committed).  The lemmas go through what
each command does to a session on each engine, with and without the loss of the connection.  From it:
`ScriptsAreAtomic`, `AuditedFailuresAreVoid`, `AuditedSuccessesAreDurable` and `ClientsComeBackClean`.

**SchemaMigrationProofs.**  `MigrationInv`: `SchemasFit` - whatever statements and other clients do, a schema keeps its
shape (`ColumnDropped`, `TableCreated`, `TableReplaced` and the lemmas on what two tables agree on) - and `CallFits` - what a
request on its way removes was confirmed, and a validated alteration restates its column from what was read
(`AlteredKeeps` says what is left of the column then).  What a list
holds is not used: it may be out of date, and both properties hold of any list.  From it `RemovalsWereConfirmed` and
`AlterationsKeepTheRest`, both action properties.

**TransferProofs.**  `ImportInv`: the rows of the table, of a batch on its way, of the buffer and of the rest of the chunk
follow on one another in the file (`InOrder`), up to what the parser has handed over, and up to exactly that unless
the import was canceled (`RowsFollow`); `StepFits` says what the dialog, the hook and the batch know of each other, for instance that
a batch on its way finds the buffer empty, which is why a failure loses no row that a later batch would miss.  The order is a
statement about positions (`Follows`), so that cutting and joining sequences (`FollowsPart`, `FollowsConcat`) needs no
induction.  `ImportsAreHonest` follows: the table is a prefix of the file.  `ExportInv`: while a table is read, the rows written and pending are those the
cursor has given (`TableInProgress`), the cursor has all rows of the table or one more than the budget (`CursorCoversTable`), and
the tables before it are written and noted (`TablesDone`).  `FilesAreAccounted` follows.

Of the data source, `ServerInv` is the server's side: a lost open call that may still arrive is the only one of its session
(`OpensOnce`), and a session serves no more than the result and streams below its budget (`ServedFits`).  It is inductive
by itself and makes each step of that server one of `StreamContract` (`DatasourceUsesContract`).  `DatasourceInv` adds the position
invariant: `position` is what the session has served, but for an answer on its way or lost (`PositionFits`), a request is for a
block that starts there (`RequestFits`), and the rows of its answer are those asked for (`AnswerFits`).  The cached blocks need more than they
promise: the one block that is not whole is where the budget cut the stream off, and the row count ends there until
that block is read again by offset (`BlockFits`, `CacheFits`; block starts are a block apart, `SameBlock`).  `TheResultIsShown` follows, under the
hypothesis `BlockSize <= OpenBlock`: the page sizes of 50 and 100 fulfil it, those of 200 and 500 do not, and
the run *cursor_page_size* shows what happens then.

**Found while proving.**  Definitions that TLC's instances could not tell from right ones were corrected from
the source when a proof failed: the contract let a stream begin as streaming with its budget used up
(`StreamContract`'s `Begin`); the cases in which a database accepts a change overlapped (`DbAccepts`), and those of what is
mounted under a tab that is no longer open (`WorkspaceTabs`, `Kind`); and a request of a
kind the DDL service does not know was let through, which it refuses.

**Model-checked only**: everything under fairness (`AbandonedStreamReleased`, `RemovedConnectionReleased`,
`EveryWaitEnds`, `EveryWriteEnds`, `GetRowsAnswered`, `ImportSettles`), which is out of the prover's reach with `ENABLED`.
In turn `PoolNotOverdrawn`
(`PoolIsNotOverdrawn`) is proved and has no run.  No module declares a `RECURSIVE` operator and no proof is by induction
over data.

## Where the code and its documentation disagree

Seven runs end in a counterexample on purpose: the property quotes what a comment or a document
says, and the trace shows what the code does (`findings` in `PROJECT.json`).

1. *cursor_leak*: `cursor-session.service.ts:102-107` throws between the first block and the
   registration without closing the cursor; nothing ever closes it.
2. *pool_orphan*: the rejection handler at `pool-manager.service.ts:228` deletes map entries by
   connection id; when another creation has taken the place, its pool is lost.
3. *target_clients_starve*: the per-connection cap does not keep streams from starving statements,
   because `open()` asks for a second client while it holds the first.
4. *cursor_page_size*: the editor's grid asks for blocks of the preferred page size
   (`SqlEditorView.tsx:928`; up to 500), an open call answers with 100 rows.  Above 100 the end of the
   first block stays blank, and all other blocks are paged by offset while the session idles, although
   `cursorDatasource.ts:25-26` says that sequential blocks stream.
5. *grid_overwrite*: `useEditBuffer.ts:65` replaces an entry's version while older edits of the row stay.
6. *edits_cross_tables*: `Workspace.tsx:142` mounts the table view without a key, so that a switch from one table straight
   to another keeps the staged edits, and a save sends them to the second table (`TableView.tsx:121-123`).
7. *migration_target*: the radio buttons that choose the source keep the list (`SchemaDiffView.tsx:323-330`), whose rows then
   go to the side they were taken from (`diff.util.ts:139`).

These were met while modelling and are part of what the models describe, but have no run of their own:

* **Pools**: a tunnel is lost when two creations of a connection overlap (`pool-manager.service.ts:247`,
  `258`; phase-32-ssh-tunneling.md:41); an older eviction closes the tunnel of a live pool (`203`;
  architecture-principles.md:173); a pool built from settings read before a save is cached after it
  (`215`; phase-25-readonly-guardrails.md:55); `poolLastUsed` entries without a pool use up the
  sweep's victims, so that the cap is not reached (`324`; phase-11-reliability-hardening.md:71); a
  cursor is counted only after `openCursor` has returned (`78-79`), so that a sweep in between may
  close its pool (`71-72`).  The properties delimit these: they say when such a loss can happen, and that it
  cannot otherwise.
* **SSH**: a save of the host while a first connect is under way has the old host's key stored for the new one
  (`pool-manager.service.ts:250`; the comment at `connections.service.ts:131`), so that the new host is refused; the
  connection form always sends `sshHost`, so that every save forgets the stored key
  (phase-32-ssh-tunneling.md:34-36); overlapping first connects may replace a stored key.  Not modelled: an SSH connection that
  is lost after it was ready is ignored (`ssh-tunnel.service.ts:89-92`), and a cached pool keeps pointing at a dead tunnel.
* **Cursors**: overlapping opens pass both caps and overlapping fetches the budget
  (`cursor-session.service.ts:30-31`; phase-22-streaming-results.md:64), by as much as
  `CapOvershootBounded` and `BudgetOvershootBounded` say.
* **Data source**: the server counts the rows it sends, `position` those that arrive
  (`cursorDatasource.ts:35`, `73`), so that after a lost answer the next blocks show rows that belong
  further down; a `destroy()` while the open call is in flight leaves a session to the reaper (`101`,
  `117`); after a reaped session the code goes on by offset (`79-82`), where
  phase-22-streaming-results.md:71-73 restarts from the top; with a page size of 50 the second block
  already goes by offset, since an open call answers with 100 rows.
* **Grid editor**: a save that is answered clears edits staged while it was in flight
  (`TableView.tsx:566`); the save shortcut is not disabled while one is pending, so that the first
  one's callbacks are dropped; with row versions, undo of an older batch of a row conflicts with the
  editor's own later save (`TableView.tsx:598`; phase-18-grid-editing-depth.md:86), which is why
  `UndoNeedsNobody` is stated for pre-images only.
* **Masking**: the rows a save answers with are not redacted and show masked values in the clear
  (`grid.service.ts:118-119`; phase-39, Decision 1); overlapping PATCHes carry whole mirrors, and the one served last
  undoes the other; a column marked and unmarked before the columns are read again leaves its cells as they are
  (`TableView.tsx:268-269`); the first read of the preferences may undo a mark made before it was answered (`AppLayout`: "without
  clobbering later user edits"); a write over a token conflicts where pre-images guard and succeeds where a version
  does; a masked column stays read-only when it is revealed (against phase-39, Decision 4); when the last mask is removed while
  values are revealed, the button that hides them is gone.
* **Scripts**: without "run as transaction", the statements of a script with its own BEGIN and COMMIT go
  to any client of the pool one by one, an error does not roll back, and a transaction may stay
  open in a pooled client that somebody else then joins or commits
  (phase-16-multi-statement-explain.md:20-29, 82); on SQLite "run as transaction" always throws,
  since `withSession` has begun a transaction before the service does (README.md:55-56); on MySQL,
  DDL in a transactional script commits what is before it (the comment at `query.service.ts:386`);
  a transactional script that throws, as when the answer to COMMIT is lost, is not audited although
  its writes may be committed; an autocommit statement whose answer was lost is audited as a
  failure although it may have taken effect; and the read-only flag is read once, before the script (`115`).
  The properties therefore speak of scripts that leave transactions to the service (`Plain`).
* **Tabs**: the answer of a script that comes after a switch is displayed under whatever query tab is mounted by
  then (`ForeignResultIsALateAnswer`), and is lost when none is; the last query tab is closed by the keyboard
  shortcut, against the comment on `applyClose` and phase-15:25; a switch of tabs and the shortcut discard staged edits without
  the question the close button asks (phase-40:153-155).
* **Import**: a cancel still inserts what is buffered, since the parser's `complete` follows an abort
  (`useCsvImport.ts:88`); after a failure the dialog stays in its importing step and can no longer be
  dismissed (`HeldWhileInFlightOnly`).
* **Export**: a JSON export that was cut off says nothing (`NeverTruncatedSilently`; phase-30:26); a table of exactly as
  many rows as the budget is noted as truncated although nothing is missing; a failed export ends like a complete file; a
  dump of several tables is not one snapshot.
* **Chat**: an answer that streams while the connection is switched is appended to a conversation of the other one
  (phase-10:7); a chat forks when an append overlaps with the end of the next turn (`ChatPanel.tsx:181-183`); Enter while an answer
  streams gives the auto-runs their budget back (phase-31:99); prompts and fed-back results are dropped while one streams; an append
  is two statements and no transaction; a conversation that is being loaded replaces the chat whose answer streams; the messages of an
  exchange carry the same `createdAt`.
* **Schema comparison**: on MySQL, changing one attribute of a column loses its length, UNSIGNED, character set and ON UPDATE
  (`mysql-sql.ts:161-170`; its own comment at `93-98`; `docs/260617-mysql-engine/MYSQL_SUPPORT_IMPLEMENTATION_PLAN.md:664` asks
  to preserve the type), and a column whose bare type MySQL refuses cannot be altered; an empty list means "in sync" to the view also when differences are left that no candidate expresses
  (`SchemaDiffView.tsx:342`); indexes and foreign keys that are identical on both sides are dropped and created; tables that refer to
  each other never reconcile; a foreign key is copied with the source's schema name.
* **Text functions, not modelled**: an unterminated `$$` splits at the next `;` (against `statement-splitter.ts:5-8`), dollars in
  names are taken for quotes, and MySQL's backticks, `#` and backslashes are not known to the splitter; a SELECT that ends in a `--`
  comment swallows the parenthesis of `buildPagedQuery`; in a PostgreSQL transaction, the fallback for a SELECT that was not parsed
  runs in a transaction that has failed; MySQL restates the default of a string column without quotes.

## What is not modelled

| Part | Why |
|---|---|
| SQL text, introspection, conversion of values, DTOs | data the properties do not tell apart; `GridRows`, `QueryScript` and `SchemaMigration` keep what the statements do |
| the bytes that pass a tunnel, ciphers | `SshTunnels` has the stages of an open and the keys |
| users and ownership checks | every handler refuses a foreign id before it touches any state |
| time | timeouts and ages are nondeterministic: they may happen whenever the code allows them to |
| crashes of the process | the API persists nothing that a model here keeps but the settings, the preferences and the conversations: for all else a restart is the initial state; a crash between the two statements of an append is the failure of the second |
| metadata, performance, session monitoring, history, the audit list, other preferences, snippets, auth | one statement on one database per request, no state in between |
| the AI model and its tool loop | external, between pure text functions |
| schema-only dumps, views, triggers and renames in DDL | one statement, validated like the ones that are modelled |
| statement splitting, paging, CSV quoting | pure functions of text, planned |
| the rest of the front end | rendering and caches of server answers |

`PROJECT.json` lists each component with its files, and what of it is left out.

## Plan

1. **Algorithms**: the statement splitter against a reference definition over a small alphabet, CSV
   quoting and its inverse.
2. **Retention and recording** of history and audit next to starring and clearing; the AI tool loop.
