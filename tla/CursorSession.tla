--------------------------- MODULE CursorSession ---------------------------
(***************************************************************************)
(* CursorSessionService (apps/api/src/query/cursor-session.service.ts) on  *)
(* top of the cursor wrapper of PoolManager.openCursor and the cursors the *)
(* drivers hand out: forward-only streaming sessions that pin one pooled   *)
(* client each.                                                            *)
(*                                                                         *)
(* Node runs one callback at a time, so a step of the model is the code    *)
(* between two awaits.  A cursor and the session that holds it share their *)
(* identity (the session id is a fresh UUID per open call), so one element *)
(* of Cursors stands for an open call, its cursor and its session.  A      *)
(* request that names a foreign or unknown session is answered 404 without *)
(* touching the state, so users do not appear.                             *)
(***************************************************************************)
EXTENDS Naturals, FiniteSets

CONSTANTS
  Cursors,      \* open calls, each with the cursor and session it creates
  Conns,        \* connections
  Fetches,      \* fetch calls that can be in flight at the same time
  MaxSessions,  \* STREAM_MAX_SESSIONS
  MaxPerConn,   \* STREAM_MAX_CURSORS_PER_CONNECTION
  MaxRows,      \* STREAM_MAX_ROWS, the row budget of one stream
  PageSize,     \* QUERY_PAGE_SIZE, the first block
  Limits,       \* values of FetchCursorDto.limit
  Totals,       \* how many rows a statement may produce
  MaxOpening    \* bound: open calls in flight at the same time

ASSUME CapsAssumption ==
  /\ MaxSessions \in Nat \ {0}
  /\ MaxPerConn \in Nat \ {0}
  /\ MaxOpening \in Nat \ {0}
ASSUME RowsAssumption ==
  /\ MaxRows \in Nat \ {0}
  /\ PageSize \in Nat \ {0}
  /\ Limits \subseteq Nat \ {0}
  /\ Totals \subseteq Nat
\* FetchCursorDto caps the limit.
ASSUME LimitsAssumption == \E n \in Limits : \A m \in Limits : m <= n
ASSUME FiniteAssumption == IsFiniteSet(Cursors) /\ IsFiniteSet(Fetches)

VARIABLES
  opening,   \* [Cursors -> OpenStage]: where the open call is
  conn,      \* [Cursors -> Conns]: the connection the call named
  live,      \* keys of the sessions map
  idle,      \* live sessions whose lastUsed is older than idleMs
  pos,       \* session.position: rows served from the cursor so far
  left,      \* rows the cursor would still hand out, chosen by the database
  cur,       \* the driver's cursor
  counted,   \* cursors PoolManager.activeCursors still counts
  fetch,     \* fetch calls in flight
  running    \* FALSE once onModuleDestroy has run

vars == <<opening, conn, live, idle, pos, left, cur, counted, fetch, running>>

\* "abandoned" is an open call that threw between its first block and the
\* registration of its session.
OpenStage == {"none", "opening", "first", "describing",
              "done", "rejected", "failed", "abandoned"}

\* "draining": the driver closes an exhausted cursor inside fetch();
\* "closing": the wrapper's close() awaits the driver's.
CursorState == {"none", "open", "draining", "closing", "closed"}

\* A call in fetch(): how many rows it asked for, and how many it has taken.
\* "drained" awaits the driver's close of an exhausted cursor.
NoFetch == [stage |-> "none"]
InFetch(stage, c, block, got) ==
  [stage |-> stage, sid |-> c, block |-> block, got |-> got]

FetchCall ==
  {NoFetch}
    \cup [stage : {"reading", "drained"}, sid : Cursors, block : Nat \ {0}, got : Nat]

TypeOK ==
  /\ opening \in [Cursors -> OpenStage]
  /\ conn \in [Cursors -> Conns]
  /\ live \subseteq Cursors
  /\ idle \subseteq live
  /\ pos \in [Cursors -> Nat]
  /\ left \in [Cursors -> Nat]
  /\ cur \in [Cursors -> CursorState]
  /\ counted \subseteq Cursors
  /\ fetch \in [Fetches -> FetchCall]
  /\ running \in BOOLEAN

Init ==
  /\ opening = [c \in Cursors |-> "none"]
  /\ conn \in [Cursors -> Conns]
  /\ live = {}
  /\ idle = {}
  /\ pos = [c \in Cursors |-> 0]
  /\ left \in [Cursors -> Totals]
  /\ cur = [c \in Cursors |-> "none"]
  /\ counted = {}
  /\ fetch = [f \in Fetches |-> NoFetch]
  /\ running = TRUE

-----------------------------------------------------------------------------
(* Helpers. *)

SessionsOf(k) == {c \in live : conn[c] = k}

InFlight == {c \in Cursors : opening[c] \in {"opening", "first", "describing"}}

Smaller(m, n) == IF m <= n THEN m ELSE n

\* Mutant of HasCapacity: compares with <= and admits one session too many.
HasCapacityOffByOne(k) ==
  /\ Cardinality(live) < MaxSessions
  /\ Cardinality(SessionsOf(k)) <= MaxPerConn

HasCapacity(k) ==
  /\ Cardinality(live) < MaxSessions
  /\ Cardinality(SessionsOf(k)) < MaxPerConn

\* Mutant of CloseHandles: the count is released without awaiting the driver.
CloseHandlesEarlyRelease(S) ==
  /\ cur' = [c \in Cursors |->
               IF c \in S /\ cur[c] = "open" THEN "closing" ELSE cur[c]]
  /\ counted' = counted \ S

\* The close() of PoolManager's cursor handle, called on every cursor of S.
\* An open driver cursor starts closing and keeps its count until that ends;
\* on any other the driver's close() returns at once (its closed flag is
\* set), so releaseAccounting runs now.
CloseHandles(S) ==
  /\ cur' = [c \in Cursors |->
               IF c \in S /\ cur[c] = "open" THEN "closing" ELSE cur[c]]
  /\ counted' = {c \in counted : c \in S => cur[c] \in {"open", "closing"}}

\* closeSession for every id of S: forget the session, then close its handle.
\* An id that is no longer in the map is skipped.
CloseSessions(S) ==
  /\ live' = live \ S
  /\ idle' = idle \ S
  /\ CloseHandles(S \cap live)

-----------------------------------------------------------------------------
(* open(): capacity check, cursor, first block, columns, registration. *)

AssertCapacity(c) ==
  /\ running
  /\ opening[c] = "none"
  /\ Cardinality(InFlight) < MaxOpening
  /\ opening' = [opening EXCEPT ![c] =
                   IF HasCapacity(conn[c]) THEN "opening" ELSE "rejected"]
  /\ UNCHANGED <<conn, live, idle, pos, left, cur, counted, fetch, running>>

OpenCursor(c) ==
  /\ opening[c] = "opening"
  /\ opening' = [opening EXCEPT ![c] = "first"]
  /\ cur' = [cur EXCEPT ![c] = "open"]
  /\ counted' = counted \cup {c}
  /\ UNCHANGED <<conn, live, idle, pos, left, fetch, running>>

OpenCursorFails(c) ==
  /\ opening[c] = "opening"
  /\ opening' = [opening EXCEPT ![c] = "failed"]
  /\ UNCHANGED <<conn, live, idle, pos, left, cur, counted, fetch, running>>

FirstBlock(c) ==
  LET n == Smaller(PageSize, left[c])
  IN  /\ opening[c] = "first"
      /\ opening' = [opening EXCEPT ![c] = "describing"]
      /\ pos' = [pos EXCEPT ![c] = n]
      /\ left' = [left EXCEPT ![c] = @ - n]
      /\ cur' = [cur EXCEPT ![c] = IF n < PageSize THEN "draining" ELSE "open"]
      /\ UNCHANGED <<conn, live, idle, counted, fetch, running>>

\* Mutant of FirstBlockFails: rethrows without closing the cursor.
FirstBlockFailsOpen(c) ==
  /\ opening[c] = "first"
  /\ opening' = [opening EXCEPT ![c] = "failed"]
  /\ UNCHANGED <<conn, live, idle, pos, left, cur, counted, fetch, running>>

FirstBlockFails(c) ==
  /\ opening[c] = "first"
  /\ opening' = [opening EXCEPT ![c] = "failed"]
  /\ CloseHandles({c})
  /\ UNCHANGED <<conn, live, idle, pos, left, fetch, running>>

\* Editability and columns resolved.  The stream is registered unless its
\* first block already ended it; a short one has closed the cursor.
Register(c) ==
  LET complete  == cur[c] = "closed"
      truncated == ~complete /\ pos[c] >= MaxRows
  IN  /\ opening[c] = "describing"
      /\ cur[c] # "draining"
      /\ opening' = [opening EXCEPT ![c] = "done"]
      /\ IF complete \/ truncated
           THEN CloseHandles({c}) /\ UNCHANGED live
           ELSE live' = live \cup {c} /\ UNCHANGED <<cur, counted>>
      /\ UNCHANGED <<conn, idle, pos, left, fetch, running>>

\* analyzeSelectEditability or describeColumns throws: open() leaves without
\* registering and without closing the cursor.
DescribeFails(c) ==
  /\ opening[c] = "describing"
  /\ cur[c] # "draining"
  /\ opening' = [opening EXCEPT ![c] = "abandoned"]
  /\ UNCHANGED <<conn, live, idle, pos, left, cur, counted, fetch, running>>

-----------------------------------------------------------------------------
(* fetch(): the row budget is read before the await, position is advanced  *)
(* after it, and nothing in between looks at the session again.  Calls     *)
(* that overlap share the cursor: pg-cursor answers them one by one, the   *)
(* MySQL iterator hands its rows to whoever asks next.  Rows that were on  *)
(* their way when a close came count as taken before it.                   *)

\* Mutant of StartFetch: the block is not cut to what is left of the budget.
StartFetchWholeBlock(f, c, limit) ==
  /\ running
  /\ c \in live
  /\ fetch[f] = NoFetch
  /\ IF pos[c] >= MaxRows
       THEN CloseSessions({c}) /\ UNCHANGED fetch
       ELSE /\ idle' = idle \ {c}
            /\ fetch' = [fetch EXCEPT ![f] = InFetch("reading", c, limit, 0)]
            /\ UNCHANGED <<live, cur, counted>>
  /\ UNCHANGED <<opening, conn, pos, left, running>>

StartFetch(f, c, limit) ==
  LET remaining == MaxRows - pos[c]
  IN  /\ running
      /\ c \in live
      /\ fetch[f] = NoFetch
      /\ IF pos[c] >= MaxRows
           THEN CloseSessions({c}) /\ UNCHANGED fetch
           ELSE /\ idle' = idle \ {c}
                /\ fetch' = [fetch EXCEPT ![f] =
                               InFetch("reading", c, Smaller(limit, remaining), 0)]
                /\ UNCHANGED <<live, cur, counted>>
      /\ UNCHANGED <<opening, conn, pos, left, running>>

\* The read receives rows of the cursor.
TakeRows(f) ==
  LET c == fetch[f].sid
  IN  /\ fetch[f].stage = "reading"
      /\ cur[c] = "open"
      /\ \E n \in 1..Smaller(fetch[f].block - fetch[f].got, left[c]) :
           /\ fetch' = [fetch EXCEPT ![f].got = @ + n]
           /\ left' = [left EXCEPT ![c] = @ - n]
      /\ UNCHANGED <<opening, conn, live, idle, pos, cur, counted, running>>

\* Mutant of FullBlock: the budget test is off by one.
FullBlockPastBudget(f) ==
  LET c == fetch[f].sid
      n == fetch[f].block
  IN  /\ fetch[f].stage = "reading"
      /\ fetch[f].got = n
      /\ fetch' = [fetch EXCEPT ![f] = NoFetch]
      /\ pos' = [pos EXCEPT ![c] = @ + n]
      /\ IF pos[c] + n > MaxRows
           THEN CloseSessions({c})
           ELSE UNCHANGED <<live, idle, cur, counted>>
      /\ UNCHANGED <<opening, conn, left, running>>

\* A full block, of a session that may have ended meanwhile: it continues unless
\* the budget is spent.
FullBlock(f) ==
  LET c == fetch[f].sid
      n == fetch[f].block
  IN  /\ fetch[f].stage = "reading"
      /\ fetch[f].got = n
      /\ fetch' = [fetch EXCEPT ![f] = NoFetch]
      /\ pos' = [pos EXCEPT ![c] = @ + n]
      /\ IF pos[c] + n >= MaxRows
           THEN CloseSessions({c})
           ELSE UNCHANGED <<live, idle, cur, counted>>
      /\ UNCHANGED <<opening, conn, left, running>>

\* A short block: the driver closes the exhausted cursor before it answers.
LastBlock(f) ==
  LET c == fetch[f].sid
  IN  /\ fetch[f].stage = "reading"
      /\ fetch[f].got < fetch[f].block
      /\ cur[c] = "open"
      /\ left[c] = 0
      /\ fetch' = [fetch EXCEPT ![f].stage = "drained"]
      /\ cur' = [cur EXCEPT ![c] = "draining"]
      /\ UNCHANGED <<opening, conn, live, idle, pos, left, counted, running>>

\* fetch() goes on after a short block.
ServesLastRows(f) ==
  LET c == fetch[f].sid
  IN  /\ fetch' = [fetch EXCEPT ![f] = NoFetch]
      /\ pos' = [pos EXCEPT ![c] = @ + fetch[f].got]
      /\ CloseSessions({c})
      /\ UNCHANGED <<opening, conn, left, running>>

CompleteFetch(f) ==
  /\ fetch[f].stage = "drained"
  /\ cur[fetch[f].sid] # "draining"
  /\ ServesLastRows(f)

\* A short block of a cursor that another call has closed or is closing: the
\* driver's close() returns at once.
FetchClosed(f) ==
  /\ fetch[f].stage = "reading"
  /\ fetch[f].got < fetch[f].block
  /\ cur[fetch[f].sid] # "open"
  /\ ServesLastRows(f)

\* The read is rejected, by the target or because the cursor was closed: nothing
\* catches it, the session stays as it is, and the cursor has no more rows.
FetchFails(f) ==
  /\ fetch[f].stage = "reading"
  /\ fetch' = [fetch EXCEPT ![f] = NoFetch]
  /\ left' = [left EXCEPT ![fetch[f].sid] = 0]
  /\ UNCHANGED <<opening, conn, live, idle, pos, cur, counted, running>>

-----------------------------------------------------------------------------
(* close(), the reaper, shutdown, the driver and the clock. *)

Close(c) ==
  /\ running
  /\ c \in live
  /\ CloseSessions({c})
  /\ UNCHANGED <<opening, conn, pos, left, fetch, running>>

\* Mutant of Reap: drops the sessions from the map and forgets their cursors.
ReapForgetsCursors ==
  /\ running
  /\ idle # {}
  /\ live' = live \ idle
  /\ idle' = {}
  /\ UNCHANGED <<opening, conn, pos, left, cur, counted, fetch, running>>

Reap ==
  /\ running
  /\ idle # {}
  /\ CloseSessions(idle)
  /\ UNCHANGED <<opening, conn, pos, left, fetch, running>>

OnModuleDestroy ==
  /\ running
  /\ running' = FALSE
  /\ CloseSessions(live)
  /\ UNCHANGED <<opening, conn, pos, left, fetch>>

\* The driver's close() is done and the client is back in its pool.  A close
\* started by the wrapper then drops the count; a draining fetch does not.
DriverClosed(c) ==
  /\ cur[c] \in {"draining", "closing"}
  /\ cur' = [cur EXCEPT ![c] = "closed"]
  /\ counted' = IF cur[c] = "closing" THEN counted \ {c} ELSE counted
  /\ UNCHANGED <<opening, conn, live, idle, pos, left, fetch, running>>

\* More than idleMs has passed since the session's last fetch began.
GrowIdle(c) ==
  /\ c \in live \ idle
  /\ idle' = idle \cup {c}
  /\ UNCHANGED <<opening, conn, live, pos, left, cur, counted, fetch, running>>

-----------------------------------------------------------------------------

OpenStep(c) ==
  \/ AssertCapacity(c)
  \/ OpenCursor(c)
  \/ OpenCursorFails(c)
  \/ FirstBlock(c)
  \/ FirstBlockFails(c)
  \/ Register(c)
  \/ DescribeFails(c)

FetchReturns(f) ==
  \/ TakeRows(f)
  \/ FullBlock(f)
  \/ LastBlock(f)
  \/ CompleteFetch(f)
  \/ FetchFails(f)
  \/ FetchClosed(f)

Next ==
  \/ \E c \in Cursors : OpenStep(c)
  \/ \E c \in Cursors : Close(c) \/ DriverClosed(c) \/ GrowIdle(c)
  \/ \E f \in Fetches, c \in Cursors, limit \in Limits : StartFetch(f, c, limit)
  \/ \E f \in Fetches : FetchReturns(f)
  \/ Reap
  \/ OnModuleDestroy

Spec == Init /\ [][Next]_vars

\* Timers fire and the driver settles every close(); nothing obliges a client
\* to call, or the target database to answer a read.
Fairness ==
  /\ WF_vars(Reap)
  /\ \A c \in Cursors : WF_vars(GrowIdle(c)) /\ WF_vars(DriverClosed(c))

FairSpec == Spec /\ Fairness

-----------------------------------------------------------------------------
(* Properties. *)

FetchOn(c) == \E f \in Fetches : fetch[f] # NoFetch /\ fetch[f].sid = c

\* An open driver cursor always has someone who will close it - its open call
\* or its session - except when the open call threw after the first block
\* (cursor-session.service.ts:102-107).  The finally/catch paths of open(),
\* fetch(), close() and the reaper leave nothing else behind.
OpenCursorHasOwner ==
  \A c \in Cursors :
    cur[c] = "open" =>
      \/ opening[c] \in {"first", "describing", "abandoned"}
      \/ c \in live

\* A cursor is counted from its opening until the wrapper's close of it is done, and
\* while it is counted the idle and LRU sweeps leave its pool alone.  A cursor that
\* fetch() has exhausted and is still closing is counted too, unless another call ended
\* its session meanwhile: the wrapper then gives the count back before the driver has
\* given back the client (pg-driver.ts:276-292).  And the count does not outlive
\* the last call and the session that could close the cursor.
CountFollowsCursor ==
  \A c \in Cursors :
    /\ cur[c] \in {"open", "closing"} => c \in counted
    /\ cur[c] = "draining" /\ c \notin counted => opening[c] = "done" /\ c \notin live
    /\ c \in counted /\ cur[c] = "closed" =>
         opening[c] \in {"describing", "abandoned"} \/ c \in live

\* A registered session always has budget left, so fetch() never opens with a
\* spent budget: every path that spends it ends the session in the same step.
LiveSessionHasBudget ==
  \A c \in live : pos[c] < MaxRows /\ opening[c] = "done"

\* Overlapping fetches each cut their block to the budget that was left when they
\* began, and may all be answered in full: besides the first block, a stream serves at
\* most its budget and one block for each call that can overlap another.
BudgetOvershootBounded ==
  \A c \in Cursors :
    \/ pos[c] <= PageSize
    \/ \E n \in Limits : pos[c] <= MaxRows + (Cardinality(Fetches) - 1) * n

\* The caps are checked against registered sessions only, several
\* awaits before the new one is registered: they can be passed, but by no more
\* than the open calls that overlap.
CapOvershootBounded ==
  /\ Cardinality(live) < MaxSessions + MaxOpening
  /\ \A k \in Conns : Cardinality(SessionsOf(k)) < MaxPerConn + MaxOpening

\* Every cursor that was opened is closed, or can still be closed by the call
\* or the session that holds it.
NoAbandonedCursor ==
  \A c \in Cursors : opening[c] = "abandoned" => cur[c] # "open"

\* An abandoned stream does not hold a client forever: once no fetch of a
\* registered session is in flight any more, its cursor is closed and its
\* count given back (the process not being shut down).
AbandonedStreamReleased ==
  \A c \in Cursors :
    []( c \in live /\ <>[]~FetchOn(c)
          => <>(~running \/ (cur[c] = "closed" /\ c \notin counted)) )

-----------------------------------------------------------------------------
(* The inductive strengthening behind the invariants above. *)

\* How far a call has come fixes what its cursor and session can be.
StageFitsCursor ==
  \A c \in Cursors :
    /\ opening[c] \in {"none", "opening", "rejected"} => cur[c] = "none"
    /\ cur[c] = "none" => c \notin counted
    /\ c \in live => opening[c] = "done" /\ pos[c] < MaxRows
    /\ cur[c] = "open" =>
         c \in live \/ opening[c] \in {"first", "describing", "abandoned"}
    /\ opening[c] = "first" => cur[c] = "open"
    /\ opening[c] = "describing" =>
         cur[c] \in {"open", "draining", "closed"} /\ pos[c] <= PageSize

\* A cursor is counted until the wrapper closes it, and no longer.
CountIsDue ==
  \A c \in Cursors :
    /\ cur[c] \in {"open", "closing"} => c \in counted
    /\ cur[c] = "draining" /\ c \notin counted => opening[c] = "done" /\ c \notin live
    /\ cur[c] \in {"draining", "closed"} /\ c \in counted =>
         c \in live \/ opening[c] \in {"describing", "abandoned"}

\* A fetch is on a stream that was registered, of a block within the limits; one
\* that holds last rows has left the cursor closed or closing.
FetchesFit ==
  \A f \in Fetches :
    fetch[f] # NoFetch =>
      /\ opening[fetch[f].sid] = "done"
      /\ fetch[f].got <= fetch[f].block
      /\ \E n \in Limits : fetch[f].block <= n
      /\ fetch[f].stage = "drained" =>
           cur[fetch[f].sid] # "open" /\ fetch[f].got < fetch[f].block

FetchesOf(c) == {f \in Fetches : fetch[f] # NoFetch /\ fetch[f].sid = c}

\* The largest block a call may ask for, and the most rows a stream may serve.
LargestBlock == CHOOSE n \in Limits : \A m \in Limits : m <= n
MostRows == MaxRows + (Cardinality(Fetches) - 1) * LargestBlock

\* Some fetch in flight is the one that began last: its block fits in the budget of
\* its beginning, and each of the others can add one more.
PositionFits ==
  \A c \in Cursors :
    \/ FetchesOf(c) = {} /\ (pos[c] <= PageSize \/ pos[c] <= MostRows)
    \/ \E f \in FetchesOf(c) :
         pos[c] + fetch[f].block + (Cardinality(FetchesOf(c)) - 1) * LargestBlock <= MostRows

\* Calls that have passed the capacity check count like sessions, in all and on
\* each connection.
Admitted == live \cup InFlight
AdmittedOn(k) == {c \in Admitted : conn[c] = k}
AdmissionBounded ==
  /\ Cardinality(Admitted) < MaxSessions + MaxOpening
  /\ \A k \in Conns : Cardinality(AdmittedOn(k)) < MaxPerConn + MaxOpening

StreamInv ==
  /\ TypeOK
  /\ StageFitsCursor
  /\ CountIsDue
  /\ FetchesFit
  /\ PositionFits

-----------------------------------------------------------------------------
(* What a client is promised about one stream. *)

Phase(c) ==
  CASE opening[c] \in {"none", "opening", "first", "describing"} -> "unopened"
    [] c \in live -> "streaming"
    [] OTHER -> "ended"

Served(c) == IF opening[c] = "done" THEN pos[c] ELSE 0

Call(f) == IF fetch[f] = NoFetch
             THEN [upTo |-> 0]
             ELSE [on |-> fetch[f].sid, upTo |-> fetch[f].block]

Contract == INSTANCE StreamContract WITH
  Streams <- Cursors,
  Budget  <- MaxRows,
  Blocks  <- Limits \cup {PageSize},
  Calls   <- Fetches,
  phase   <- [c \in Cursors |-> Phase(c)],
  served  <- [c \in Cursors |-> Served(c)],
  calls   <- [f \in Fetches |-> Call(f)]

\* The service implements the stream contract: a stream begins once, accepts calls
\* only while it is streaming and never for more than the rest of its budget, answers
\* each at most once and with no more than was asked for, ends with a short answer or
\* a spent budget, and never comes back; a call that was accepted may still be answered
\* after the end.
ImplementsContract == Contract!Spec
=============================================================================
