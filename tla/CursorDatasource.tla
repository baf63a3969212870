-------------------------- MODULE CursorDatasource --------------------------
(***************************************************************************)
(* The grid's data source for a large editor result                        *)
(* (apps/web/src/workspace/cursorDatasource.ts): blocks that follow on one *)
(* another come from a cursor session, all others from the offset          *)
(* endpoint.  Requests and answers may be lost, the server may reap the    *)
(* session, the user may sort or leave at any moment.                      *)
(*                                                                         *)
(* The grid (AG Grid, infinite row model) has one getRows outstanding,     *)
(* asks for any block below the row count it believes in, and may drop and *)
(* reload blocks.  The server is what StreamContract promises, with rows.  *)
(***************************************************************************)
EXTENDS StreamSizes, FiniteSets

VARIABLES
  sessionId,  \* 0 for null
  position,   \* rows served from the live cursor, as the data source counts
  alive,      \* the grid has not destroyed its data source
  order,      \* the current sort
  cache,      \* the grid's blocks by start row
  known,      \* the grid's row count
  ended,      \* the grid takes its row count for final
  told,       \* onTruncated has been called since the last sort
  request,    \* the outstanding getRows
  answer,     \* what is on its way back to it
  strays,     \* requests given up by the browser that may still reach the server
  deletes,    \* DELETE requests on their way
  opens,      \* open calls so far; each has its session
  sessionPhase, served, sorted,  \* the server's sessions
  length,     \* rows of the result
  lost        \* sessions of which a request or an answer was lost

grid == <<alive, order, cache, known, ended, told>>
server == <<sessionPhase, served, sorted, length>>
datasourceVars == <<sessionId, position, grid, request, answer, strays, deletes, opens, server, lost>>

Sessions == 1..MaxOpens

Idle == [kind |-> "idle"]
GridCalls ==
  [kind : {"open", "fetch", "page"}, start : Nat, order : 0..MaxSorts, id : 0..MaxOpens]

None == [status |-> "none"]
Gone == [status |-> "gone"]
Failed == [status |-> "failed"]
Rows(from, n, ord, complete, truncated) ==
  [status |-> "rows", from |-> from, n |-> n, order |-> ord,
   complete |-> complete, truncated |-> truncated]

Answers ==
  {None, Gone, Failed} \cup
    [status : {"rows"}, from : Nat, n : Nat, order : 0..MaxSorts,
     complete : BOOLEAN, truncated : BOOLEAN]

Blocks == [from : Nat, n : Nat, order : 0..MaxSorts, via : 0..MaxOpens]

DatasourceTypeOK ==
  /\ sessionId \in 0..opens /\ opens \in 0..MaxOpens /\ position \in Nat
  /\ alive \in BOOLEAN /\ ended \in BOOLEAN /\ told \in BOOLEAN
  /\ order \in 0..MaxSorts /\ known \in Nat
  /\ DOMAIN cache \subseteq Nat /\ cache \in [DOMAIN cache -> Blocks]
  /\ request \in {Idle} \cup GridCalls /\ (request = Idle => answer = None)
  /\ answer \in Answers /\ length \in Nat
  /\ strays \subseteq GridCalls /\ deletes \subseteq Sessions /\ lost \subseteq Sessions
  /\ sessionPhase \in [Sessions -> {"unopened", "streaming", "ended"}]
  /\ served \in [Sessions -> Nat] /\ sorted \in [Sessions -> 0..MaxSorts]

DatasourceInit ==
  /\ sessionId = 0 /\ position = 0
  /\ alive = TRUE /\ order = 0 /\ cache = <<>> /\ known = 1 /\ ended = FALSE /\ told = FALSE
  /\ request = Idle /\ answer = None /\ strays = {} /\ deletes = {} /\ opens = 0
  /\ sessionPhase = [s \in Sessions |-> "unopened"]
  /\ served = [s \in Sessions |-> 0] /\ sorted = [s \in Sessions |-> 0]
  /\ length \in Lengths
  /\ lost = {}

-----------------------------------------------------------------------------
(* getRows and destroy. *)

Smaller(m, n) == IF m <= n THEN m ELSE n
Larger(m, n) == IF m <= n THEN n ELSE m

Sends(kind, start, id) ==
  request' = [kind |-> kind, start |-> start, order |-> order, id |-> id]

CloseSession ==
  /\ sessionId' = 0
  /\ position' = IF sessionId = 0 THEN position ELSE 0
  /\ deletes' = deletes \cup ({sessionId} \ {0})

\* A block the grid may ask for.
Wanted(start) == alive /\ request = Idle /\ start < known

\* The block that follows on what the live cursor has served.
Forward(start) == sessionId # 0 /\ start = position

GetForward(start) ==
  /\ Wanted(start)
  /\ Forward(start)
  /\ Sends("fetch", start, sessionId)
  /\ UNCHANGED <<sessionId, position, grid, answer, strays, deletes, opens, server, lost>>

\* The top of the result opens a new cursor.
GetTop(start) ==
  /\ Wanted(start)
  /\ ~Forward(start)
  /\ start = 0
  /\ opens < MaxOpens
  /\ opens' = opens + 1
  /\ CloseSession
  /\ Sends("open", 0, opens + 1)
  /\ UNCHANGED <<grid, answer, strays, server, lost>>

\* Any other block goes by offset and leaves the cursor where it is.
GetByOffset(start) ==
  /\ Wanted(start)
  /\ ~Forward(start)
  /\ start # 0
  /\ Sends("page", start, 0)
  /\ UNCHANGED <<sessionId, position, grid, answer, strays, deletes, opens, server, lost>>

Destroy ==
  /\ alive
  /\ alive' = FALSE
  /\ CloseSession
  /\ UNCHANGED <<order, cache, known, ended, told, request, answer, strays, opens, server, lost>>

\* The grid resets its cache; the outstanding request goes on.
Sort ==
  /\ alive
  /\ order < MaxSorts
  /\ order' = order + 1
  /\ cache' = <<>> /\ known' = 1 /\ ended' = FALSE /\ told' = FALSE
  /\ UNCHANGED <<sessionId, position, alive, request, answer, strays, deletes, opens, server, lost>>

-----------------------------------------------------------------------------
(* The server. *)

\* The rows a live session hands out next.
NextBlock(s) ==
  LET size     == Smaller(BlockSize, RowBudget - served[s])
      left     == length - served[s]
      n        == Smaller(size, left)
      complete == left < size
      budget   == ~complete /\ served[s] + n >= RowBudget
  IN  Rows(served[s], n, sorted[s], complete \/ budget, budget)

FirstBlock(call) ==
  LET complete == length < OpenBlock
      n        == Smaller(OpenBlock, length)
      budget   == ~complete /\ n >= RowBudget
  IN  Rows(0, n, call.order, complete \/ budget, budget)

Page(call) ==
  Rows(call.start, IF length <= call.start THEN 0 ELSE Smaller(BlockSize, length - call.start),
       call.order, length <= call.start + BlockSize, FALSE)

\* Mutant of Response: a session that has ended still answers.
ResponseAfterEnd(call) ==
  CASE call.kind = "page" -> Page(call)
    [] call.kind = "open" -> FirstBlock(call)
    [] OTHER -> NextBlock(call.id)

\* What the server answers: 404 for a session it does not have.
Response(call) ==
  CASE call.kind = "page" -> Page(call)
    [] call.kind = "open" -> FirstBlock(call)
    [] call.kind = "fetch" /\ sessionPhase[call.id] = "streaming" -> NextBlock(call.id)
    [] OTHER -> Gone

\* What a call that reaches the server changes there.
Executes(call) ==
  LET s == call.id
      r == Response(call)
  IN  IF call.kind = "page" \/ r = Gone
        THEN UNCHANGED <<sessionPhase, served, sorted>>
        ELSE /\ sessionPhase' = [sessionPhase EXCEPT ![s] = IF r.complete THEN "ended" ELSE "streaming"]
             /\ served' = [served EXCEPT ![s] = @ + r.n]
             /\ sorted' = [sorted EXCEPT ![s] = r.order]

Serve ==
  /\ request # Idle
  /\ answer = None
  /\ answer' = Response(request)
  /\ Executes(request)
  /\ UNCHANGED <<sessionId, position, grid, request, strays, deletes, opens, length, lost>>

\* The call fails on the server, which leaves its session as it is.
ServeFails ==
  /\ request # Idle
  /\ answer = None
  /\ answer' = Failed
  /\ UNCHANGED <<sessionId, position, grid, request, strays, deletes, opens, server, lost>>

Loses(ids) ==
  /\ lost' = lost \cup ids
  /\ Cardinality(lost') <= MaxLost

\* The request or its answer is lost: the browser sees a failure.
Lose ==
  /\ request # Idle
  /\ answer.status \in {"none", "rows"}
  /\ answer' = Failed
  /\ strays' = IF answer = None /\ request.kind # "page" THEN strays \cup {request} ELSE strays
  /\ Loses({request.id} \ {0})
  /\ UNCHANGED <<sessionId, position, grid, request, deletes, opens, server>>

ServeStray(call) ==
  /\ call \in strays
  /\ strays' = strays \ {call}
  /\ Executes(call)
  /\ UNCHANGED <<sessionId, position, grid, request, answer, deletes, opens, length, lost>>

Ends(s) == sessionPhase' = [sessionPhase EXCEPT ![s] = IF @ = "streaming" THEN "ended" ELSE @]

Delete(s) ==
  /\ s \in deletes
  /\ deletes' = deletes \ {s}
  /\ \/ Ends(s) /\ UNCHANGED lost
     \/ UNCHANGED sessionPhase /\ Loses({s})
  /\ UNCHANGED <<sessionId, position, grid, request, answer, strays, opens, served, sorted, length>>

\* The reaper, or the shutdown of the server.
Reap(s) ==
  /\ sessionPhase[s] = "streaming"
  /\ Ends(s)
  /\ UNCHANGED <<sessionId, position, grid, request, answer, strays, deletes, opens,
                 served, sorted, length, lost>>

-----------------------------------------------------------------------------
(* The callbacks. *)

Settles == request' = Idle /\ answer' = None

\* successCallback: a block of the current cache is shown, extra rows are not.
\* A last row is final; without one the grid expects at least one more row.
Shows(hasLast, last) ==
  IF alive /\ request.order = order
    THEN /\ cache' = [s \in DOMAIN cache \cup {request.start} |->
                        IF s = request.start
                          THEN [from |-> answer.from, n |-> Smaller(answer.n, BlockSize),
                                order |-> answer.order, via |-> request.id]
                          ELSE cache[s]]
         /\ known' = IF hasLast THEN last
                     ELSE IF ended THEN known ELSE Larger(known, request.start + BlockSize + 1)
         /\ ended' = (ended \/ hasLast)
    ELSE UNCHANGED <<cache, known, ended>>

Answered(kind, status) == request.kind = kind /\ answer.status = status

OpenAnswered ==
  /\ Answered("open", "rows")
  /\ sessionId' = IF answer.complete THEN 0 ELSE request.id
  /\ position' = answer.n
  /\ told' = (told \/ answer.truncated)
  /\ Shows(answer.complete, answer.n)
  /\ Settles
  /\ UNCHANGED <<alive, order, strays, deletes, opens, server, lost>>

\* Mutant of FetchAnswered: nobody is told of the budget.
FetchAnsweredUntold ==
  /\ Answered("fetch", "rows")
  /\ position' = position + answer.n
  /\ Shows(answer.complete, position')
  /\ Settles
  /\ UNCHANGED <<sessionId, alive, order, told, strays, deletes, opens, server, lost>>

\* sessionId stays when the last block has come: the session is gone already.
FetchAnswered ==
  /\ Answered("fetch", "rows")
  /\ position' = position + answer.n
  /\ told' = (told \/ answer.truncated)
  /\ Shows(answer.complete, position')
  /\ Settles
  /\ UNCHANGED <<sessionId, alive, order, strays, deletes, opens, server, lost>>

\* Mutant of FetchGone: no fallback for the block at hand.
FetchGoneForgets ==
  /\ Answered("fetch", "gone")
  /\ CloseSession
  /\ UNCHANGED <<grid, request, answer, strays, opens, server, lost>>

\* The session was reaped or has expired: its block, and those after it, go by
\* offset.
FetchGone ==
  /\ Answered("fetch", "gone")
  /\ CloseSession
  /\ request' = [request EXCEPT !.kind = "page", !.id = 0]
  /\ answer' = None
  /\ UNCHANGED <<grid, strays, opens, server, lost>>

PageAnswered ==
  /\ Answered("page", "rows")
  /\ Shows(answer.complete, request.start + answer.n)
  /\ Settles
  /\ UNCHANGED <<sessionId, position, alive, order, told, strays, deletes, opens, server, lost>>

\* failCallback: the block stays empty until the grid asks again.
ErrorAnswered ==
  /\ request # Idle
  /\ answer = Failed
  /\ Settles
  /\ UNCHANGED <<sessionId, position, grid, strays, deletes, opens, server, lost>>

-----------------------------------------------------------------------------

Callback == OpenAnswered \/ FetchAnswered \/ FetchGone \/ PageAnswered \/ ErrorAnswered

\* The grid's blocks start at multiples of its block size.
BlockStarts == {k * BlockSize : k \in 0..known}

DatasourceNext ==
  \/ \E start \in BlockStarts : GetForward(start) \/ GetTop(start) \/ GetByOffset(start)
  \/ Destroy \/ Sort
  \/ Serve \/ ServeFails \/ Lose
  \/ \E call \in strays : ServeStray(call)
  \/ \E s \in Sessions : Delete(s) \/ Reap(s)
  \/ OpenAnswered \/ FetchAnswered \/ FetchGone \/ PageAnswered \/ ErrorAnswered

DatasourceSpec == DatasourceInit /\ [][DatasourceNext]_datasourceVars

\* A request is answered or its loss noticed, and callbacks run.
DatasourceFairness == WF_datasourceVars(Serve \/ ServeFails \/ Lose) /\ WF_datasourceVars(Callback)

-----------------------------------------------------------------------------
(* Properties. *)

\* A block shows the rows from its start on, all of them unless the stream was
\* cut off there, in the current order; however often sessions end, blocks are
\* reloaded and the sort changes.  The exception: a session of which an answer was
\* lost has handed out rows its data source does not know of.
BlocksHoldTheirRows ==
  \A s \in DOMAIN cache : cache[s].via \notin lost =>
    /\ cache[s].from = s
    /\ cache[s].order = order
    /\ \/ cache[s].n = Smaller(BlockSize, length - s)
       \/ ended /\ s + cache[s].n >= known

\* A final row count is the length of the result; or the stream was cut off at
\* its budget, and the user has been told so.
RowCountHonest ==
  ended /\ lost = {} => known = length \/ (known < length /\ known >= RowBudget /\ told)

\* What the grid shows is the result.
ShowsTheResult == BlocksHoldTheirRows /\ RowCountHonest

\* A session that still streams is the data source's own, is being opened by its
\* outstanding request, or is being deleted; others only where a request was lost.
SessionHasOwner ==
  \A s \in Sessions : sessionPhase[s] = "streaming" =>
    s = sessionId \/ (request # Idle /\ request.id = s) \/ s \in deletes \/ s \in lost

\* Every getRows ends in one of its callbacks ("so the grid never wedges"), also
\* when the session was gone.
GetRowsAnswered == request # Idle ~> request = Idle

\* "Sequential forward blocks stream from the held cursor" (cursorDatasource.ts:25):
\* a block is asked for by offset only if the blocks before it are not all there
\* from the live session.
SequentialBlocksStream ==
  [][request = Idle /\ request'.kind = "page" =>
       LET start == request'.start
       IN  ~(/\ sessionId # 0 /\ start \notin DOMAIN cache
             /\ \A s \in BlockStarts : s < start =>
                  s \in DOMAIN cache /\ cache[s].via = sessionId)]_datasourceVars

Contract == INSTANCE StreamContract WITH
  Streams <- Sessions, Budget <- RowBudget, Blocks <- {BlockSize, OpenBlock}, Calls <- {},
  phase <- sessionPhase, calls <- [k \in {} |-> [upTo |-> 0]]

\* The server assumed here is one that StreamContract allows.
UsesContract == Contract!Spec
-----------------------------------------------------------------------------
(* What makes it so: the inductive part. *)

IsStart(n) == \E k \in Nat : n = k * BlockSize

Unserved(s) == sessionPhase[s] = "unopened" /\ served[s] = 0

\* An open that has not reached the server is the only one of its session.
OpensOnce ==
  /\ \A s \in Sessions : s > opens => Unserved(s)
  /\ request.kind \in {"open", "fetch"} => request.id \in 1..opens
  /\ request.kind = "open" /\ answer = None =>
       Unserved(request.id) /\ \A call \in strays : call.id # request.id
  /\ \A call \in strays :
       /\ call.kind # "page" /\ call.id \in (1..opens) \cap lost
       /\ call.kind = "open" =>
            /\ Unserved(call.id)
            /\ \A other \in strays : other.kind = "open" /\ other.id = call.id => other = call

\* A session serves no more than the result and streams below its budget.
ServedFits ==
  \A s \in Sessions :
    /\ served[s] <= length
    /\ sessionPhase[s] = "streaming" => OpenBlock <= served[s] /\ served[s] < RowBudget

\* The request is for a block the grid may ask for, from the session at hand.
RequestFits ==
  request # Idle =>
    /\ IsStart(request.start)
    /\ request.kind = "page" => request.id = 0
    /\ request.kind = "open" <=> request.start = 0
    /\ request.order <= order
    /\ IF request.order = order THEN request.start < known ELSE known = 1
    /\ request.kind = "fetch" =>
         /\ alive => sessionId # 0
         /\ sessionId # 0 => request.id = sessionId /\ request.start = position
    /\ answer = Gone => request.kind = "fetch"

\* The data source has counted what its session served, unless an answer is on
\* its way or was lost.
PositionFits ==
  sessionId # 0 =>
    /\ OpenBlock <= position /\ position <= served[sessionId]
    /\ sessionId \notin lost =>
         /\ position = served[sessionId] \/ (request.kind = "fetch" /\ answer.status = "rows")
         /\ sorted[sessionId] = order \/ known = 1

\* The rows on their way are those asked for.
AnswerFits ==
  answer.status = "rows" =>
    LET id == request.id
        to == answer.from + answer.n
    IN  /\ request.kind = "page" => answer = Page(request)
        /\ request.kind = "open" =>
             /\ answer = FirstBlock(request)
             /\ answer.n <= served[id]
             /\ id \notin lost => served[id] = answer.n /\ sorted[id] = answer.order
        /\ request.kind = "fetch" /\ sessionId # 0 =>
             /\ OpenBlock <= answer.from /\ request.start <= answer.from
             /\ answer.from < RowBudget /\ to <= RowBudget /\ to <= served[id]
             /\ answer.n <= BlockSize /\ (answer.complete \/ answer.n = BlockSize)
             /\ id \notin lost =>
                  /\ answer.from = request.start /\ to = served[id] /\ answer.order = sorted[id]
                  /\ \/ answer.n = Smaller(BlockSize, length - answer.from)
                     \/ answer.complete /\ to = RowBudget /\ RowBudget < length
                  /\ answer.complete => to = length \/ (to = RowBudget /\ answer.truncated)

\* A block is whole, or the one at which the budget cut the stream off.
BlockFits(s) ==
  /\ cache[s].from = s /\ cache[s].order = order
  /\ \/ cache[s].n = Smaller(BlockSize, length - s)
     \/ /\ ended /\ s + cache[s].n = RowBudget
        /\ s < RowBudget /\ RowBudget <= s + BlockSize
        /\ known <= RowBudget /\ RowBudget < length /\ OpenBlock < RowBudget

CacheFits ==
  /\ \A s \in DOMAIN cache : IsStart(s) /\ (cache[s].via \notin lost => BlockFits(s))
  /\ known <= length + 1 /\ (ended => known <= length)

\* The server's side alone, for any sizes.
ServerInv == DatasourceTypeOK /\ OpensOnce /\ ServedFits

\* With a first block at least as large as the grid's.
DatasourceInv ==
  ServerInv /\ RequestFits /\ PositionFits /\ AnswerFits /\ CacheFits /\ RowCountHonest
=============================================================================
