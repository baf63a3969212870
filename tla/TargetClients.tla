--------------------------- MODULE TargetClients ---------------------------
(***************************************************************************)
(* The clients of one connection's driver pool, TARGET_POOL_SIZE of them,  *)
(* and the calls that hold one while they wait for another.                *)
(*                                                                         *)
(* A stream (CursorSessionService.open) pins a client with its cursor and  *)
(* then resolves editability and column types through PoolManager.run,     *)
(* which takes a second client of the same pool; so does a transactional   *)
(* script (QueryService.executeTransactional) for the columns of each      *)
(* result.  Every other call takes one client and gives it back.           *)
(*                                                                         *)
(* The pool itself is the pg or mysql2 library: it serves waiting calls    *)
(* first come, first served; pg gives a waiting call up after              *)
(* connectionTimeoutMillis, mysql2 lets it wait.                           *)
(***************************************************************************)
EXTENDS Naturals, Sequences, FiniteSets

CONSTANTS
  Streams,     \* open-cursor calls
  Scripts,     \* transactional scripts
  Statements,  \* all other calls
  PoolSize,    \* TARGET_POOL_SIZE
  MaxPerConn   \* STREAM_MAX_CURSORS_PER_CONNECTION

Calls == Streams \cup Scripts \cup Statements
Nesting == Streams \cup Scripts

ASSUME CallsAssumption ==
  /\ IsFiniteSet(Streams) /\ IsFiniteSet(Scripts) /\ IsFiniteSet(Statements)
  /\ Streams \cap Scripts = {} /\ Nesting \cap Statements = {}
ASSUME SizeAssumption == PoolSize \in Nat \ {0} /\ MaxPerConn \in Nat \ {0}

VARIABLES
  engine,  \* the driver of the connection
  stage,   \* where a call is
  queue    \* calls waiting for a client, first come first

vars == <<engine, stage, queue>>

\* "leaked": the open call has failed and left its cursor open.
Stage == {"idle", "first", "working", "second", "nested", "described",
          "streaming", "leaked", "done", "failed"}

TypeOK ==
  /\ engine \in {"postgresql", "mysql"}
  /\ stage \in [Calls -> Stage]
  /\ queue \in Seq(Calls)

Init ==
  /\ engine \in {"postgresql", "mysql"}
  /\ stage = [c \in Calls |-> "idle"]
  /\ queue = <<>>

-----------------------------------------------------------------------------

At(S) == {c \in Calls : stage[c] \in S}

Waiting == At({"first", "second"})
Holding == At({"working", "second", "nested", "described", "streaming", "leaked"})

\* Clients in use: a nested call has two.
Used == Cardinality(Holding) + Cardinality(At({"nested"}))

Moves(c, from, to) ==
  /\ stage[c] = from
  /\ stage' = [stage EXCEPT ![c] = to]

WaitsIn(c) == queue' = Append(queue, c)

\* The queue without its i-th call.
Without(i) == [j \in 1..(Len(queue) - 1) |-> queue[IF j < i THEN j ELSE j + 1]]

\* A call asks the pool for its client.  The cap of streams counts registered
\* sessions only (assertCapacity).
Begin(c) ==
  /\ c \in Streams => Cardinality(At({"streaming"}) \cap Streams) < MaxPerConn
  /\ Moves(c, "idle", "first")
  /\ WaitsIn(c)
  /\ UNCHANGED engine

\* A free client goes to the call that has waited longest.
Grant ==
  /\ queue # <<>>
  /\ Used < PoolSize
  /\ LET c == Head(queue)
     IN  stage' = [stage EXCEPT ![c] = IF @ = "first" THEN "working" ELSE "nested"]
  /\ queue' = Tail(queue)
  /\ UNCHANGED engine

\* Mutant of AskSecond: a single statement keeps its client while its columns
\* are resolved.
AskSecondAlways(c) ==
  /\ Moves(c, "working", "second")
  /\ WaitsIn(c)
  /\ UNCHANGED engine

\* The first block, or a result of the script, is there: its editability and
\* its columns are resolved through the pool, one after the other.  mysql
\* resolves the types of a script's columns without a query.
AskSecond(c) ==
  /\ c \in Nesting
  /\ c \in Scripts => engine = "postgresql"
  /\ Moves(c, "working", "second") \/ Moves(c, "described", "second")
  /\ WaitsIn(c)
  /\ UNCHANGED engine

\* Nothing to resolve: no table, no columns, or types the driver knows.
SkipSecond(c) ==
  /\ c \in Nesting
  /\ Moves(c, "working", "described")
  /\ UNCHANGED <<engine, queue>>

\* The inner query has answered and its client is back.
Described(c) ==
  /\ Moves(c, "nested", "described")
  /\ UNCHANGED <<engine, queue>>

\* The inner query fails: the open call throws with its cursor open, the
\* script rolls back and gives its client back.
InnerFails(c) ==
  /\ Moves(c, "nested", IF c \in Streams THEN "leaked" ELSE "failed")
  /\ UNCHANGED <<engine, queue>>

\* The session is registered, or the script commits.
Proceed(c) ==
  /\ Moves(c, "described", IF c \in Streams THEN "streaming" ELSE "done")
  /\ UNCHANGED <<engine, queue>>

\* The first block was the last, the session ends or is reaped, or the only
\* statement of a call has run.
Release(c) ==
  /\ \/ c \in Streams /\ Moves(c, "described", "done")
     \/ Moves(c, "streaming", "done")
     \/ c \notin Nesting /\ Moves(c, "working", "done")
  /\ UNCHANGED <<engine, queue>>

\* The call's own query fails, or the script's next one: its client goes back.
Fails(c) ==
  /\ \/ Moves(c, "working", "failed")
     \/ c \in Scripts /\ Moves(c, "described", "failed")
  /\ UNCHANGED <<engine, queue>>

\* pg rejects a call that has waited connectionTimeoutMillis.
WaitTimesOut(c) ==
  /\ engine = "postgresql"
  /\ \/ Moves(c, "first", "failed")
     \/ Moves(c, "second", IF c \in Streams THEN "leaked" ELSE "failed")
  /\ \E i \in DOMAIN queue : queue[i] = c /\ queue' = Without(i)
  /\ UNCHANGED engine

-----------------------------------------------------------------------------

Next ==
  \/ \E c \in Calls :
       \/ Begin(c) \/ AskSecond(c) \/ SkipSecond(c) \/ Described(c) \/ InnerFails(c)
       \/ Proceed(c) \/ Release(c) \/ Fails(c) \/ WaitTimesOut(c)
  \/ Grant

Spec == Init /\ [][Next]_vars

\* Clients are granted, statements and sessions end, timers fire.
Fairness ==
  /\ WF_vars(Grant)
  /\ \A c \in Calls :
       /\ WF_vars(AskSecond(c) \/ SkipSecond(c) \/ Fails(c) \/ (stage[c] = "working" /\ Release(c)))
       /\ WF_vars(Described(c) \/ InnerFails(c))
       /\ WF_vars(Proceed(c) \/ Release(c))
       /\ WF_vars(WaitTimesOut(c))

FairSpec == Spec /\ Fairness

-----------------------------------------------------------------------------
(* Properties. *)

\* The queue holds each waiting call once, and nobody else: a client is never
\* granted to a call that has given up.
QueueFits ==
  /\ {queue[i] : i \in DOMAIN queue} = Waiting
  /\ \A i, j \in DOMAIN queue : queue[i] = queue[j] => i = j

\* No more clients are in use than the pool has.
PoolNotOverdrawn == Used <= PoolSize

\* When no client is left, somebody will give one back without first getting
\* another one.  It takes fewer streams and scripts at a time than clients.
NoMutualWait ==
  Used = PoolSize => At({"working", "nested", "described", "streaming"}) # {}

\* Every call that waits for a client is served, or given up by pg.
EveryWaitEnds == \A c \in Calls : c \in Waiting ~> c \notin Waiting

\* Streams never starve a statement of a client: it is served, or given up by
\* pg ("streamed reads can never starve writes of a client",
\* cursor-session.service.ts:53-54).
StreamsStarveNobody ==
  \A c \in Statements : stage[c] = "first" ~> stage[c] # "first"

-----------------------------------------------------------------------------
(* The inductive strengthening behind the invariants above. *)

\* Only streams and scripts wait with a client in hand.
NestingOnly ==
  \A c \in Calls :
    stage[c] \in {"second", "nested", "described", "streaming", "leaked"} => c \in Nesting

ClientInv == TypeOK /\ QueueFits /\ NestingOnly /\ PoolNotOverdrawn
=============================================================================
