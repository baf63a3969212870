---------------------------- MODULE PoolManager ----------------------------
(***************************************************************************)
(* PoolManager (apps/api/src/database/pool-manager.service.ts): the cached *)
(* driver pools and SSH tunnels of the target databases, the requests that *)
(* resolve and use them, the evictions that follow an update or a removal  *)
(* of a connection (apps/api/src/connections/connections.service.ts), and  *)
(* the idle and LRU sweep.                                                 *)
(*                                                                         *)
(* A step is the code between two awaits.  A request stands for one call   *)
(* of run, withSession, withTransaction, withReadOnlyTransaction or        *)
(* openCursor; the pool it creates, if it creates one, and the tunnel of   *)
(* that pool carry its name.  When the cached promise is already resolved  *)
(* its await yields to microtasks only, so resolve and use are one step.   *)
(***************************************************************************)
EXTENDS Naturals, FiniteSets

CONSTANTS
  Connections,  \* connection ids
  Requests,     \* calls that need a pool, each with the pool it may create
  NoPool,       \* an absent map entry
  Tunneled,     \* <<connection, version>>: settings with SSH tunneling enabled
  Removable,    \* connections a user may delete
  MaxVersion,   \* bound: how often a connection's settings are saved
  PoolMax       \* TARGET_POOL_MAX

ASSUME ConnectionsAssumption ==
  /\ IsFiniteSet(Connections)
  /\ Removable \subseteq Connections
ASSUME PoolsAssumption == NoPool \notin Requests
ASSUME BoundsAssumption == PoolMax \in Nat /\ MaxVersion \in Nat \ {0}

VARIABLES
  row,       \* the stored settings of a connection: a version, or Gone
  pending,   \* connections saved or deleted whose evictPool has not run yet
  pools,     \* [Connections -> Requests \cup {NoPool}]: the cached promises
  used,      \* keys of poolLastUsed
  older,     \* [Connections -> SUBSET Connections]: those of them last used before this one
  poolIdle,  \* those of them last used more than poolIdleMs ago
  engine,    \* keys of poolEngine
  tunnels,   \* [Connections -> Requests \cup {NoPool}]: the tunnels map
  pool,      \* what has become of the pool a request creates
  tunnel,    \* what has become of that pool's tunnel
  evicting,  \* pools whose evictPool awaits the promise or closePool
  stage,     \* where a request is
  on,        \* the connection it names
  snap,      \* the settings it read
  which,     \* the pool it was given
  up         \* FALSE once onModuleDestroy has run

cache == <<pools, used, older, poolIdle, engine>>
poolVars == <<row, pending, pools, used, older, poolIdle, engine, tunnels, pool, tunnel,
              evicting, stage, on, snap, which, up>>

Gone == 0
Versions == 1..MaxVersion
PoolState == {"none", "tunneling", "connecting", "unwinding", "open", "failed",
              "closing", "closed"}
\* A call that holds a counted cursor; "abandoned" once nothing will close it.
Stage == {"idle", "config", "awaiting", "using", "holding", "abandoned", "done"}

PoolTypeOK ==
  /\ row \in [Connections -> Versions \cup {Gone}]
  /\ pending \subseteq Connections
  /\ pools \in [Connections -> Requests \cup {NoPool}]
  /\ used \subseteq Connections
  /\ older \in [Connections -> SUBSET used]
  /\ poolIdle \subseteq used
  /\ engine \subseteq Connections
  /\ tunnels \in [Connections -> Requests \cup {NoPool}]
  /\ pool \in [Requests -> PoolState]
  /\ tunnel \in [Requests -> {"none", "open", "closed"}]
  /\ evicting \subseteq Requests
  /\ stage \in [Requests -> Stage]
  /\ on \in [Requests -> Connections]
  /\ snap \in [Requests -> Versions \cup {Gone}]
  /\ which \in [Requests -> Requests]
  /\ up \in BOOLEAN

PoolInit ==
  /\ row = [c \in Connections |-> 1]
  /\ pending = {}
  /\ pools = [c \in Connections |-> NoPool]
  /\ used = {}
  /\ older = [c \in Connections |-> {}]
  /\ poolIdle = {}
  /\ engine = {}
  /\ tunnels = [c \in Connections |-> NoPool]
  /\ pool = [r \in Requests |-> "none"]
  /\ tunnel = [r \in Requests |-> "none"]
  /\ evicting = {}
  /\ stage = [r \in Requests |-> "idle"]
  /\ on \in [Requests -> Connections]
  /\ snap = [r \in Requests |-> Gone]
  /\ which = [r \in Requests |-> r]
  /\ up = TRUE

-----------------------------------------------------------------------------
(* Helpers. *)

\* poolLastUsed.set(c, Date.now()): there is an entry afterwards, whether or
\* not there is a pool.  The clock is taken to tell any two uses apart.
Touch(c) ==
  /\ used' = used \cup {c}
  /\ older' = [d \in Connections |-> IF d = c THEN used \ {c} ELSE older[d] \ {c}]
  /\ poolIdle' = poolIdle \ {c}

\* poolLastUsed.delete for every connection of S.
Forget(S) ==
  /\ used' = used \ S
  /\ older' = [d \in Connections |-> IF d \in S THEN {} ELSE older[d] \ S]
  /\ poolIdle' = poolIdle \ S

ActiveCursors(c) == {r \in Requests : stage[r] \in {"holding", "abandoned"} /\ on[r] = c}

HasActiveCursors(c) == ActiveCursors(c) # {}

Cached == {c \in Connections : pools[c] # NoPool}

\* closeTunnel for every connection of S: whatever handle the map holds now.
CloseTunnels(S) ==
  LET closed == {tunnels[c] : c \in S} \ {NoPool}
  IN  /\ tunnels' = [c \in Connections |-> IF c \in S THEN NoPool ELSE tunnels[c]]
      /\ tunnel' = [r \in Requests |-> IF r \in closed THEN "closed" ELSE tunnel[r]]

\* Mutant of EvictPools: a pool still being created is dropped, not closed when
\* it is there.
EvictPoolsOpenOnly(S) ==
  LET hit == S \cap Cached
  IN  /\ pools' = [c \in Connections |-> IF c \in hit THEN NoPool ELSE pools[c]]
      /\ Forget(hit)
      /\ engine' = engine \ hit
      /\ evicting' = evicting \cup {pools[c] : c \in {d \in hit : pool[pools[d]] = "open"}}
      /\ CloseTunnels(S \ hit)

\* The synchronous part of evictPool for every connection of S.  Without a
\* cached pool only a tunnel is closed, and the other maps keep their entries.
EvictPools(S) ==
  LET hit == S \cap Cached
  IN  /\ pools' = [c \in Connections |-> IF c \in hit THEN NoPool ELSE pools[c]]
      /\ Forget(hit)
      /\ engine' = engine \ hit
      /\ evicting' = evicting \cup {pools[c] : c \in hit}
      /\ CloseTunnels(S \ hit)

\* The rejection handler of a failed creation: it removes the entries of the
\* connection, whichever pool they belong to by now.
DropEntries(c) ==
  /\ pools' = [pools EXCEPT ![c] = NoPool]
  /\ Forget({c})
  /\ engine' = engine \ {c}

-----------------------------------------------------------------------------
(* Saving and deleting a connection. *)

SaveConnection(c) ==
  /\ up
  /\ row[c] # Gone
  /\ row[c] < MaxVersion
  /\ c \notin pending
  /\ row' = [row EXCEPT ![c] = @ + 1]
  /\ pending' = pending \cup {c}
  /\ UNCHANGED <<cache, tunnels, pool, tunnel, evicting, stage, on, snap, which, up>>

RemoveConnection(c) ==
  /\ up
  /\ c \in Removable
  /\ row[c] # Gone
  /\ c \notin pending
  /\ row' = [row EXCEPT ![c] = Gone]
  /\ pending' = pending \cup {c}
  /\ UNCHANGED <<cache, tunnels, pool, tunnel, evicting, stage, on, snap, which, up>>

EvictChanged(c) ==
  /\ c \in pending
  /\ pending' = pending \ {c}
  /\ EvictPools({c})
  /\ UNCHANGED <<row, pool, stage, on, snap, which, up>>

-----------------------------------------------------------------------------
(* A request: read the settings, take or create the pool, use it. *)

ReadConfig(r) ==
  /\ up
  /\ stage[r] = "idle"
  /\ row[on[r]] # Gone
  /\ stage' = [stage EXCEPT ![r] = "config"]
  /\ snap' = [snap EXCEPT ![r] = row[on[r]]]
  /\ UNCHANGED <<row, pending, cache, tunnels, pool, tunnel, evicting, on, which, up>>

\* resolveConfig: the settings the request read have an SSH block.
ByTunnel(r) == <<on[r], snap[r]>> \in Tunneled

ResolveCached(r) ==
  LET c == on[r]
  IN  /\ stage[r] = "config"
      /\ pools[c] # NoPool
      /\ engine' = engine \cup {c}
      /\ Touch(c)
      /\ which' = [which EXCEPT ![r] = pools[c]]
      /\ stage' = [stage EXCEPT ![r] =
                     IF pool[pools[c]] = "open" THEN "using" ELSE "awaiting"]
      /\ UNCHANGED <<row, pending, pools, tunnels, pool, tunnel, evicting, on, snap, up>>

\* Mutant of ResolveCreate: a new pool has no entry in poolLastUsed until it is used.
ResolveCreateUntouched(r) ==
  LET c == on[r]
  IN  /\ stage[r] = "config"
      /\ pools[c] = NoPool
      /\ engine' = engine \cup {c}
      /\ pools' = [pools EXCEPT ![c] = r]
      /\ pool' = [pool EXCEPT ![r] = IF ByTunnel(r) THEN "tunneling" ELSE "connecting"]
      /\ which' = [which EXCEPT ![r] = r]
      /\ stage' = [stage EXCEPT ![r] = "awaiting"]
      /\ UNCHANGED <<row, pending, used, older, poolIdle, tunnels, tunnel, evicting, on, snap, up>>

ResolveCreate(r) ==
  LET c == on[r]
  IN  /\ stage[r] = "config"
      /\ pools[c] = NoPool
      /\ engine' = engine \cup {c}
      /\ Touch(c)
      /\ pools' = [pools EXCEPT ![c] = r]
      /\ pool' = [pool EXCEPT ![r] = IF ByTunnel(r) THEN "tunneling" ELSE "connecting"]
      /\ which' = [which EXCEPT ![r] = r]
      /\ stage' = [stage EXCEPT ![r] = "awaiting"]
      /\ UNCHANGED <<row, pending, tunnels, tunnel, evicting, on, snap, up>>

\* The SSH tunnel is up; its handle replaces any other the map holds.
TunnelUp(r) ==
  /\ pool[r] = "tunneling"
  /\ pool' = [pool EXCEPT ![r] = "connecting"]
  /\ tunnel' = [tunnel EXCEPT ![r] = "open"]
  /\ tunnels' = [tunnels EXCEPT ![on[r]] = r]
  /\ UNCHANGED <<row, pending, cache, evicting, stage, on, snap, which, up>>

TunnelFails(r) ==
  /\ pool[r] = "tunneling"
  /\ pool' = [pool EXCEPT ![r] = "failed"]
  /\ DropEntries(on[r])
  /\ UNCHANGED <<row, pending, tunnels, tunnel, evicting, stage, on, snap, which, up>>

PoolReady(r) ==
  /\ pool[r] = "connecting"
  /\ pool' = [pool EXCEPT ![r] = "open"]
  /\ UNCHANGED <<row, pending, cache, tunnels, tunnel, evicting, stage, on, snap, which, up>>

\* createPool rejects where there is no tunnel.
PoolFails(r) ==
  /\ pool[r] = "connecting"
  /\ ~ByTunnel(r)
  /\ pool' = [pool EXCEPT ![r] = "failed"]
  /\ DropEntries(on[r])
  /\ UNCHANGED <<row, pending, tunnels, tunnel, evicting, stage, on, snap, which, up>>

\* Mutant of TunnelUnwinds: the tunnel of the failed pool is not closed.
TunnelUnwindsOpen(r) ==
  /\ pool[r] = "connecting"
  /\ ByTunnel(r)
  /\ pool' = [pool EXCEPT ![r] = "unwinding"]
  /\ UNCHANGED <<row, pending, cache, tunnels, tunnel, evicting, stage, on, snap, which, up>>

\* createPool rejects behind a tunnel, which is closed first ...
TunnelUnwinds(r) ==
  /\ pool[r] = "connecting"
  /\ ByTunnel(r)
  /\ pool' = [pool EXCEPT ![r] = "unwinding"]
  /\ tunnel' = [tunnel EXCEPT ![r] = "closed"]
  /\ UNCHANGED <<row, pending, cache, tunnels, evicting, stage, on, snap, which, up>>

\* Mutant of TunnelUnwound: the tunnels map keeps the closed handle.
TunnelUnwoundKeepsHandle(r) ==
  /\ pool[r] = "unwinding"
  /\ pool' = [pool EXCEPT ![r] = "failed"]
  /\ DropEntries(on[r])
  /\ UNCHANGED <<row, pending, tunnels, tunnel, evicting, stage, on, snap, which, up>>

\* ... then the connection's entry in the tunnels map goes, whichever tunnel
\* it names by now, and the promise rejects.
TunnelUnwound(r) ==
  /\ pool[r] = "unwinding"
  /\ pool' = [pool EXCEPT ![r] = "failed"]
  /\ tunnels' = [tunnels EXCEPT ![on[r]] = NoPool]
  /\ DropEntries(on[r])
  /\ UNCHANGED <<row, pending, tunnel, evicting, stage, on, snap, which, up>>

\* The awaited pool is there, perhaps evicted meanwhile; poolLastUsed is set
\* again before it is used.
Awaited(r) ==
  /\ stage[r] = "awaiting"
  /\ pool[which[r]] \in {"open", "closing", "closed"}
  /\ stage' = [stage EXCEPT ![r] = "using"]
  /\ Touch(on[r])
  /\ UNCHANGED <<row, pending, pools, engine, tunnels, pool, tunnel, evicting, on, snap, which, up>>

AwaitFails(r) ==
  /\ stage[r] = "awaiting"
  /\ pool[which[r]] = "failed"
  /\ stage' = [stage EXCEPT ![r] = "done"]
  /\ UNCHANGED <<row, pending, cache, tunnels, pool, tunnel, evicting, on, snap, which, up>>

\* The query or transaction ends, or the driver cannot open the cursor.
UseEnds(r) ==
  /\ stage[r] = "using"
  /\ stage' = [stage EXCEPT ![r] = "done"]
  /\ UNCHANGED <<row, pending, cache, tunnels, pool, tunnel, evicting, on, snap, which, up>>

\* driver.openCursor has answered: only now is the cursor counted.
CursorOpened(r) ==
  /\ stage[r] = "using"
  /\ pool[which[r]] # "closed"
  /\ stage' = [stage EXCEPT ![r] = "holding"]
  /\ UNCHANGED <<row, pending, cache, tunnels, pool, tunnel, evicting, on, snap, which, up>>

CursorFetch(r) ==
  /\ stage[r] = "holding"
  /\ Touch(on[r])
  /\ UNCHANGED <<row, pending, pools, engine, tunnels, pool, tunnel, evicting, stage, on, snap, which, up>>

CursorClosed(r) ==
  /\ stage[r] = "holding"
  /\ stage' = [stage EXCEPT ![r] = "done"]
  /\ UNCHANGED <<row, pending, cache, tunnels, pool, tunnel, evicting, on, snap, which, up>>

\* The open call that was given the cursor throws between its first block and the
\* registration of its session: nobody closes the cursor (CursorSession's DescribeFails).
CursorAbandoned(r) ==
  /\ stage[r] = "holding"
  /\ stage' = [stage EXCEPT ![r] = "abandoned"]
  /\ UNCHANGED <<row, pending, cache, tunnels, pool, tunnel, evicting, on, snap, which, up>>

\* driverFor caches the engine without a pool.
DriverFor(c) ==
  /\ up
  /\ row[c] # Gone
  /\ engine' = engine \cup {c}
  /\ UNCHANGED <<row, pending, pools, used, older, poolIdle, tunnels, pool, tunnel, evicting,
                 stage, on, snap, which, up>>

-----------------------------------------------------------------------------
(* Evictions in progress, the sweep, the clock and shutdown. *)

\* Mutant of CloseEvicted: the tunnel is closed before the pool.
CloseEvictedTunnelFirst(r) ==
  /\ r \in evicting
  /\ pool[r] = "open"
  /\ pool' = [pool EXCEPT ![r] = "closing"]
  /\ CloseTunnels({on[r]})
  /\ UNCHANGED <<row, pending, cache, evicting, stage, on, snap, which, up>>

CloseEvicted(r) ==
  /\ r \in evicting
  /\ pool[r] = "open"
  /\ pool' = [pool EXCEPT ![r] = "closing"]
  /\ UNCHANGED <<row, pending, cache, tunnels, tunnel, evicting, stage, on, snap, which, up>>

\* closePool has settled, or the promise had been rejected: the tunnel the
\* connection has now is closed.
EvictionEnds(r) ==
  /\ r \in evicting
  /\ pool[r] \in {"closing", "failed"}
  /\ pool' = [pool EXCEPT ![r] = IF @ = "closing" THEN "closed" ELSE @]
  /\ evicting' = evicting \ {r}
  /\ CloseTunnels({on[r]})
  /\ UNCHANGED <<row, pending, cache, stage, on, snap, which, up>>

\* The n entries of S that were used least recently.
Oldest(n, S) == {c \in S : Cardinality(older[c] \cap S) < n}

\* Mutant of OverCap: one too few.
OverCapOneShort(swept) ==
  LET left      == used \ (swept \cap Cached)
      evictable == {c \in Cached \ swept : ~HasActiveCursors(c)}
  IN  IF Cardinality(evictable) > PoolMax + 1
        THEN Oldest(Cardinality(evictable) - PoolMax, {c \in left : ~HasActiveCursors(c)})
        ELSE {}

\* The entries the cap evicts once the pools of swept have gone: as many of the
\* oldest as there are too many pools without cursors.
OverCap(swept) ==
  LET left      == used \ (swept \cap Cached)
      evictable == {c \in Cached \ swept : ~HasActiveCursors(c)}
  IN  IF Cardinality(evictable) > PoolMax
        THEN Oldest(Cardinality(evictable) - PoolMax, {c \in left : ~HasActiveCursors(c)})
        ELSE {}

\* Mutant of SweepVictims: no idle sweep, the cap alone.
SweepVictimsCapOnly == OverCap({})

\* What a sweep evicts: first the idle entries, then those over the cap.
SweepVictims ==
  LET swept == {c \in poolIdle : ~HasActiveCursors(c)}
  IN  swept \cup OverCap(swept)

Sweep ==
  /\ up
  /\ EvictPools(SweepVictims)
  /\ UNCHANGED <<row, pending, pool, stage, on, snap, which, up>>

\* poolIdleMs passes since the use of the oldest entry that is not idle yet.
PoolGrowsIdle ==
  /\ \E c \in used \ poolIdle :
       /\ older[c] \subseteq poolIdle
       /\ poolIdle' = poolIdle \cup {c}
  /\ UNCHANGED <<row, pending, pools, used, older, engine, tunnels, pool, tunnel, evicting,
                 stage, on, snap, which, up>>

\* onModuleDestroy.
ShutDown ==
  /\ up
  /\ up' = FALSE
  /\ EvictPools(Cached)
  /\ UNCHANGED <<row, pending, pool, stage, on, snap, which>>

-----------------------------------------------------------------------------

Create(r) ==
  \/ TunnelUp(r)
  \/ TunnelFails(r)
  \/ PoolReady(r)
  \/ PoolFails(r)
  \/ TunnelUnwinds(r)
  \/ TunnelUnwound(r)

Request(r) ==
  \/ ReadConfig(r)
  \/ ResolveCached(r)
  \/ ResolveCreate(r)
  \/ Awaited(r)
  \/ AwaitFails(r)
  \/ UseEnds(r)
  \/ CursorOpened(r)
  \/ CursorFetch(r)
  \/ CursorClosed(r)
  \/ CursorAbandoned(r)

PoolNext ==
  \/ \E c \in Connections : SaveConnection(c) \/ RemoveConnection(c) \/ EvictChanged(c) \/ DriverFor(c)
  \/ \E r \in Requests : Request(r) \/ Create(r) \/ CloseEvicted(r) \/ EvictionEnds(r)
  \/ Sweep
  \/ PoolGrowsIdle
  \/ ShutDown

PoolSpec == PoolInit /\ [][PoolNext]_poolVars

\* Awaited calls settle, statements end, timers fire.  A counted cursor is closed, its
\* session being reaped at the latest, unless it is abandoned.  Nothing obliges the close
\* of an evicted pool to end: a driver may wait for the clients that are still out.
PoolFairness ==
  /\ \A r \in Requests :
       /\ WF_poolVars(ResolveCached(r) \/ ResolveCreate(r) \/ Awaited(r) \/ AwaitFails(r))
       /\ WF_poolVars(UseEnds(r)) /\ WF_poolVars(CursorClosed(r))
       /\ WF_poolVars(Create(r))
  /\ \A c \in Connections : WF_poolVars(EvictChanged(c))
  /\ WF_poolVars(Sweep)
  /\ WF_poolVars(PoolGrowsIdle)

PoolFairSpec == PoolSpec /\ PoolFairness

-----------------------------------------------------------------------------
(* Properties. *)

Creating(r) == pool[r] \in {"tunneling", "connecting", "unwinding"}

\* A cached promise is one of this connection that may still serve: being
\* created or open, in no eviction.  Its engine is known, without which
\* evictPool cannot close it (line 197), and so is its last use, without which
\* no sweep would ever find it.
CachedPoolUsable ==
  \A c \in Connections : pools[c] # NoPool =>
    /\ on[pools[c]] = c
    /\ Creating(pools[c]) \/ pool[pools[c]] = "open"
    /\ pools[c] \notin evicting
    /\ c \in engine
    /\ c \in used

\* The tunnels map never keeps the handle of a closed tunnel, except while the
\* creation that closed it is about to delete the entry (lines 257-258).
TunnelMapSound ==
  \A c \in Connections : tunnels[c] # NoPool =>
    /\ on[tunnels[c]] = c
    /\ tunnel[tunnels[c]] = "open" \/ pool[tunnels[c]] = "unwinding"

\* The entries without counted cursors that were used after c's.
UsedAfter(c) == {d \in used : c \in older[d] /\ ~HasActiveCursors(d)}

\* A sweep that ran now would take a cached pool only if no cursor of its connection is
\* counted and it is idle, or at least TARGET_POOL_MAX other connections were used after
\* it.  That is all that keeps the pool of a call whose cursor is open but not counted
\* yet (lines 78-79), or of any other call that has just been given its pool.
SweepTakesOnlyStale ==
  \A c \in SweepVictims \cap Cached :
    /\ ~HasActiveCursors(c)
    /\ c \in poolIdle \/ Cardinality(UsedAfter(c)) >= PoolMax

\* The pools without cursors that a sweep, were it to run now, would leave.
LeftBySweep == {c \in Cached \ SweepVictims : ~HasActiveCursors(c)}

\* Entries of poolLastUsed without a pool: set after an await that an eviction
\* overtook.
Ghosts == used \ Cached

\* A sweep leaves at most the cap, and one more pool for each entry of
\* poolLastUsed without a pool, which it may take for one of the oldest pools.
SweepNearsCap == Cardinality(LeftBySweep) <= PoolMax + Cardinality(Ghosts)

\* A pool that is open, or will be, is in the map or in an eviction: else
\* nothing can ever close it ("onModuleDestroy closes all pools", phase 11).
Reachable(r) == pools[on[r]] = r \/ r \in evicting

OpenPoolReachable ==
  \A r \in Requests : Creating(r) \/ pool[r] = "open" => Reachable(r)

\* What does hold: a pool gets lost only to the failure of another creation of
\* its connection, whose rejection handler removes the entry by connection id.
PoolLostToFailureOnly ==
  \A r \in Requests : Creating(r) \/ pool[r] = "open" =>
    \/ Reachable(r)
    \/ \E s \in Requests \ {r} : on[s] = on[r] /\ pool[s] = "failed"

\* An open tunnel is in the tunnels map, or a second tunnel of the connection
\* was opened before it was closed: without overlapping creations no tunnel is
\* left behind ("tunnels are reaped with their pool so none leak", phase 32).
TunnelLostToOverlapOnly ==
  \A r \in Requests : tunnel[r] = "open" =>
    \/ tunnels[on[r]] = r
    \/ \E s \in Requests \ {r} : on[s] = on[r] /\ tunnel[s] # "none"

\* A cached open pool has its tunnel, or another creation of the connection was
\* evicted or failed after the pool's own had begun: evictPool closes the
\* tunnel the connection has once the old pool is closed (line 203).
TunnelTornByPredecessorOnly ==
  \A c \in Connections : pools[c] # NoPool /\ pool[pools[c]] = "open" /\ ByTunnel(pools[c]) =>
    \/ tunnel[pools[c]] = "open"
    \/ \E s \in Requests \ {pools[c]} : on[s] = c /\ pool[s] \in {"closed", "failed"}

\* The pool of a deleted connection does not stay cached, nor does one that a
\* request which had read the settings before creates after the eviction; but for
\* the pool in which an abandoned cursor is counted, which no sweep takes any more.
RemovedConnectionReleased ==
  \A c \in Connections :
    row[c] = Gone ~>
      [](pools[c] = NoPool \/ ~up \/ \E r \in ActiveCursors(c) : stage[r] = "abandoned")

-----------------------------------------------------------------------------
(* The inductive strengthening behind the invariants above. *)

\* A request that has not resolved has created no pool; a pool in an eviction
\* exists; the tunnel of a creation that unwinds is closed.
PoolsFit ==
  /\ \A r \in Requests : stage[r] \in {"idle", "config"} => pool[r] = "none"
  /\ \A r \in evicting : pool[r] # "none"
  /\ \A r \in Requests : pool[r] = "unwinding" => tunnel[r] = "closed"

\* TunnelTornByPredecessorOnly from the moment the tunnel is up.
TunnelServesPool ==
  \A r \in Requests :
    ByTunnel(r) /\ pools[on[r]] = r /\ pool[r] \in {"connecting", "open"} =>
      \/ tunnel[r] = "open"
      \/ \E s \in Requests \ {r} : on[s] = on[r] /\ pool[s] \in {"closed", "failed"}

\* What older says of the entries of poolLastUsed is a strict total order.
UseOrder ==
  /\ \A c \in used : c \notin older[c]
  /\ \A c, d \in used : c = d \/ c \in older[d] \/ d \in older[c]
  /\ \A c, d, e \in used : c \in older[d] /\ d \in older[e] => c \in older[e]

PoolInv ==
  /\ PoolTypeOK
  /\ CachedPoolUsable
  /\ PoolsFit
  /\ TunnelMapSound
  /\ PoolLostToFailureOnly
  /\ TunnelLostToOverlapOnly
  /\ TunnelServesPool
=============================================================================
