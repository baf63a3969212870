---------------------------- MODULE PoolsProofs ----------------------------
(***************************************************************************)
(* Proofs about PoolManager, for any sets of connections and requests and  *)
(* any value of the cap; and about SshTunnels, for any number of opens and *)
(* of hosts, however often their keys change.                              *)
(***************************************************************************)
EXTENDS PoolManager, SshTunnels, FiniteSetTheorems, TLAPS

\* Every step keeps every variable in its type.
LEMMA PoolTypeStep ==
  PoolTypeOK /\ [PoolNext]_poolVars
    => PoolTypeOK'
<1> SUFFICES ASSUME PoolTypeOK,
                    [PoolNext]_poolVars
             PROVE  PoolTypeOK'
  OBVIOUS
<1> USE PoolsAssumption DEF PoolTypeOK, PoolState, Stage, Versions, Gone, cache
<1>1. ASSUME NEW c \in Connections, SaveConnection(c) PROVE PoolTypeOK'
  BY <1>1, BoundsAssumption DEF SaveConnection
<1>2. ASSUME NEW c \in Connections, RemoveConnection(c) PROVE PoolTypeOK'
  BY <1>2 DEF RemoveConnection
<1>3. ASSUME NEW c \in Connections, EvictChanged(c) PROVE PoolTypeOK'
  BY <1>3 DEF EvictChanged, EvictPools, Forget, CloseTunnels, Cached
<1>4. ASSUME NEW c \in Connections, DriverFor(c) PROVE PoolTypeOK'
  BY <1>4 DEF DriverFor
<1>5. ASSUME NEW r \in Requests, ReadConfig(r) PROVE PoolTypeOK'
  BY <1>5 DEF ReadConfig
<1>6. ASSUME NEW r \in Requests, ResolveCached(r) PROVE PoolTypeOK'
  BY <1>6 DEF ResolveCached, Touch
<1>7. ASSUME NEW r \in Requests, ResolveCreate(r) PROVE PoolTypeOK'
  BY <1>7 DEF ResolveCreate, Touch
<1>8. ASSUME NEW r \in Requests, Awaited(r) PROVE PoolTypeOK'
  BY <1>8 DEF Awaited, Touch
<1>9. ASSUME NEW r \in Requests, AwaitFails(r) PROVE PoolTypeOK'
  BY <1>9 DEF AwaitFails
<1>10. ASSUME NEW r \in Requests, UseEnds(r) PROVE PoolTypeOK'
  BY <1>10 DEF UseEnds
<1>11. ASSUME NEW r \in Requests, CursorOpened(r) PROVE PoolTypeOK'
  BY <1>11 DEF CursorOpened
<1>12. ASSUME NEW r \in Requests, CursorFetch(r) PROVE PoolTypeOK'
  BY <1>12 DEF CursorFetch, Touch
<1>13. ASSUME NEW r \in Requests, CursorClosed(r) \/ CursorAbandoned(r) PROVE PoolTypeOK'
  BY <1>13 DEF CursorClosed, CursorAbandoned
<1>14. ASSUME NEW r \in Requests, TunnelUp(r) PROVE PoolTypeOK'
  BY <1>14 DEF TunnelUp
<1>15. ASSUME NEW r \in Requests, TunnelFails(r) PROVE PoolTypeOK'
  BY <1>15 DEF TunnelFails, DropEntries, Forget
<1>16. ASSUME NEW r \in Requests, PoolReady(r) PROVE PoolTypeOK'
  BY <1>16 DEF PoolReady
<1>17. ASSUME NEW r \in Requests, PoolFails(r) PROVE PoolTypeOK'
  BY <1>17 DEF PoolFails, DropEntries, Forget
<1>18. ASSUME NEW r \in Requests, TunnelUnwinds(r) PROVE PoolTypeOK'
  BY <1>18 DEF TunnelUnwinds
<1>19. ASSUME NEW r \in Requests, TunnelUnwound(r) PROVE PoolTypeOK'
  BY <1>19 DEF TunnelUnwound, DropEntries, Forget
<1>20. ASSUME NEW r \in Requests, CloseEvicted(r) PROVE PoolTypeOK'
  BY <1>20 DEF CloseEvicted
<1>21. ASSUME NEW r \in Requests, EvictionEnds(r) PROVE PoolTypeOK'
  BY <1>21 DEF EvictionEnds, CloseTunnels
<1>22. ASSUME Sweep PROVE PoolTypeOK'
  BY <1>22 DEF Sweep, EvictPools, Forget, CloseTunnels, Cached
<1>23. ASSUME PoolGrowsIdle PROVE PoolTypeOK'
  BY <1>23 DEF PoolGrowsIdle
<1>24. ASSUME ShutDown PROVE PoolTypeOK'
  <2>1. up' \in BOOLEAN
    BY <1>24 DEF ShutDown
  <2>2. QED
    BY <1>24, <2>1 DEF ShutDown, EvictPools, Forget, CloseTunnels, Cached
<1>25. CASE UNCHANGED poolVars
  BY <1>25 DEF poolVars
<1>26. QED
  BY <1>1, <1>2, <1>3, <1>4, <1>5, <1>6, <1>7, <1>8, <1>9, <1>10, <1>11, <1>12, <1>13,
     <1>14, <1>15, <1>16, <1>17, <1>18, <1>19, <1>20, <1>21, <1>22, <1>23, <1>24, <1>25
  DEF PoolNext, Request, Create

\* No step leaves an entry behind for a pool that cannot serve: evictions and
\* failures remove the entries of the three maps together.
LEMMA CacheStep ==
  PoolTypeOK /\ CachedPoolUsable /\ PoolsFit /\ [PoolNext]_poolVars
    => (CachedPoolUsable /\ PoolsFit)'
<1> SUFFICES ASSUME PoolTypeOK, CachedPoolUsable, PoolsFit,
                    [PoolNext]_poolVars
             PROVE  (CachedPoolUsable /\ PoolsFit)'
  OBVIOUS
<1> USE PoolsAssumption DEF PoolTypeOK, CachedPoolUsable, PoolsFit, Creating, cache
<1>1. ASSUME NEW c \in Connections, SaveConnection(c) PROVE (CachedPoolUsable /\ PoolsFit)'
  BY <1>1 DEF SaveConnection
<1>2. ASSUME NEW c \in Connections, RemoveConnection(c) PROVE (CachedPoolUsable /\ PoolsFit)'
  BY <1>2 DEF RemoveConnection
<1>3. ASSUME NEW c \in Connections, EvictChanged(c) PROVE (CachedPoolUsable /\ PoolsFit)'
  BY <1>3 DEF EvictChanged, EvictPools, Forget, CloseTunnels, Cached
<1>4. ASSUME NEW c \in Connections, DriverFor(c) PROVE (CachedPoolUsable /\ PoolsFit)'
  BY <1>4 DEF DriverFor
<1>5. ASSUME NEW r \in Requests, ReadConfig(r) PROVE (CachedPoolUsable /\ PoolsFit)'
  BY <1>5 DEF ReadConfig
<1>6. ASSUME NEW r \in Requests, ResolveCached(r) PROVE (CachedPoolUsable /\ PoolsFit)'
  BY <1>6 DEF ResolveCached, Touch
<1>7. ASSUME NEW r \in Requests, ResolveCreate(r) PROVE (CachedPoolUsable /\ PoolsFit)'
  BY <1>7 DEF ResolveCreate, Touch
<1>8. ASSUME NEW r \in Requests, Awaited(r) PROVE (CachedPoolUsable /\ PoolsFit)'
  BY <1>8 DEF Awaited, Touch
<1>9. ASSUME NEW r \in Requests, AwaitFails(r) PROVE (CachedPoolUsable /\ PoolsFit)'
  BY <1>9 DEF AwaitFails
<1>10. ASSUME NEW r \in Requests, UseEnds(r) PROVE (CachedPoolUsable /\ PoolsFit)'
  BY <1>10 DEF UseEnds
<1>11. ASSUME NEW r \in Requests, CursorOpened(r) PROVE (CachedPoolUsable /\ PoolsFit)'
  BY <1>11 DEF CursorOpened
<1>12. ASSUME NEW r \in Requests, CursorFetch(r) PROVE (CachedPoolUsable /\ PoolsFit)'
  BY <1>12 DEF CursorFetch, Touch
<1>13. ASSUME NEW r \in Requests, CursorClosed(r) \/ CursorAbandoned(r) PROVE (CachedPoolUsable /\ PoolsFit)'
  BY <1>13 DEF CursorClosed, CursorAbandoned
<1>14. ASSUME NEW r \in Requests, TunnelUp(r) PROVE (CachedPoolUsable /\ PoolsFit)'
  BY <1>14 DEF TunnelUp
<1>15. ASSUME NEW r \in Requests, TunnelFails(r) PROVE (CachedPoolUsable /\ PoolsFit)'
  BY <1>15 DEF TunnelFails, DropEntries, Forget
<1>16. ASSUME NEW r \in Requests, PoolReady(r) PROVE (CachedPoolUsable /\ PoolsFit)'
  BY <1>16 DEF PoolReady
<1>17. ASSUME NEW r \in Requests, PoolFails(r) PROVE (CachedPoolUsable /\ PoolsFit)'
  BY <1>17 DEF PoolFails, DropEntries, Forget
<1>18. ASSUME NEW r \in Requests, TunnelUnwinds(r) PROVE (CachedPoolUsable /\ PoolsFit)'
  BY <1>18 DEF TunnelUnwinds
<1>19. ASSUME NEW r \in Requests, TunnelUnwound(r) PROVE (CachedPoolUsable /\ PoolsFit)'
  BY <1>19 DEF TunnelUnwound, DropEntries, Forget
<1>20. ASSUME NEW r \in Requests, CloseEvicted(r) PROVE (CachedPoolUsable /\ PoolsFit)'
  BY <1>20 DEF CloseEvicted
<1>21. ASSUME NEW r \in Requests, EvictionEnds(r) PROVE (CachedPoolUsable /\ PoolsFit)'
  BY <1>21 DEF EvictionEnds, CloseTunnels
<1>22. ASSUME Sweep PROVE (CachedPoolUsable /\ PoolsFit)'
  BY <1>22 DEF Sweep, EvictPools, Forget, CloseTunnels, Cached
<1>23. ASSUME PoolGrowsIdle PROVE (CachedPoolUsable /\ PoolsFit)'
  BY <1>23 DEF PoolGrowsIdle
<1>24. ASSUME ShutDown PROVE (CachedPoolUsable /\ PoolsFit)'
  <2>1. CachedPoolUsable'
    BY <1>24 DEF ShutDown, EvictPools, Forget, CloseTunnels, Cached
  <2>2. PoolsFit'
    BY <1>24 DEF ShutDown, EvictPools, Forget, CloseTunnels, Cached
  <2>3. QED
    BY <2>1, <2>2
<1>25. CASE UNCHANGED poolVars
  BY <1>25 DEF poolVars
<1>26. QED
  BY <1>1, <1>2, <1>3, <1>4, <1>5, <1>6, <1>7, <1>8, <1>9, <1>10, <1>11, <1>12, <1>13,
     <1>14, <1>15, <1>16, <1>17, <1>18, <1>19, <1>20, <1>21, <1>22, <1>23, <1>24, <1>25
  DEF PoolNext, Request, Create

\* A pool leaves the map into an eviction, or because a creation of its
\* connection fails.
LEMMA LostStep ==
  PoolTypeOK /\ CachedPoolUsable /\ PoolsFit /\ PoolLostToFailureOnly /\ [PoolNext]_poolVars
    => PoolLostToFailureOnly'
<1> SUFFICES ASSUME PoolTypeOK, CachedPoolUsable, PoolsFit, PoolLostToFailureOnly,
                    [PoolNext]_poolVars
             PROVE  PoolLostToFailureOnly'
  OBVIOUS
<1> USE PoolsAssumption DEF PoolTypeOK, CachedPoolUsable, PoolsFit, PoolLostToFailureOnly,
        Reachable, Creating, cache
<1>1. ASSUME NEW c \in Connections, SaveConnection(c) PROVE PoolLostToFailureOnly'
  BY <1>1 DEF SaveConnection
<1>2. ASSUME NEW c \in Connections, RemoveConnection(c) PROVE PoolLostToFailureOnly'
  BY <1>2 DEF RemoveConnection
<1>3. ASSUME NEW c \in Connections, EvictChanged(c) PROVE PoolLostToFailureOnly'
  BY <1>3 DEF EvictChanged, EvictPools, Forget, CloseTunnels, Cached
<1>4. ASSUME NEW c \in Connections, DriverFor(c) PROVE PoolLostToFailureOnly'
  BY <1>4 DEF DriverFor
<1>5. ASSUME NEW r \in Requests, ReadConfig(r) PROVE PoolLostToFailureOnly'
  BY <1>5 DEF ReadConfig
<1>6. ASSUME NEW r \in Requests, ResolveCached(r) PROVE PoolLostToFailureOnly'
  BY <1>6 DEF ResolveCached, Touch
<1>7. ASSUME NEW r \in Requests, ResolveCreate(r) PROVE PoolLostToFailureOnly'
  BY <1>7 DEF ResolveCreate, Touch
<1>8. ASSUME NEW r \in Requests, Awaited(r) PROVE PoolLostToFailureOnly'
  BY <1>8 DEF Awaited, Touch
<1>9. ASSUME NEW r \in Requests, AwaitFails(r) PROVE PoolLostToFailureOnly'
  BY <1>9 DEF AwaitFails
<1>10. ASSUME NEW r \in Requests, UseEnds(r) PROVE PoolLostToFailureOnly'
  BY <1>10 DEF UseEnds
<1>11. ASSUME NEW r \in Requests, CursorOpened(r) PROVE PoolLostToFailureOnly'
  BY <1>11 DEF CursorOpened
<1>12. ASSUME NEW r \in Requests, CursorFetch(r) PROVE PoolLostToFailureOnly'
  BY <1>12 DEF CursorFetch, Touch
<1>13. ASSUME NEW r \in Requests, CursorClosed(r) \/ CursorAbandoned(r) PROVE PoolLostToFailureOnly'
  BY <1>13 DEF CursorClosed, CursorAbandoned
<1>14. ASSUME NEW r \in Requests, TunnelUp(r) PROVE PoolLostToFailureOnly'
  BY <1>14 DEF TunnelUp
<1>15. ASSUME NEW r \in Requests, TunnelFails(r) PROVE PoolLostToFailureOnly'
  BY <1>15 DEF TunnelFails, DropEntries, Forget
<1>16. ASSUME NEW r \in Requests, PoolReady(r) PROVE PoolLostToFailureOnly'
  BY <1>16 DEF PoolReady
<1>17. ASSUME NEW r \in Requests, PoolFails(r) PROVE PoolLostToFailureOnly'
  BY <1>17 DEF PoolFails, DropEntries, Forget
<1>18. ASSUME NEW r \in Requests, TunnelUnwinds(r) PROVE PoolLostToFailureOnly'
  BY <1>18 DEF TunnelUnwinds
<1>19. ASSUME NEW r \in Requests, TunnelUnwound(r) PROVE PoolLostToFailureOnly'
  BY <1>19 DEF TunnelUnwound, DropEntries, Forget
<1>20. ASSUME NEW r \in Requests, CloseEvicted(r) PROVE PoolLostToFailureOnly'
  BY <1>20 DEF CloseEvicted
<1>21. ASSUME NEW r \in Requests, EvictionEnds(r) PROVE PoolLostToFailureOnly'
  BY <1>21 DEF EvictionEnds, CloseTunnels
<1>22. ASSUME Sweep PROVE PoolLostToFailureOnly'
  BY <1>22 DEF Sweep, EvictPools, Forget, CloseTunnels, Cached
<1>23. ASSUME PoolGrowsIdle PROVE PoolLostToFailureOnly'
  BY <1>23 DEF PoolGrowsIdle
<1>24. ASSUME ShutDown PROVE PoolLostToFailureOnly'
  BY <1>24 DEF ShutDown, EvictPools, Forget, CloseTunnels, Cached
<1>25. CASE UNCHANGED poolVars
  BY <1>25 DEF poolVars
<1>26. QED
  BY <1>1, <1>2, <1>3, <1>4, <1>5, <1>6, <1>7, <1>8, <1>9, <1>10, <1>11, <1>12, <1>13,
     <1>14, <1>15, <1>16, <1>17, <1>18, <1>19, <1>20, <1>21, <1>22, <1>23, <1>24, <1>25
  DEF PoolNext, Request, Create

\* What a sweep evicts are entries of poolLastUsed.
LEMMA VictimsAreUsed == PoolTypeOK => SweepVictims \subseteq used
  BY DEF PoolTypeOK, SweepVictims, OverCap, Oldest

\* A tunnel is closed together with its entry; only the unwinding creation
\* closes its handle before it deletes the entry.
LEMMA TunnelMapStep ==
  PoolTypeOK /\ PoolsFit /\ TunnelMapSound /\ [PoolNext]_poolVars
    => TunnelMapSound'
<1> SUFFICES ASSUME PoolTypeOK, PoolsFit, TunnelMapSound,
                    [PoolNext]_poolVars
             PROVE  TunnelMapSound'
  OBVIOUS
<1> USE PoolsAssumption DEF PoolTypeOK, PoolsFit, TunnelMapSound, cache
<1>1. ASSUME NEW c \in Connections, SaveConnection(c) PROVE TunnelMapSound'
  BY <1>1 DEF SaveConnection
<1>2. ASSUME NEW c \in Connections, RemoveConnection(c) PROVE TunnelMapSound'
  BY <1>2 DEF RemoveConnection
<1>3. ASSUME NEW c \in Connections, EvictChanged(c) PROVE TunnelMapSound'
  BY <1>3 DEF EvictChanged, EvictPools, Forget, CloseTunnels, Cached
<1>4. ASSUME NEW c \in Connections, DriverFor(c) PROVE TunnelMapSound'
  BY <1>4 DEF DriverFor
<1>5. ASSUME NEW r \in Requests, ReadConfig(r) PROVE TunnelMapSound'
  BY <1>5 DEF ReadConfig
<1>6. ASSUME NEW r \in Requests, ResolveCached(r) PROVE TunnelMapSound'
  BY <1>6 DEF ResolveCached, Touch
<1>7. ASSUME NEW r \in Requests, ResolveCreate(r) PROVE TunnelMapSound'
  BY <1>7 DEF ResolveCreate, Touch
<1>8. ASSUME NEW r \in Requests, Awaited(r) PROVE TunnelMapSound'
  BY <1>8 DEF Awaited, Touch
<1>9. ASSUME NEW r \in Requests, AwaitFails(r) PROVE TunnelMapSound'
  BY <1>9 DEF AwaitFails
<1>10. ASSUME NEW r \in Requests, UseEnds(r) PROVE TunnelMapSound'
  BY <1>10 DEF UseEnds
<1>11. ASSUME NEW r \in Requests, CursorOpened(r) PROVE TunnelMapSound'
  BY <1>11 DEF CursorOpened
<1>12. ASSUME NEW r \in Requests, CursorFetch(r) PROVE TunnelMapSound'
  BY <1>12 DEF CursorFetch, Touch
<1>13. ASSUME NEW r \in Requests, CursorClosed(r) \/ CursorAbandoned(r) PROVE TunnelMapSound'
  BY <1>13 DEF CursorClosed, CursorAbandoned
<1>14. ASSUME NEW r \in Requests, TunnelUp(r) PROVE TunnelMapSound'
  BY <1>14 DEF TunnelUp
<1>15. ASSUME NEW r \in Requests, TunnelFails(r) PROVE TunnelMapSound'
  BY <1>15 DEF TunnelFails, DropEntries, Forget
<1>16. ASSUME NEW r \in Requests, PoolReady(r) PROVE TunnelMapSound'
  BY <1>16 DEF PoolReady
<1>17. ASSUME NEW r \in Requests, PoolFails(r) PROVE TunnelMapSound'
  BY <1>17 DEF PoolFails, DropEntries, Forget
<1>18. ASSUME NEW r \in Requests, TunnelUnwinds(r) PROVE TunnelMapSound'
  BY <1>18 DEF TunnelUnwinds
<1>19. ASSUME NEW r \in Requests, TunnelUnwound(r) PROVE TunnelMapSound'
  BY <1>19 DEF TunnelUnwound, DropEntries, Forget
<1>20. ASSUME NEW r \in Requests, CloseEvicted(r) PROVE TunnelMapSound'
  BY <1>20 DEF CloseEvicted
<1>21. ASSUME NEW r \in Requests, EvictionEnds(r) PROVE TunnelMapSound'
  BY <1>21 DEF EvictionEnds, CloseTunnels
<1>22. ASSUME Sweep PROVE TunnelMapSound'
  <2>1. SweepVictims \subseteq Connections
    BY VictimsAreUsed
  <2>2. QED
    BY <1>22, <2>1 DEF Sweep, EvictPools, Forget, CloseTunnels, Cached
<1>23. ASSUME PoolGrowsIdle PROVE TunnelMapSound'
  BY <1>23 DEF PoolGrowsIdle
<1>24. ASSUME ShutDown PROVE TunnelMapSound'
  BY <1>24 DEF ShutDown, EvictPools, Forget, CloseTunnels, Cached
<1>25. CASE UNCHANGED poolVars
  BY <1>25 DEF poolVars
<1>26. QED
  BY <1>1, <1>2, <1>3, <1>4, <1>5, <1>6, <1>7, <1>8, <1>9, <1>10, <1>11, <1>12, <1>13,
     <1>14, <1>15, <1>16, <1>17, <1>18, <1>19, <1>20, <1>21, <1>22, <1>23, <1>24, <1>25
  DEF PoolNext, Request, Create

\* An entry of the tunnels map goes with its tunnel, or to another tunnel of
\* the connection.
LEMMA TunnelLostStep ==
  PoolTypeOK /\ PoolsFit /\ TunnelMapSound /\ TunnelLostToOverlapOnly /\ [PoolNext]_poolVars
    => TunnelLostToOverlapOnly'
<1> SUFFICES ASSUME PoolTypeOK, PoolsFit, TunnelMapSound, TunnelLostToOverlapOnly,
                    [PoolNext]_poolVars
             PROVE  TunnelLostToOverlapOnly'
  OBVIOUS
<1> USE PoolsAssumption DEF PoolTypeOK, PoolsFit, TunnelMapSound, TunnelLostToOverlapOnly, cache
<1>1. ASSUME NEW c \in Connections, SaveConnection(c) PROVE TunnelLostToOverlapOnly'
  BY <1>1 DEF SaveConnection
<1>2. ASSUME NEW c \in Connections, RemoveConnection(c) PROVE TunnelLostToOverlapOnly'
  BY <1>2 DEF RemoveConnection
<1>3. ASSUME NEW c \in Connections, EvictChanged(c) PROVE TunnelLostToOverlapOnly'
  BY <1>3 DEF EvictChanged, EvictPools, Forget, CloseTunnels, Cached
<1>4. ASSUME NEW c \in Connections, DriverFor(c) PROVE TunnelLostToOverlapOnly'
  BY <1>4 DEF DriverFor
<1>5. ASSUME NEW r \in Requests, ReadConfig(r) PROVE TunnelLostToOverlapOnly'
  BY <1>5 DEF ReadConfig
<1>6. ASSUME NEW r \in Requests, ResolveCached(r) PROVE TunnelLostToOverlapOnly'
  BY <1>6 DEF ResolveCached, Touch
<1>7. ASSUME NEW r \in Requests, ResolveCreate(r) PROVE TunnelLostToOverlapOnly'
  BY <1>7 DEF ResolveCreate, Touch
<1>8. ASSUME NEW r \in Requests, Awaited(r) PROVE TunnelLostToOverlapOnly'
  BY <1>8 DEF Awaited, Touch
<1>9. ASSUME NEW r \in Requests, AwaitFails(r) PROVE TunnelLostToOverlapOnly'
  BY <1>9 DEF AwaitFails
<1>10. ASSUME NEW r \in Requests, UseEnds(r) PROVE TunnelLostToOverlapOnly'
  BY <1>10 DEF UseEnds
<1>11. ASSUME NEW r \in Requests, CursorOpened(r) PROVE TunnelLostToOverlapOnly'
  BY <1>11 DEF CursorOpened
<1>12. ASSUME NEW r \in Requests, CursorFetch(r) PROVE TunnelLostToOverlapOnly'
  BY <1>12 DEF CursorFetch, Touch
<1>13. ASSUME NEW r \in Requests, CursorClosed(r) \/ CursorAbandoned(r) PROVE TunnelLostToOverlapOnly'
  BY <1>13 DEF CursorClosed, CursorAbandoned
<1>14. ASSUME NEW r \in Requests, TunnelUp(r) PROVE TunnelLostToOverlapOnly'
  BY <1>14 DEF TunnelUp
<1>15. ASSUME NEW r \in Requests, TunnelFails(r) PROVE TunnelLostToOverlapOnly'
  BY <1>15 DEF TunnelFails, DropEntries, Forget
<1>16. ASSUME NEW r \in Requests, PoolReady(r) PROVE TunnelLostToOverlapOnly'
  BY <1>16 DEF PoolReady
<1>17. ASSUME NEW r \in Requests, PoolFails(r) PROVE TunnelLostToOverlapOnly'
  BY <1>17 DEF PoolFails, DropEntries, Forget
<1>18. ASSUME NEW r \in Requests, TunnelUnwinds(r) PROVE TunnelLostToOverlapOnly'
  BY <1>18 DEF TunnelUnwinds
<1>19. ASSUME NEW r \in Requests, TunnelUnwound(r) PROVE TunnelLostToOverlapOnly'
  BY <1>19 DEF TunnelUnwound, DropEntries, Forget
<1>20. ASSUME NEW r \in Requests, CloseEvicted(r) PROVE TunnelLostToOverlapOnly'
  BY <1>20 DEF CloseEvicted
<1>21. ASSUME NEW r \in Requests, EvictionEnds(r) PROVE TunnelLostToOverlapOnly'
  BY <1>21 DEF EvictionEnds, CloseTunnels
<1>22. ASSUME Sweep PROVE TunnelLostToOverlapOnly'
  BY <1>22 DEF Sweep, EvictPools, Forget, CloseTunnels, Cached
<1>23. ASSUME PoolGrowsIdle PROVE TunnelLostToOverlapOnly'
  BY <1>23 DEF PoolGrowsIdle
<1>24. ASSUME ShutDown PROVE TunnelLostToOverlapOnly'
  BY <1>24 DEF ShutDown, EvictPools, Forget, CloseTunnels, Cached
<1>25. CASE UNCHANGED poolVars
  BY <1>25 DEF poolVars
<1>26. QED
  BY <1>1, <1>2, <1>3, <1>4, <1>5, <1>6, <1>7, <1>8, <1>9, <1>10, <1>11, <1>12, <1>13,
     <1>14, <1>15, <1>16, <1>17, <1>18, <1>19, <1>20, <1>21, <1>22, <1>23, <1>24, <1>25
  DEF PoolNext, Request, Create

\* The tunnel of a cached pool is closed by nobody but the end of an eviction,
\* which leaves the evicted pool closed or failed.
LEMMA TunnelServesStep ==
  PoolTypeOK /\ CachedPoolUsable /\ PoolsFit /\ TunnelMapSound /\ TunnelServesPool /\ [PoolNext]_poolVars
    => TunnelServesPool'
<1> SUFFICES ASSUME PoolTypeOK, CachedPoolUsable, PoolsFit, TunnelMapSound, TunnelServesPool,
                    [PoolNext]_poolVars
             PROVE  TunnelServesPool'
  OBVIOUS
<1> USE PoolsAssumption DEF PoolTypeOK, CachedPoolUsable, PoolsFit, TunnelMapSound,
        TunnelServesPool, Creating, ByTunnel, cache
<1>1. ASSUME NEW c \in Connections, SaveConnection(c) PROVE TunnelServesPool'
  BY <1>1 DEF SaveConnection
<1>2. ASSUME NEW c \in Connections, RemoveConnection(c) PROVE TunnelServesPool'
  BY <1>2 DEF RemoveConnection
<1>3. ASSUME NEW c \in Connections, EvictChanged(c) PROVE TunnelServesPool'
  BY <1>3 DEF EvictChanged, EvictPools, Forget, CloseTunnels, Cached
<1>4. ASSUME NEW c \in Connections, DriverFor(c) PROVE TunnelServesPool'
  BY <1>4 DEF DriverFor
<1>5. ASSUME NEW r \in Requests, ReadConfig(r) PROVE TunnelServesPool'
  BY <1>5 DEF ReadConfig
<1>6. ASSUME NEW r \in Requests, ResolveCached(r) PROVE TunnelServesPool'
  BY <1>6 DEF ResolveCached, Touch
<1>7. ASSUME NEW r \in Requests, ResolveCreate(r) PROVE TunnelServesPool'
  <2>1. /\ pools' = [pools EXCEPT ![on[r]] = r]
        /\ pool' = [pool EXCEPT ![r] = IF ByTunnel(r) THEN "tunneling" ELSE "connecting"]
        /\ tunnel' = tunnel /\ on' = on /\ snap' = snap
        /\ pool[r] = "none"
    BY <1>7 DEF ResolveCreate
  <2> SUFFICES ASSUME NEW q \in Requests, ByTunnel(q)', pools'[on'[q]] = q,
                      pool'[q] \in {"connecting", "open"}
               PROVE  \/ tunnel'[q] = "open"
                      \/ \E s \in Requests \ {q} : on'[s] = on'[q] /\ pool'[s] \in {"closed", "failed"}
    OBVIOUS
  <2>2. q # r
    <3>1. ByTunnel(q)
      BY <2>1
    <3>2. pool'[r] = (IF ByTunnel(r) THEN "tunneling" ELSE "connecting")
      BY <2>1
    <3>3. QED
      BY <3>1, <3>2
  <2>3. pools[on[q]] = q /\ pool[q] \in {"connecting", "open"} /\ ByTunnel(q)
    BY <2>1, <2>2
  <2>4. QED
    BY <2>1, <2>2, <2>3
<1>8. ASSUME NEW r \in Requests, Awaited(r) PROVE TunnelServesPool'
  BY <1>8 DEF Awaited, Touch
<1>9. ASSUME NEW r \in Requests, AwaitFails(r) PROVE TunnelServesPool'
  BY <1>9 DEF AwaitFails
<1>10. ASSUME NEW r \in Requests, UseEnds(r) PROVE TunnelServesPool'
  BY <1>10 DEF UseEnds
<1>11. ASSUME NEW r \in Requests, CursorOpened(r) PROVE TunnelServesPool'
  BY <1>11 DEF CursorOpened
<1>12. ASSUME NEW r \in Requests, CursorFetch(r) PROVE TunnelServesPool'
  BY <1>12 DEF CursorFetch, Touch
<1>13. ASSUME NEW r \in Requests, CursorClosed(r) \/ CursorAbandoned(r) PROVE TunnelServesPool'
  BY <1>13 DEF CursorClosed, CursorAbandoned
<1>14. ASSUME NEW r \in Requests, TunnelUp(r) PROVE TunnelServesPool'
  BY <1>14 DEF TunnelUp
<1>15. ASSUME NEW r \in Requests, TunnelFails(r) PROVE TunnelServesPool'
  BY <1>15 DEF TunnelFails, DropEntries, Forget
<1>16. ASSUME NEW r \in Requests, PoolReady(r) PROVE TunnelServesPool'
  BY <1>16 DEF PoolReady
<1>17. ASSUME NEW r \in Requests, PoolFails(r) PROVE TunnelServesPool'
  BY <1>17 DEF PoolFails, DropEntries, Forget
<1>18. ASSUME NEW r \in Requests, TunnelUnwinds(r) PROVE TunnelServesPool'
  BY <1>18 DEF TunnelUnwinds
<1>19. ASSUME NEW r \in Requests, TunnelUnwound(r) PROVE TunnelServesPool'
  BY <1>19 DEF TunnelUnwound, DropEntries, Forget
<1>20. ASSUME NEW r \in Requests, CloseEvicted(r) PROVE TunnelServesPool'
  BY <1>20 DEF CloseEvicted
<1>21. ASSUME NEW r \in Requests, EvictionEnds(r) PROVE TunnelServesPool'
  BY <1>21 DEF EvictionEnds, CloseTunnels
<1>22. ASSUME Sweep PROVE TunnelServesPool'
  <2>1. SweepVictims \subseteq Connections
    BY VictimsAreUsed
  <2>2. QED
    BY <1>22, <2>1 DEF Sweep, EvictPools, Forget, CloseTunnels, Cached
<1>23. ASSUME PoolGrowsIdle PROVE TunnelServesPool'
  BY <1>23 DEF PoolGrowsIdle
<1>24. ASSUME ShutDown PROVE TunnelServesPool'
  BY <1>24 DEF ShutDown, EvictPools, Forget, CloseTunnels, Cached
<1>25. CASE UNCHANGED poolVars
  BY <1>25 DEF poolVars
<1>26. QED
  BY <1>1, <1>2, <1>3, <1>4, <1>5, <1>6, <1>7, <1>8, <1>9, <1>10, <1>11, <1>12, <1>13,
     <1>14, <1>15, <1>16, <1>17, <1>18, <1>19, <1>20, <1>21, <1>22, <1>23, <1>24, <1>25
  DEF PoolNext, Request, Create

\* The invariant holds initially: nothing is cached.
LEMMA InitPoolInv == PoolInit => PoolInv
<1> SUFFICES ASSUME PoolInit PROVE PoolInv
  OBVIOUS
<1> USE PoolsAssumption DEF PoolInit
<1>1. PoolTypeOK
  BY BoundsAssumption DEF PoolTypeOK, PoolState, Stage, Versions, Gone
<1>2. CachedPoolUsable /\ PoolsFit /\ PoolLostToFailureOnly
  BY DEF CachedPoolUsable, PoolsFit, PoolLostToFailureOnly, Creating
<1>3. TunnelMapSound /\ TunnelLostToOverlapOnly /\ TunnelServesPool
  BY DEF TunnelMapSound, TunnelLostToOverlapOnly, TunnelServesPool
<1>4. QED
  BY <1>1, <1>2, <1>3 DEF PoolInv

\* PoolInv is an invariant: what is cached can serve, and pools and tunnels
\* are lost only where creations of one connection overlap.
THEOREM PoolInvariant == PoolSpec => []PoolInv
<1>1. PoolInv /\ [PoolNext]_poolVars => PoolInv'
  BY PoolTypeStep, CacheStep, LostStep, TunnelMapStep, TunnelLostStep, TunnelServesStep
     DEF PoolInv
<1>2. QED
  BY InitPoolInv, <1>1, PTL DEF PoolSpec

\* Every variable of the pool manager keeps its type.
THEOREM PoolTypeCorrect == PoolSpec => []PoolTypeOK
<1>1. PoolInv => PoolTypeOK
  BY DEF PoolInv
<1>2. QED
  BY PoolInvariant, <1>1, PTL

\* What resolve() finds in the map is being created or open, of this
\* connection, in no eviction, and evictPool can close it (line 197).
THEOREM CachedPoolsUsable == PoolSpec => []CachedPoolUsable
<1>1. PoolInv => CachedPoolUsable
  BY DEF PoolInv
<1>2. QED
  BY PoolInvariant, <1>1, PTL

\* The tunnels map never keeps a closed tunnel beyond the failing creation
\* that closed it.
THEOREM TunnelMapIsSound == PoolSpec => []TunnelMapSound
<1>1. PoolInv => TunnelMapSound
  BY DEF PoolInv
<1>2. QED
  BY PoolInvariant, <1>1, PTL

\* While no creation of a connection fails, none of its pools is lost.
THEOREM PoolsLostToFailureOnly == PoolSpec => []PoolLostToFailureOnly
<1>1. PoolInv => PoolLostToFailureOnly
  BY DEF PoolInv
<1>2. QED
  BY PoolInvariant, <1>1, PTL

\* While a connection opens one tunnel, that tunnel is not lost.
THEOREM TunnelsLostToOverlapOnly == PoolSpec => []TunnelLostToOverlapOnly
<1>1. PoolInv => TunnelLostToOverlapOnly
  BY DEF PoolInv
<1>2. QED
  BY PoolInvariant, <1>1, PTL

\* An open cached pool loses its tunnel only to a predecessor that was evicted
\* or failed.
THEOREM TunnelsTornByPredecessorOnly == PoolSpec => []TunnelTornByPredecessorOnly
<1>1. PoolInv => TunnelTornByPredecessorOnly
  <2> SUFFICES ASSUME PoolInv,
                      NEW c \in Connections, pools[c] # NoPool, pool[pools[c]] = "open",
                      ByTunnel(pools[c])
               PROVE  \/ tunnel[pools[c]] = "open"
                      \/ \E s \in Requests \ {pools[c]} :
                           on[s] = c /\ pool[s] \in {"closed", "failed"}
    BY DEF TunnelTornByPredecessorOnly
  <2>1. pools[c] \in Requests /\ on[pools[c]] = c
    BY ConnectionsAssumption DEF PoolInv, PoolTypeOK, CachedPoolUsable
  <2>2. QED
    BY <2>1 DEF PoolInv, TunnelServesPool
<1>2. QED
  BY PoolInvariant, <1>1, PTL

-----------------------------------------------------------------------------
(* The cap.                                                                *)

\* Entries leave the order of use, or become its youngest; nothing else changes it.
LEMMA UseOrderStep ==
  PoolTypeOK /\ UseOrder /\ [PoolNext]_poolVars => UseOrder'
<1> SUFFICES ASSUME PoolTypeOK, UseOrder, [PoolNext]_poolVars PROVE UseOrder'
  OBVIOUS
<1>1. ASSUME NEW c \in Connections, Touch(c) PROVE UseOrder'
  <2>1. /\ used' = used \cup {c} /\ older'[c] = used \ {c}
        /\ \A d \in used \ {c} : older'[d] = older[d] \ {c}
    BY <1>1 DEF Touch, PoolTypeOK
  <2>2. QED
    BY <2>1 DEF UseOrder, PoolTypeOK
<1>2. ASSUME NEW S \in SUBSET Connections, Forget(S) PROVE UseOrder'
  <2>1. used' = used \ S /\ \A d \in used \ S : older'[d] = older[d] \ S
    BY <1>2 DEF Forget, PoolTypeOK
  <2>2. QED
    BY <2>1 DEF UseOrder, PoolTypeOK
<1>3. CASE UNCHANGED <<used, older>>
  BY <1>3 DEF UseOrder
<1>4. ASSUME NEW S \in SUBSET Connections, EvictPools(S) PROVE UseOrder'
  BY <1>2, <1>4 DEF EvictPools
<1>5. ASSUME NEW c \in Connections, DropEntries(c) PROVE UseOrder'
  <2>1. {c} \in SUBSET Connections
    OBVIOUS
  <2>2. QED
    BY <1>2, <1>5, <2>1 DEF DropEntries
<1>6. ASSUME NEW c \in Connections,
             SaveConnection(c) \/ RemoveConnection(c) \/ EvictChanged(c) \/ DriverFor(c)
      PROVE  UseOrder'
  <2>1. {c} \in SUBSET Connections
    OBVIOUS
  <2>2. QED
    BY <1>3, <1>4, <1>6, <2>1
       DEF SaveConnection, RemoveConnection, EvictChanged, DriverFor, cache
<1>7. ASSUME NEW r \in Requests, Request(r) PROVE UseOrder'
  <2>1. on[r] \in Connections
    BY DEF PoolTypeOK
  <2>2. QED
    BY <1>1, <1>3, <1>7, <2>1
       DEF Request, ReadConfig, ResolveCached, ResolveCreate, Awaited, AwaitFails, UseEnds,
           CursorOpened, CursorFetch, CursorClosed, CursorAbandoned, cache
<1>8. ASSUME NEW r \in Requests, Create(r) \/ CloseEvicted(r) \/ EvictionEnds(r)
      PROVE  UseOrder'
  <2>1. on[r] \in Connections
    BY DEF PoolTypeOK
  <2>2. QED
    BY <1>3, <1>5, <1>8, <2>1
       DEF Create, TunnelUp, TunnelFails, PoolReady, PoolFails, TunnelUnwinds, TunnelUnwound,
           CloseEvicted, EvictionEnds, cache
<1>9. SweepVictims \in SUBSET Connections /\ Cached \in SUBSET Connections
  BY DEF SweepVictims, OverCap, Oldest, Cached, PoolTypeOK
<1>10. QED
  BY <1>3, <1>4, <1>6, <1>7, <1>8, <1>9 DEF PoolNext, Sweep, PoolGrowsIdle, ShutDown, poolVars

\* In a strict total order, the elements with fewer than n elements before them are n.
LEMMA FirstOfOrder ==
  ASSUME NEW S, IsFiniteSet(S), NEW before,
         \A c \in S : c \notin before[c],
         \A c, d \in S : c = d \/ c \in before[d] \/ d \in before[c],
         \A c, d, e \in S : c \in before[d] /\ d \in before[e] => c \in before[e],
         NEW n \in Nat, n <= Cardinality(S)
  PROVE  Cardinality({c \in S : Cardinality(before[c] \cap S) < n}) = n
<1> DEFINE k == Cardinality(S)
           place == [c \in S |-> Cardinality(before[c] \cap S)]
           first == {c \in S : Cardinality(before[c] \cap S) < n}
<1>1. k \in Nat
  BY FS_CardinalityType
<1>2. ASSUME NEW c \in S PROVE place[c] \in 0..(k-1)
  <2>1. before[c] \cap S \in SUBSET S /\ before[c] \cap S # S
    OBVIOUS
  <2>2. /\ IsFiniteSet(before[c] \cap S)
        /\ Cardinality(before[c] \cap S) <= k
        /\ Cardinality(before[c] \cap S) # k
    BY <2>1, FS_Subset
  <2>3. Cardinality(before[c] \cap S) \in Nat
    BY <2>2, FS_CardinalityType
  <2>4. QED
    BY <1>1, <2>2, <2>3
<1>3. ASSUME NEW c \in S, NEW d \in S, c \in before[d] PROVE place[c] # place[d]
  <2>1. /\ before[c] \cap S \in SUBSET (before[d] \cap S)
        /\ before[c] \cap S # before[d] \cap S
    BY <1>3
  <2>2. IsFiniteSet(before[d] \cap S)
    BY FS_Intersection
  <2>3. Cardinality(before[d] \cap S) # Cardinality(before[c] \cap S)
    BY <2>1, <2>2, FS_Subset
  <2>4. QED
    BY <2>3
<1>4. \A c, d \in S : place[c] = place[d] => c = d
  BY <1>3
<1>5. place \in Injection(S, 0..(k-1))
  <2>1. place \in [S -> 0..(k-1)]
    BY <1>2
  <2>2. QED
    BY <1>4, <2>1 DEF Injection, IsInjective
<1>6. IsFiniteSet(0..(k-1)) /\ Cardinality(0..(k-1)) = k
  <2> HIDE DEF k
  <2>1. 0 \in Int /\ k - 1 \in Int
    BY <1>1
  <2>2. /\ IsFiniteSet(0..(k-1))
        /\ Cardinality(0..(k-1)) = IF 0 > k-1 THEN 0 ELSE (k-1)-0+1
    BY <2>1, FS_Interval
  <2>3. QED
    BY <1>1, <2>2
<1>7. place \in Surjection(S, 0..(k-1))
  BY <1>5, <1>6, FS_Injection
<1>8. first \in SUBSET S /\ IsFiniteSet(first)
  BY FS_Subset
<1>9. [c \in first |-> place[c]] \in Bijection(first, 0..(n-1))
  <2>1. [c \in first |-> place[c]] \in [first -> 0..(n-1)]
    BY <1>1, <1>2
  <2>2. \A m \in 0..(n-1) : \E c \in first : place[c] = m
    <3>1. SUFFICES ASSUME NEW m \in 0..(n-1) PROVE \E c \in first : place[c] = m
      OBVIOUS
    <3>2. m \in 0..(k-1)
      BY <1>1
    <3>3. PICK c \in S : place[c] = m
      BY <1>7, <3>2 DEF Surjection
    <3>4. Cardinality(before[c] \cap S) < n
      BY <3>3
    <3>5. QED
      BY <3>3, <3>4
  <2> HIDE DEF place
  <2>3. \A c, d \in first : place[c] = place[d] => c = d
    BY <1>4, <1>8
  <2> HIDE DEF first
  <2>4. QED
    BY <2>1, <2>2, <2>3 DEF Bijection, Injection, Surjection, IsInjective
<1>10. Cardinality(0..(n-1)) = n
  <2>1. Cardinality(0..(n-1)) = IF 0 > n-1 THEN 0 ELSE (n-1)-0+1
    BY FS_Interval
  <2>2. QED
    BY <2>1
<1>11. QED
  BY <1>8, <1>9, <1>10, FS_Bijection DEF ExistsBijection

\* A sweep of well-formed maps leaves at most the cap and one pool per ghost entry.
LEMMA SweepLeavesCap ==
  ASSUME PoolTypeOK, CachedPoolUsable, UseOrder
  PROVE  SweepNearsCap
<1> DEFINE swept == {c \in poolIdle : ~HasActiveCursors(c)}
           evictable == {c \in Cached \ swept : ~HasActiveCursors(c)}
           left == {c \in used \ (swept \cap Cached) : ~HasActiveCursors(c)}
           taken == OverCap(swept)
<1>1. \A T \in SUBSET Connections : IsFiniteSet(T) /\ Cardinality(T) \in Nat
  BY ConnectionsAssumption, FS_Subset, FS_CardinalityType
<1>2. evictable \in SUBSET left /\ left \ evictable \in SUBSET Ghosts
  BY DEF CachedPoolUsable, Cached, Ghosts
<1>3. /\ evictable \in SUBSET Connections /\ left \in SUBSET used /\ left \in SUBSET Connections
      /\ Ghosts \in SUBSET Connections
  BY DEF Cached, Ghosts, PoolTypeOK
<1>4. LeftBySweep = evictable \ taken
  BY DEF LeftBySweep, SweepVictims
<1>5. CASE Cardinality(evictable) <= PoolMax
  <2>1. /\ Cardinality(evictable) \in Nat /\ Cardinality(LeftBySweep) \in Nat
        /\ Cardinality(Ghosts) \in Nat
        /\ Cardinality(LeftBySweep) <= Cardinality(evictable)
    BY <1>1, <1>3, <1>4, FS_Subset
  <2>2. QED
    BY <1>5, <2>1, BoundsAssumption DEF SweepNearsCap
<1>6. CASE Cardinality(evictable) > PoolMax
  <2> DEFINE n == Cardinality(evictable) - PoolMax
  <2>1. taken = {c \in left : Cardinality(older[c] \cap left) < n}
    BY <1>6 DEF OverCap, Oldest
  <2>2. Cardinality(evictable) <= Cardinality(left)
    BY <1>1, <1>2, <1>3, FS_Subset
  <2>3. n \in Nat /\ n <= Cardinality(left)
    BY <1>1, <1>3, <1>6, <2>2, BoundsAssumption
  <2>4. Cardinality(taken) = n
    <3>1. /\ \A c \in left : c \notin older[c]
          /\ \A c, d \in left : c = d \/ c \in older[d] \/ d \in older[c]
          /\ \A c, d, e \in left : c \in older[d] /\ d \in older[e] => c \in older[e]
      BY <1>3 DEF UseOrder
    <3>2. IsFiniteSet(left)
      BY <1>1, <1>3
    <3> HIDE DEF left, n, taken
    <3>3. QED
      BY <2>1, <2>3, <3>1, <3>2, FirstOfOrder
  <2>5. taken \in SUBSET left
    BY <2>1
  <2> HIDE DEF left, taken, evictable
  <2>6. /\ taken = (taken \cap evictable) \cup (taken \ evictable)
        /\ (taken \cap evictable) \cap (taken \ evictable) = {}
        /\ taken \ evictable \in SUBSET Ghosts
        /\ taken \cap evictable \in SUBSET Connections /\ taken \ evictable \in SUBSET Connections
        /\ evictable \ taken \in SUBSET Connections /\ taken \in SUBSET Connections
    BY <1>2, <1>3, <2>5
  <2>7. Cardinality(taken \ evictable) <= Cardinality(Ghosts)
    BY <1>1, <1>3, <2>6, FS_Subset
  <2>8. Cardinality(taken \ evictable) = Cardinality(taken) - Cardinality(taken \cap evictable)
    BY <1>1, <2>6, FS_Difference
  <2>9. /\ Cardinality(evictable \ taken)
             = Cardinality(evictable) - Cardinality(evictable \cap taken)
        /\ evictable \cap taken = taken \cap evictable
    BY <1>1, <1>3, FS_Difference
  <2>10. /\ Cardinality(taken \cap evictable) \in Nat /\ Cardinality(taken \ evictable) \in Nat
         /\ Cardinality(evictable) \in Nat /\ Cardinality(Ghosts) \in Nat
    BY <1>1, <1>3, <2>6
  <2>11. Cardinality(evictable \ taken) <= PoolMax + Cardinality(Ghosts)
    <3>1. Cardinality(taken) = Cardinality(evictable) - PoolMax
      BY <2>4
    <3>2. Cardinality(evictable \ taken)
            = Cardinality(evictable) - Cardinality(taken \cap evictable)
      BY <2>9
    <3> HIDE DEF n
    <3>3. QED
      BY <2>7, <2>8, <2>10, <3>1, <3>2, BoundsAssumption
  <2>12. QED
    BY <1>4, <2>11 DEF SweepNearsCap
<1>7. Cardinality(evictable) \in Nat
  BY <1>1, <1>3
<1>8. QED
  BY <1>5, <1>6, <1>7, BoundsAssumption

\* Whenever the sweep runs, it leaves at most the allowed pools without cursors, and one
\* more for each entry of poolLastUsed that an eviction overtook.
THEOREM SweepsNearCap == PoolSpec => []SweepNearsCap
<1>1. PoolInit => UseOrder
  BY DEF PoolInit, UseOrder
<1>2. PoolTypeOK /\ UseOrder /\ [PoolNext]_poolVars => UseOrder'
  BY UseOrderStep
<1>3. PoolTypeOK /\ CachedPoolUsable /\ UseOrder => SweepNearsCap
  BY SweepLeavesCap
<1>4. QED
  BY <1>1, <1>2, <1>3, PoolTypeCorrect, CachedPoolsUsable, PTL DEF PoolSpec

\* A sweep of well-formed maps takes a pool that is not idle only if enough entries
\* were used after its own.
LEMMA SweepTakesOld ==
  ASSUME PoolTypeOK, CachedPoolUsable, UseOrder
  PROVE  SweepTakesOnlyStale
<1> SUFFICES ASSUME NEW c \in SweepVictims \cap Cached
             PROVE  ~HasActiveCursors(c) /\ (c \in poolIdle \/ Cardinality(UsedAfter(c)) >= PoolMax)
  BY DEF SweepTakesOnlyStale
<1> DEFINE swept == {d \in poolIdle : ~HasActiveCursors(d)}
           evictable == {d \in Cached \ swept : ~HasActiveCursors(d)}
           left == {d \in used \ (swept \cap Cached) : ~HasActiveCursors(d)}
           n == Cardinality(evictable) - PoolMax
           before == older[c] \cap left
<1>1. \A T \in SUBSET Connections : IsFiniteSet(T) /\ Cardinality(T) \in Nat
  BY ConnectionsAssumption, FS_Subset, FS_CardinalityType
<1>2. CASE c \in swept
  BY <1>2
<1>3. CASE c \in OverCap(swept)
  <2>1. /\ Cardinality(evictable) > PoolMax /\ c \in left /\ Cardinality(before) < n
    BY <1>3 DEF OverCap, Oldest
  <2>2. /\ evictable \in SUBSET left /\ left \in SUBSET used
        /\ before \in SUBSET left /\ c \in used
    BY <2>1 DEF CachedPoolUsable, Cached
  <2>3. /\ evictable \in SUBSET Connections /\ left \in SUBSET Connections
        /\ before \in SUBSET Connections /\ UsedAfter(c) \in SUBSET Connections
        /\ before \cup {c} \in SUBSET left /\ before \cup {c} \in SUBSET Connections
    BY <2>1, <2>2 DEF PoolTypeOK, UsedAfter, Cached
  <2>4. left \ (before \cup {c}) \in SUBSET UsedAfter(c)
    BY <2>2 DEF UseOrder, UsedAfter
  <2> HIDE DEF left, before, evictable
  <2>5. Cardinality(before \cup {c}) <= Cardinality(before) + 1
    <3>1. Cardinality(before \cup {c}) \in {Cardinality(before), Cardinality(before) + 1}
      BY <1>1, <2>3, FS_AddElement
    <3>2. QED
      BY <1>1, <2>3, <3>1
  <2>6. Cardinality(left \ (before \cup {c})) = Cardinality(left) - Cardinality(before \cup {c})
    <3>1. left \cap (before \cup {c}) = before \cup {c}
      BY <2>3
    <3>2. QED
      BY <1>1, <2>3, <3>1, FS_Difference
  <2>7. /\ Cardinality(left \ (before \cup {c})) <= Cardinality(UsedAfter(c))
        /\ Cardinality(evictable) <= Cardinality(left)
    BY <1>1, <2>2, <2>3, <2>4, FS_Subset
  <2>8. /\ Cardinality(left) \in Nat /\ Cardinality(evictable) \in Nat
        /\ Cardinality(before) \in Nat /\ Cardinality(before \cup {c}) \in Nat
        /\ Cardinality(UsedAfter(c)) \in Nat /\ PoolMax \in Nat
    BY <1>1, <2>3, BoundsAssumption
  <2>9. Cardinality(UsedAfter(c)) >= PoolMax
    BY <2>1, <2>5, <2>6, <2>7, <2>8
  <2>10. ~HasActiveCursors(c)
    BY <1>3 DEF OverCap, Oldest
  <2>11. QED
    BY <2>9, <2>10
<1>4. QED
  BY <1>2, <1>3 DEF SweepVictims

\* Whatever calls, evictions and sweeps came before, a sweep takes the pool of no
\* connection with a counted cursor, and that of any other only after poolIdleMs or
\* when the allowed number of other connections have been used since.
THEOREM SweepsTakeOnlyStale == PoolSpec => []SweepTakesOnlyStale
<1>1. PoolInit => UseOrder
  BY DEF PoolInit, UseOrder
<1>2. PoolTypeOK /\ UseOrder /\ [PoolNext]_poolVars => UseOrder'
  BY UseOrderStep
<1>3. PoolTypeOK /\ CachedPoolUsable /\ UseOrder => SweepTakesOnlyStale
  BY SweepTakesOld
<1>4. QED
  BY <1>1, <1>2, <1>3, PoolTypeCorrect, CachedPoolsUsable, PTL DEF PoolSpec

-----------------------------------------------------------------------------
(* SSH tunnels: trust on first use, and no client left behind. *)

\* A connection starts with no key stored, and nothing open.
LEMMA InitSshInv == SshInit => SshInv
<1> SUFFICES ASSUME SshInit PROVE SshInv
  OBVIOUS
<1> USE NamesAssumption, ChangesAssumption DEF SshInit, Accepted
<1>1. SshTypeOK
  <2>1. PICK h \in Hosts : hostRow = [on |-> TRUE, host |-> h, pin |-> NoKey]
                            /\ cfg = [o \in Opens |-> [host |-> h, known |-> NoKey, test |-> FALSE]]
    OBVIOUS
  <2>2. 0 \in 0..MaxChanges
    OBVIOUS
  <2>3. QED
    BY <2>1, <2>2 DEF SshTypeOK, Stages
<1>2. ConnectsToStored /\ AcceptedSaw /\ PinsUnknown
  BY DEF ConnectsToStored, AcceptedSaw, PinsUnknown
<1>3. PinnerHasSeen /\ InformedKnow /\ PinIsTheHosts
  BY DEF Pinned, PinnerHasSeen, InformedKnow, PinIsTheHosts
<1>4. QED
  BY <1>1, <1>2, <1>3 DEF SshInv

\* Every variable keeps its type.
LEMMA SshTypeStep == SshTypeOK /\ [SshNext]_sshVars => SshTypeOK'
<1> SUFFICES ASSUME SshTypeOK, [SshNext]_sshVars PROVE SshTypeOK'
  OBVIOUS
<1> USE NamesAssumption, ChangesAssumption DEF SshTypeOK, Stages, Keys, history
<1>1. ASSUME NEW h \in Hosts, Save(h) PROVE SshTypeOK'
  BY <1>1 DEF Save, Stores
<1>2. ASSUME NEW h \in Hosts, HostChanges(h) PROVE SshTypeOK'
  BY <1>2 DEF HostChanges
<1>3. ASSUME TurnOff PROVE SshTypeOK'
  BY <1>3 DEF TurnOff, Stores
<1>4. ASSUME TurnOn PROVE SshTypeOK'
  BY <1>4 DEF TurnOn
<1>5. ASSUME NEW o \in Opens, Resolve(o) PROVE SshTypeOK'
  BY <1>5 DEF Resolve, Connects, Moves
<1>6. ASSUME NEW o \in Opens, Test(o) PROVE SshTypeOK'
  BY <1>6 DEF Test, Connects, Moves
<1>7. ASSUME NEW o \in Opens, HostKey(o) PROVE SshTypeOK'
  BY <1>7 DEF HostKey, Rejects, Trusts
<1>8. ASSUME NEW o \in Opens, Ready(o) PROVE SshTypeOK'
  BY <1>8 DEF Ready, Moves
<1>9. ASSUME NEW o \in Opens, ConnectFails(o) PROVE SshTypeOK'
  BY <1>9 DEF ConnectFails, Rejects
<1>10. ASSUME NEW o \in Opens, Listens(o) PROVE SshTypeOK'
  BY <1>10 DEF Listens, Moves
<1>11. ASSUME NEW o \in Opens, ListenFails(o) PROVE SshTypeOK'
  BY <1>11 DEF ListenFails, Moves
<1>12. ASSUME NEW o \in Opens, Pin(o) PROVE SshTypeOK'
  <2>1. [hostRow EXCEPT !.pin = saw[o]] \in [on : BOOLEAN, host : Hosts, pin : Keys \cup {NoKey}]
    OBVIOUS
  <2>2. hostRow' \in [on : BOOLEAN, host : Hosts, pin : Keys \cup {NoKey}]
    BY <1>12, <2>1 DEF Pin
  <2>3. pinner' \in Opens \cup {NoOpen} /\ late' \in BOOLEAN /\ informed' \subseteq Opens
    <3>1. CASE UNCHANGED <<hostRow, pinner, late, informed>>
      BY <3>1
    <3>2. CASE pinner' = o /\ late' = (o \in overtaken) /\ informed' \in {informed, {}}
      <4>1. (o \in overtaken) \in BOOLEAN
        OBVIOUS
      <4>2. QED
        BY <3>2, <4>1
    <3>3. QED
      BY <1>12, <3>1, <3>2 DEF Pin
  <2>4. sshStage' \in [Opens -> Stages]
    BY <1>12 DEF Pin, Moves
  <2>5. QED
    BY <1>12, <2>2, <2>3, <2>4 DEF Pin
<1>13. ASSUME NEW o \in Opens, TunneledPoolReady(o) PROVE SshTypeOK'
  BY <1>13 DEF TunneledPoolReady, Moves
<1>14. ASSUME NEW o \in Opens, TunneledPoolFails(o) PROVE SshTypeOK'
  BY <1>14 DEF TunneledPoolFails, Closes, Moves
<1>15. ASSUME NEW o \in Opens, Tested(o) PROVE SshTypeOK'
  BY <1>15 DEF Tested, Closes, Moves
<1>16. ASSUME NEW o \in Opens, CloseTunnel(o) PROVE SshTypeOK'
  BY <1>16 DEF CloseTunnel, Closes
<1>17. ASSUME NEW o \in Opens, ServerClosed(o) PROVE SshTypeOK'
  BY <1>17 DEF ServerClosed
<1>18. CASE UNCHANGED sshVars
  BY <1>18 DEF sshVars
<1>19. QED
  BY <1>1, <1>2, <1>3, <1>4, <1>5, <1>6, <1>7, <1>8, <1>9, <1>10, <1>11, <1>12, <1>13, <1>14,
     <1>15, <1>16, <1>17, <1>18 DEF SshNext, Open

\* The parts of the invariant hold each other up, action by action.
LEMMA SshInvStep == SshInv /\ [SshNext]_sshVars => SshInv'
<1> SUFFICES ASSUME SshInv, [SshNext]_sshVars PROVE SshInv'
  OBVIOUS
<1>0. SshTypeOK /\ SshTypeOK'
  BY SshTypeStep DEF SshInv
<1> DEFINE Rest == ConnectsToStored /\ AcceptedSaw /\ PinsUnknown /\ PinnerHasSeen
                     /\ InformedKnow /\ PinIsTheHosts
<1> USE NamesAssumption, ChangesAssumption DEF SshTypeOK, Keys, SshInv, ConnectsToStored,
        Accepted, AcceptedSaw, PinsUnknown,
        Pinned, PinnerHasSeen, InformedKnow, PinIsTheHosts, history
<1>1. ASSUME NEW h \in Hosts, Save(h) PROVE Rest'
  BY <1>0, <1>1 DEF Save, Stores
<1>2. ASSUME NEW h \in Hosts, HostChanges(h) PROVE Rest'
  BY <1>0, <1>2 DEF HostChanges
<1>3. ASSUME TurnOff PROVE Rest'
  BY <1>0, <1>3 DEF TurnOff, Stores
<1>4. ASSUME TurnOn PROVE Rest'
  BY <1>0, <1>4 DEF TurnOn
<1>5. ASSUME NEW o \in Opens, Resolve(o) PROVE Rest'
  BY <1>0, <1>5 DEF Resolve, Connects, Moves
<1>6. ASSUME NEW o \in Opens, Test(o) PROVE Rest'
  BY <1>0, <1>6 DEF Test, Connects, Moves
<1>7. ASSUME NEW o \in Opens, HostKey(o) PROVE Rest'
  <2>1. CASE sshStage' = [sshStage EXCEPT ![o] = "failed"]
    BY <1>0, <1>7, <2>1 DEF HostKey, Rejects, Trusts
  <2>2. CASE /\ Trusts(o, <<cfg[o].host, key[cfg[o].host]>>)
             /\ sshStage' = [sshStage EXCEPT ![o] = "verified"]
    <3>1. saw'[o] \in Keys
      BY <1>0, <1>7 DEF HostKey
    <3>2. \A q \in Opens : q # o => saw'[q] = saw[q] /\ sshStage'[q] = sshStage[q]
      BY <1>0, <1>7, <2>2 DEF HostKey
    <3>3. AcceptedSaw'
      BY <1>0, <1>7, <2>2, <3>1, <3>2 DEF HostKey, Trusts
    <3>4. PinnerHasSeen' /\ PinIsTheHosts'
      BY <1>0, <1>7, <2>2, <3>2 DEF HostKey
    <3>5. ConnectsToStored' /\ PinsUnknown' /\ InformedKnow'
      BY <1>0, <1>7, <2>2, <3>2 DEF HostKey
    <3>6. QED
      BY <3>3, <3>4, <3>5
  <2>3. QED
    BY <1>7, <2>1, <2>2 DEF HostKey, Rejects
<1>8. ASSUME NEW o \in Opens, Ready(o) PROVE Rest'
  BY <1>0, <1>8 DEF Ready, Moves
<1>9. ASSUME NEW o \in Opens, ConnectFails(o) PROVE Rest'
  BY <1>0, <1>9 DEF ConnectFails, Rejects
<1>10. ASSUME NEW o \in Opens, Listens(o) PROVE Rest'
  BY <1>0, <1>10 DEF Listens, Moves
<1>11. ASSUME NEW o \in Opens, ListenFails(o) PROVE Rest'
  BY <1>0, <1>11 DEF ListenFails, Moves
<1>12. ASSUME NEW o \in Opens, Pin(o) PROVE Rest'
  <2>1. CASE hostRow' = [hostRow EXCEPT !.pin = saw[o]]
               /\ pinner' = o /\ late' = (o \in overtaken)
               /\ informed' = IF hostRow.pin = saw[o] THEN informed ELSE {}
    <3>1. ConnectsToStored' /\ AcceptedSaw' /\ PinsUnknown'
      BY <1>0, <1>12, <2>1 DEF Pin, Moves
    <3>2. PinnerHasSeen' /\ InformedKnow'
      BY <1>0, <1>12, <2>1 DEF Pin, Moves
    <3>3. PinIsTheHosts'
      BY <1>0, <1>12, <2>1 DEF Pin, Moves
    <3>4. QED
      BY <3>1, <3>2, <3>3
  <2>2. CASE UNCHANGED <<hostRow, pinner, late, informed>>
    BY <1>0, <1>12, <2>2 DEF Pin, Moves
  <2>3. QED
    BY <1>12, <2>1, <2>2 DEF Pin
<1>13. ASSUME NEW o \in Opens, TunneledPoolReady(o) PROVE Rest'
  BY <1>0, <1>13 DEF TunneledPoolReady, Moves
<1>14. ASSUME NEW o \in Opens, TunneledPoolFails(o) PROVE Rest'
  BY <1>0, <1>14 DEF TunneledPoolFails, Closes, Moves
<1>15. ASSUME NEW o \in Opens, Tested(o) PROVE Rest'
  BY <1>0, <1>15 DEF Tested, Closes, Moves
<1>16. ASSUME NEW o \in Opens, CloseTunnel(o) PROVE Rest'
  BY <1>0, <1>16 DEF CloseTunnel, Closes
<1>17. ASSUME NEW o \in Opens, ServerClosed(o) PROVE Rest'
  BY <1>0, <1>17 DEF ServerClosed
<1>18. CASE UNCHANGED sshVars
  BY <1>0, <1>18 DEF sshVars
<1>19. Rest'
  BY <1>1, <1>2, <1>3, <1>4, <1>5, <1>6, <1>7, <1>8, <1>9, <1>10, <1>11, <1>12, <1>13, <1>14,
     <1>15, <1>16, <1>17, <1>18 DEF SshNext, Open
<1>20. QED
  BY <1>0, <1>19

\* The inductive invariant of the tunnels.
THEOREM SshInvariant == SshSpec => []SshInv
  BY InitSshInv, SshInvStep, PTL DEF SshSpec

\* A stored key is one the stored host has presented, unless a save overtook the
\* open that stored it, and every open that has read it since verifies it.
THEOREM TrustedOnFirstUse == SshSpec => []TrustOnFirstUse
<1>1. SshInv => TrustOnFirstUse
  BY DEF SshInv, TrustOnFirstUse, PinIsVerified, InformedKnow, AcceptedSaw, Pinned, SshTypeOK
<1>2. QED
  BY <1>1, SshInvariant, PTL

\* Servers and clients end together, action by action.
LEMMA SshClientStep == ClientInv /\ [SshNext]_sshVars => ClientInv'
<1> SUFFICES ASSUME ClientInv, [SshNext]_sshVars PROVE ClientInv'
  OBVIOUS
<1>0. SshTypeOK /\ SshTypeOK'
  BY SshTypeStep DEF ClientInv
<1> DEFINE Rest == ServerFollowsClient /\ ClientLeftByFailedListenOnly
<1> USE DEF SshTypeOK, Stages, ClientInv, ServerFollowsClient, ClientLeftByFailedListenOnly
<1>1. ASSUME NEW h \in Hosts, Save(h) PROVE Rest'
  BY <1>0, <1>1 DEF Save, Stores
<1>2. ASSUME NEW h \in Hosts, HostChanges(h) PROVE Rest'
  BY <1>0, <1>2 DEF HostChanges
<1>3. ASSUME TurnOff PROVE Rest'
  BY <1>0, <1>3 DEF TurnOff, Stores
<1>4. ASSUME TurnOn PROVE Rest'
  BY <1>0, <1>4 DEF TurnOn
<1>5. ASSUME NEW o \in Opens, Resolve(o) PROVE Rest'
  BY <1>0, <1>5 DEF Resolve, Connects, Moves
<1>6. ASSUME NEW o \in Opens, Test(o) PROVE Rest'
  BY <1>0, <1>6 DEF Test, Connects, Moves
<1>7. ASSUME NEW o \in Opens, HostKey(o) PROVE Rest'
  BY <1>0, <1>7 DEF HostKey, Rejects, Trusts
<1>8. ASSUME NEW o \in Opens, Ready(o) PROVE Rest'
  BY <1>0, <1>8 DEF Ready, Moves
<1>9. ASSUME NEW o \in Opens, ConnectFails(o) PROVE Rest'
  BY <1>0, <1>9 DEF ConnectFails, Rejects
<1>10. ASSUME NEW o \in Opens, Listens(o) PROVE Rest'
  BY <1>0, <1>10 DEF Listens, Moves
<1>11. ASSUME NEW o \in Opens, ListenFails(o) PROVE Rest'
  BY <1>0, <1>11 DEF ListenFails, Moves
<1>12. ASSUME NEW o \in Opens, Pin(o) PROVE Rest'
  BY <1>0, <1>12 DEF Pin, Moves
<1>13. ASSUME NEW o \in Opens, TunneledPoolReady(o) PROVE Rest'
  BY <1>0, <1>13 DEF TunneledPoolReady, Moves
<1>14. ASSUME NEW o \in Opens, TunneledPoolFails(o) PROVE Rest'
  BY <1>0, <1>14 DEF TunneledPoolFails, Closes, Moves
<1>15. ASSUME NEW o \in Opens, Tested(o) PROVE Rest'
  BY <1>0, <1>15 DEF Tested, Closes, Moves
<1>16. ASSUME NEW o \in Opens, CloseTunnel(o) PROVE Rest'
  BY <1>0, <1>16 DEF CloseTunnel, Closes
<1>17. ASSUME NEW o \in Opens, ServerClosed(o) PROVE Rest'
  BY <1>0, <1>17 DEF ServerClosed
<1>18. CASE UNCHANGED sshVars
  BY <1>0, <1>18 DEF sshVars
<1>19. Rest'
  BY <1>1, <1>2, <1>3, <1>4, <1>5, <1>6, <1>7, <1>8, <1>9, <1>10, <1>11, <1>12, <1>13, <1>14,
     <1>15, <1>16, <1>17, <1>18 DEF SshNext, Open
<1>20. QED
  BY <1>0, <1>19

\* An open that has ended leaves no SSH client behind, unless its local server
\* could not listen.
THEOREM ClientsLeftByFailedListenOnly == SshSpec => []ClientLeftByFailedListenOnly
<1>1. SshInit => ClientInv
  <2>1. SshInit => SshTypeOK
    BY InitSshInv DEF SshInv
  <2>2. QED
    BY <2>1 DEF SshInit, ClientInv, ServerFollowsClient, ClientLeftByFailedListenOnly
<1>2. ClientInv => ClientLeftByFailedListenOnly
  BY DEF ClientInv
<1>3. QED
  BY <1>1, <1>2, SshClientStep, PTL DEF SshSpec
=============================================================================
