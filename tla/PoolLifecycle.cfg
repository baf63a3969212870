\* Two requests of a tunneled connection that is saved and deleted, in every order.
\* Two opens of tunnels over two hosts whose keys change once.
CONSTANTS
  c1 = c1
  r1 = r1
  r2 = r2
  NoPool = NoPool
  Connections = {c1}
  Requests = {r1, r2}
  Tunneled <- TunneledAtFirst
  Removable = {c1}
  MaxVersion = 2
  PoolMax = 1
  NoOpen = NoOpen
  Opens = {r1, r2}
  h1 = h1
  h2 = h2
  Hosts = {h1, h2}
  NoKey = NoKey
  MaxChanges = 1
SPECIFICATION PoolsSpec
\* Every request ends and the process stops.
CHECK_DEADLOCK FALSE
INVARIANTS
  TunnelMapSound
  PoolLostToFailureOnly
  TunnelLostToOverlapOnly
  TunnelTornByPredecessorOnly
  TrustOnFirstUse
  ClientLeftByFailedListenOnly
PROPERTY RemovedConnectionReleased
