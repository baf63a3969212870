------------------------------ MODULE MCPools ------------------------------
(***************************************************************************)
(* Small instances for TLC of a connection's pools (PoolManager) and of    *)
(* the SSH tunnels they are reached through (SshTunnels).  A behaviour is  *)
(* one of the two.                                                         *)
(***************************************************************************)
EXTENDS MCPoolManager, SshTunnels

VARIABLE part

\* Hosts are interchangeable.
PoolsInit ==
  /\ part \in {"pools", "ssh"}
  /\ PoolInit /\ SshInit
  /\ hostRow.host = CHOOSE h \in Hosts : TRUE

PoolsNext ==
  \/ part = "pools" /\ PoolNext /\ UNCHANGED <<part, sshVars>>
  \/ part = "ssh" /\ SshNext /\ UNCHANGED <<part, poolVars>>

PoolsSpec == PoolsInit /\ [][PoolsNext]_<<part, poolVars, sshVars>> /\ PoolFairness
=============================================================================
