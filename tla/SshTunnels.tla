----------------------------- MODULE SshTunnels -----------------------------
(***************************************************************************)
(* The SSH tunnels of one connection: SshTunnelService.open stage by stage,*)
(* the opens of PoolManager (createPoolMaybeTunneled), which trust a jump  *)
(* host's key on first use and store ("pin") it, and those of a connection *)
(* test, which pin nothing.  Opens for a pool overlap when an eviction has *)
(* forgotten the promise of an earlier one, which PoolManager models; any  *)
(* number may overlap here.                                                *)
(*                                                                         *)
(* The jump hosts are external: each presents a key, which may change.     *)
(***************************************************************************)
EXTENDS Naturals

CONSTANTS Opens, Hosts, NoKey, NoOpen,
  MaxChanges  \* bounds how often a host's key changes

Keys == Hosts \X (0..MaxChanges)

\* No open and no key goes by the names of their absence.
ASSUME NamesAssumption == NoOpen \notin Opens /\ NoKey \notin Keys
ASSUME ChangesAssumption == MaxChanges \in Nat

VARIABLES
  key,        \* how often the key each host presents has changed
  hostRow,    \* the SSH settings stored with the connection
  sshStage,   \* how far an open has come
  cfg,        \* the host it connects to, the key it knows, and whether it is a test's
  saw,        \* the key it was presented
  client,     \* its SSH client
  server,     \* its local server
  overtaken,  \* opens whose settings have been replaced since they read them
  pinner,     \* the open that stored a pin last
  late,       \* it had been overtaken then
  informed    \* opens that have read the settings since the pin was stored

history == <<overtaken, pinner, late, informed>>
sshVars == <<key, hostRow, sshStage, cfg, saw, client, server, history>>

Stages == {"new", "connecting", "verified", "listening", "pinning", "pooling", "testing",
           "open", "failed", "tested"}

SshTypeOK ==
  /\ key \in [Hosts -> 0..MaxChanges]
  /\ hostRow \in [on : BOOLEAN, host : Hosts, pin : Keys \cup {NoKey}]
  /\ sshStage \in [Opens -> Stages]
  /\ cfg \in [Opens -> [host : Hosts, known : Keys \cup {NoKey}, test : BOOLEAN]]
  /\ saw \in [Opens -> Keys \cup {NoKey}]
  /\ client \in [Opens -> {"none", "open", "ended"}]
  /\ server \in [Opens -> {"none", "open", "closing", "closed"}]
  /\ overtaken \subseteq Opens /\ informed \subseteq Opens
  /\ pinner \in Opens \cup {NoOpen} /\ late \in BOOLEAN

\* create: SSH is on, and no key has been seen.
SshInit ==
  /\ key = [h \in Hosts |-> 0]
  /\ \E h \in Hosts :
       /\ hostRow = [on |-> TRUE, host |-> h, pin |-> NoKey]
       /\ cfg = [o \in Opens |-> [host |-> h, known |-> NoKey, test |-> FALSE]]
  /\ sshStage = [o \in Opens |-> "new"]
  /\ saw = [o \in Opens |-> NoKey]
  /\ client = [o \in Opens |-> "none"]
  /\ server = [o \in Opens |-> "none"]
  /\ overtaken = {} /\ pinner = NoOpen /\ late = FALSE /\ informed = {}

-----------------------------------------------------------------------------
(* ConnectionsService.update (applySshUpdate) and the world outside.        *)

Stores(settings) ==
  /\ hostRow' = settings
  /\ overtaken' = Opens
  /\ informed' = {}
  /\ UNCHANGED <<key, sshStage, cfg, saw, client, server, pinner, late>>

\* Mutant of Save: the stored key outlives the host it was presented by.
SaveKeepsPin(h) == Stores([hostRow EXCEPT !.on = TRUE, !.host = h])

\* The form sends the host with every save: the pin goes even if the host stays.
Save(h) == Stores([on |-> TRUE, host |-> h, pin |-> NoKey])

TurnOff ==
  (hostRow.on \/ hostRow.pin # NoKey) /\ Stores([hostRow EXCEPT !.on = FALSE, !.pin = NoKey])

\* An update that names no host, which the form never sends, keeps the pin.
TurnOn ==
  /\ ~hostRow.on
  /\ hostRow' = [hostRow EXCEPT !.on = TRUE]
  /\ UNCHANGED <<key, sshStage, cfg, saw, client, server, history>>

\* A host is installed anew, or somebody else answers at its address.
HostChanges(h) ==
  /\ key[h] < MaxChanges
  /\ key' = [key EXCEPT ![h] = @ + 1]
  /\ UNCHANGED <<hostRow, sshStage, cfg, saw, client, server, history>>

-----------------------------------------------------------------------------
(* SshTunnelService.open. *)

Moves(o, from, to) == sshStage[o] = from /\ sshStage' = [sshStage EXCEPT ![o] = to]

Connects(o, config) ==
  /\ Moves(o, "new", "connecting")
  /\ cfg' = [cfg EXCEPT ![o] = config]
  /\ client' = [client EXCEPT ![o] = "open"]
  /\ overtaken' = overtaken \ {o}
  /\ UNCHANGED <<key, hostRow, saw, server, pinner, late>>

\* resolveConfig and resolveSshConfig: the settings are read, and the known key
\* with them.
Resolve(o) ==
  /\ hostRow.on
  /\ Connects(o, [host |-> hostRow.host, known |-> hostRow.pin, test |-> FALSE])
  /\ informed' = informed \cup {o}

\* buildTestSshConfig: the host is that of the form, and no key is known.
Test(o) ==
  /\ \E h \in Hosts : Connects(o, [host |-> h, known |-> NoKey, test |-> TRUE])
  /\ UNCHANGED informed

\* fail, before the client is ready: it is ended.
Rejects(o) ==
  /\ sshStage' = [sshStage EXCEPT ![o] = "failed"]
  /\ client' = [client EXCEPT ![o] = "ended"]

Trusts(o, k) == cfg[o].known \in {NoKey, k}

\* hostVerifier: a key that is not the known one ends the client.
HostKey(o) ==
  LET k == <<cfg[o].host, key[cfg[o].host]>>
  IN  /\ sshStage[o] = "connecting"
      /\ saw' = [saw EXCEPT ![o] = k]
      /\ IF Trusts(o, k)
         THEN sshStage' = [sshStage EXCEPT ![o] = "verified"] /\ UNCHANGED client
         ELSE Rejects(o)
      /\ UNCHANGED <<key, hostRow, cfg, server, history>>

\* Authenticated, or refused; unreachable; too late (CONNECT_TIMEOUT_MS).
Ready(o) ==
  Moves(o, "verified", "listening") /\ UNCHANGED <<key, hostRow, cfg, saw, client, server, history>>

ConnectFails(o) ==
  /\ sshStage[o] \in {"connecting", "verified"}
  /\ Rejects(o)
  /\ UNCHANGED <<key, hostRow, cfg, saw, server, history>>

\* The local server listens, and open returns the handle: fingerprintIsNew
\* unless a key was known.
Listens(o) ==
  /\ Moves(o, "listening",
       IF cfg[o].test THEN "testing" ELSE IF cfg[o].known = NoKey THEN "pinning" ELSE "pooling")
  /\ server' = [server EXCEPT ![o] = "open"]
  /\ UNCHANGED <<key, hostRow, cfg, saw, client, history>>

\* It does not: open rejects, and nobody ends the client.
ListenFails(o) ==
  Moves(o, "listening", "failed") /\ UNCHANGED <<key, hostRow, cfg, saw, client, server, history>>

-----------------------------------------------------------------------------
(* createPoolMaybeTunneled and testConnection, on the handle. *)

\* The key is stored whatever the row holds by now; a connection that is gone,
\* or an app database that fails, is ignored.
Pin(o) ==
  /\ Moves(o, "pinning", "pooling")
  /\ \/ /\ hostRow' = [hostRow EXCEPT !.pin = saw[o]]
        /\ pinner' = o
        /\ late' = (o \in overtaken)
        /\ informed' = IF hostRow.pin = saw[o] THEN informed ELSE {}
     \/ UNCHANGED <<hostRow, pinner, late, informed>>
  /\ UNCHANGED <<key, cfg, saw, client, server, overtaken>>

\* close: idempotent, and the client is ended when the local server has closed.
Closes(o) ==
  server' = [server EXCEPT ![o] = IF @ = "open" THEN "closing" ELSE @]

TunneledPoolReady(o) ==
  Moves(o, "pooling", "open") /\ UNCHANGED <<key, hostRow, cfg, saw, client, server, history>>

\* Mutant of TunneledPoolFails: the tunnel stays.
TunneledPoolFailsOnly(o) ==
  Moves(o, "pooling", "failed") /\ UNCHANGED <<key, hostRow, cfg, saw, client, server, history>>

TunneledPoolFails(o) ==
  /\ Moves(o, "pooling", "failed")
  /\ Closes(o)
  /\ UNCHANGED <<key, hostRow, cfg, saw, client, history>>

\* The driver has tested the database through the tunnel, or failed to.
Tested(o) ==
  /\ Moves(o, "testing", "tested")
  /\ Closes(o)
  /\ UNCHANGED <<key, hostRow, cfg, saw, client, history>>

\* closeTunnel, by the eviction of its pool or of a predecessor's.
CloseTunnel(o) ==
  /\ sshStage[o] \in {"pinning", "pooling", "open"}
  /\ server[o] = "open"
  /\ Closes(o)
  /\ UNCHANGED <<key, hostRow, sshStage, cfg, saw, client, history>>

ServerClosed(o) ==
  /\ server[o] = "closing"
  /\ server' = [server EXCEPT ![o] = "closed"]
  /\ client' = [client EXCEPT ![o] = "ended"]
  /\ UNCHANGED <<key, hostRow, sshStage, cfg, saw, history>>

-----------------------------------------------------------------------------

Open(o) ==
  \/ Resolve(o) \/ Test(o) \/ HostKey(o) \/ Ready(o) \/ ConnectFails(o)
  \/ Listens(o) \/ ListenFails(o)
  \/ Pin(o) \/ TunneledPoolReady(o) \/ TunneledPoolFails(o) \/ Tested(o)
  \/ CloseTunnel(o) \/ ServerClosed(o)

SshNext ==
  \/ \E h \in Hosts : Save(h) \/ HostChanges(h)
  \/ TurnOff \/ TurnOn
  \/ \E o \in Opens : Open(o)

SshSpec == SshInit /\ [][SshNext]_sshVars

-----------------------------------------------------------------------------
(* Properties. *)

Accepted(o) == sshStage[o] \notin {"new", "connecting", "failed"}

\* The stored key is one that the stored host has presented, unless the open
\* that stored it had been overtaken by a save: then the first connect to the
\* new host may be refused for the key of the old one.
PinIsTheHosts ==
  hostRow.pin # NoKey =>
    /\ pinner # NoOpen
    /\ hostRow.pin = saw[pinner]
    /\ cfg[pinner].host = hostRow.host \/ late

\* Every open that has read the settings since the key was stored, and has got
\* past the host, was presented that key.
PinIsVerified ==
  hostRow.pin # NoKey => \A o \in informed : Accepted(o) => saw[o] = hostRow.pin

\* Trust on first use, as far as it goes: overlapping opens and saves weaken it
\* in the ways the two parts say, and in no other.
TrustOnFirstUse == PinIsTheHosts /\ PinIsVerified

\* Of an open that has ended no SSH client is left, except by one whose local
\* server could not listen; nothing ever ends that client.
ClientLeftByFailedListenOnly ==
  \A o \in Opens :
    client[o] = "open" =>
      \/ sshStage[o] \in {"connecting", "verified", "listening"}
      \/ server[o] = "closing"
      \/ server[o] = "open" /\ sshStage[o] \in {"pinning", "pooling", "testing", "open"}
      \/ server[o] = "none" /\ sshStage[o] = "failed"

-----------------------------------------------------------------------------
(* The inductive strengthening behind the properties above. *)

Pinned == hostRow.pin # NoKey

\* Until its settings are replaced, an open for a pool connects to the stored host.
ConnectsToStored ==
  \A o \in Opens : sshStage[o] # "new" /\ ~cfg[o].test /\ o \notin overtaken => cfg[o].host = hostRow.host

\* What is known of the key of an open that has got past the host.
AcceptedSaw ==
  \A o \in Opens : Accepted(o) =>
    saw[o] # NoKey /\ (cfg[o].known # NoKey => saw[o] = cfg[o].known)

\* Only opens that knew no key store one.
PinsUnknown ==
  \A o \in Opens : sshStage[o] = "pinning" => ~cfg[o].test /\ cfg[o].known = NoKey

\* Who stored the pin saw it, and sees no other.
PinnerHasSeen ==
  Pinned =>
    /\ pinner \in Opens
    /\ sshStage[pinner] \in {"pooling", "open", "failed"}
    /\ hostRow.pin = saw[pinner]

\* Who is informed of the pin verifies it.
InformedKnow ==
  \A o \in informed : sshStage[o] # "new" /\ (Pinned => cfg[o].known = hostRow.pin)

SshInv ==
  /\ SshTypeOK
  /\ ConnectsToStored
  /\ AcceptedSaw
  /\ PinsUnknown
  /\ PinnerHasSeen
  /\ InformedKnow
  /\ PinIsTheHosts

\* A local server listens only behind a ready client, and closes with it.
ServerFollowsClient ==
  \A o \in Opens :
    /\ sshStage[o] \in {"new", "connecting", "verified", "listening"} => server[o] = "none"
    /\ sshStage[o] \in {"pinning", "pooling", "testing", "open"} => server[o] # "none"
    /\ server[o] = "closed" => client[o] = "ended"
    /\ sshStage[o] \in {"failed", "tested"} => server[o] # "open"
    /\ sshStage[o] = "tested" => server[o] # "none"
    /\ sshStage[o] = "new" => client[o] = "none"

ClientInv == SshTypeOK /\ ServerFollowsClient /\ ClientLeftByFailedListenOnly
=============================================================================
