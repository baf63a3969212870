---------------------------- MODULE MCSessions -----------------------------
(***************************************************************************)
(* Small instances for TLC of the cursor sessions (CursorSession) and of   *)
(* the sweep that closes pools but spares those with cursors (PoolManager) *)
(* over the same connections and calls.  A behaviour is one of the two.    *)
(***************************************************************************)
EXTENDS CursorSession, PoolManager, TLC

VARIABLE part

\* A call names the same connection in both models.  In the sessions' at most two
\* connections are named, or one where a stream outlasts its budget, and all streams
\* but one have nothing after their first block; in the pools' each call has a
\* connection of its own.
Calls ==
  /\ on = conn
  /\ part = "sessions" =>
       Cardinality({conn[c] : c \in Cursors}) <= IF \E c \in Cursors : left[c] > MaxRows THEN 1 ELSE 2
  /\ part = "sessions" => \E c \in Cursors : \A d \in Cursors \ {c} : left[d] = PageSize
  /\ part = "pools" => Cardinality({conn[c] : c \in Cursors}) = Cardinality(Cursors)
  /\ part = "pools" => left = [c \in Cursors |-> CHOOSE n \in Totals : TRUE]

PartsInit == part \in {"sessions", "pools"} /\ Init /\ PoolInit /\ Calls

\* driverFor is left out: a sweep does not look at the engine it caches.
NoDriverFor == stage' = stage => engine' \subseteq engine

PartsNext ==
  \/ part = "sessions" /\ Next /\ UNCHANGED <<part, poolVars>>
  \/ part = "pools" /\ PoolNext /\ NoDriverFor /\ UNCHANGED <<part, vars>>

PartsSpec == PartsInit /\ [][PartsNext]_<<part, vars, poolVars>>

\* Calls are interchangeable, and so are connections and fetches.
Symmetry == Permutations(Cursors) \cup Permutations(Conns) \cup Permutations(Fetches)
=============================================================================
