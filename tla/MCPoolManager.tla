--------------------------- MODULE MCPoolManager ---------------------------
(* PoolManager on small sets of connections and requests. *)
EXTENDS PoolManager, TLC

\* Requests are interchangeable, and so are connections that are alike.
Symmetry == Permutations(Requests) \cup Permutations(Connections)

\* The first save turns tunneling off.
TunneledAtFirst == Connections \X {1}
=============================================================================
