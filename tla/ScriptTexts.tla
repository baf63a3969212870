---------------------------- MODULE ScriptTexts ----------------------------
(* The scripts of QueryScript and the clients they run on. *)
EXTENDS Naturals, Sequences

CONSTANTS
  Scripts,   \* calls of execute
  Clients,   \* clients of the connection's pool
  Handle,    \* the only one of them on SQLite
  NoClient,
  Texts      \* the scripts users write: sequences of statement kinds

\* "ddl" commits what is open on MySQL.
Kind == {"read", "write", "ddl", "begin", "commit", "rollback"}

ASSUME ClientsAssumption == Handle \in Clients /\ NoClient \notin Clients
ASSUME TextsAssumption == Texts \subseteq Seq(Kind)
=============================================================================
