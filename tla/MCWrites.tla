------------------------------ MODULE MCWrites ------------------------------
(***************************************************************************)
(* Small instances for TLC of the two ways a user writes to a database:    *)
(* scripts (QueryScript) and the grid's requests (GridWrites).  A          *)
(* behaviour is one of the two.                                            *)
(***************************************************************************)
EXTENDS QueryScript, GridWrites

VARIABLE part

\* Two writes, DDL between writes, a write among reads, and a script with a
\* transaction of its own.
MCTexts ==
  <<<<"write", "write">>, <<"read", "write">>, <<"write", "ddl">>,
    <<"begin", "write", "commit">>, <<"begin", "write", "rollback">>>>
SomeTexts == {MCTexts[i] : i \in DOMAIN MCTexts}
Number(t) == CHOOSE i \in DOMAIN MCTexts : MCTexts[i] = t

\* Scripts 1 and 2 are interchangeable, at most one of them brings a transaction of its
\* own, and rows hold defaults at first.  The model at rest starts in one of its
\* initial states.
WritesInit ==
  /\ part \in {"script", "grid"}
  /\ Init
  /\ Number(text[1]) <= Number(text[2]) /\ Number(text[1]) <= 3
  /\ part # "script" =>
       /\ engine = "pg" /\ atOnce = {} /\ ~readOnly
       /\ text = [s \in Scripts |-> MCTexts[1]]
  /\ GridInit
  /\ \A k \in Rows :
       /\ \A c \in GridColumns : table[k].cells[c] = Default
       /\ part # "grid" => ~table[k].live

WritesNext ==
  \/ part = "script" /\ Next /\ UNCHANGED <<part, gridVars>>
  \/ part = "grid" /\ GridNext /\ UNCHANGED <<part, vars>>

\* The fairness of QueryScript, in the behaviours that run scripts: beside the
\* grid, no script runs.
ScriptFairness == \A s \in Scripts : WF_<<part, vars>>(part = "script" /\ Execute(s) /\ part' = part)

WritesSpec ==
  WritesInit /\ [][WritesNext]_<<part, vars, gridVars>> /\ ScriptFairness /\ GridFairness

\* Every script ends (QueryScript), and every grid request is answered (GridWrites).
EveryWriteEnds == (part = "script" => EveryScriptEnds) /\ Answered

\* One edit of each column.
MCAsked == {[c \in {col} |-> "new"] : col \in GridColumns}
=============================================================================
