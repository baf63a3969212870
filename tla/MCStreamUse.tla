---------------------------- MODULE MCStreamUse ----------------------------
(***************************************************************************)
(* Small instances for TLC of the models of rows that travel: the calls    *)
(* that share a pool's clients with a stream (TargetClients), the session  *)
(* of a client that stops calling (CursorSession), the grid's end of it    *)
(* (CursorDatasource), a file on its way into a table (CsvImport) and      *)
(* tables on their way into a file (ExportStream).  A behaviour is one of  *)
(* the five.                                                               *)
(***************************************************************************)
EXTENDS TargetClients, CursorDatasource, CsvImport, ExportStream

CONSTANTS Cursors, Conns, Fetches, MaxSessions, MaxRows, PageSize, Limits,
          Totals, MaxOpening

VARIABLES
  part,
  opening, conn, live, idle, pos, left, cur, counted, fetch, running

Cursor == INSTANCE CursorSession

sessionVars == <<opening, conn, live, idle, pos, left, cur, counted, fetch, running>>
allVars == <<part, vars, sessionVars, datasourceVars, importVars, exportVars>>

\* The models at rest start in one of their initial states.
AtRest ==
  /\ part # "clients" => engine = "postgresql"
  /\ part # "sessions" => left = [c \in Cursors |-> CHOOSE n \in Totals : TRUE]
  /\ part # "browser" => length = CHOOSE n \in Lengths : TRUE
  /\ part # "import" => hasHeader /\ file = CHOOSE f \in Files : TRUE
  /\ part # "export" =>
       /\ format = "csv"
       /\ tableLength = [t \in Tables |-> CHOOSE n \in TableLengths : TRUE]

UseInit ==
  /\ part \in {"clients", "sessions", "browser", "import", "export"}
  /\ Init /\ Cursor!Init /\ DatasourceInit /\ ImportInit /\ ExportInit
  /\ AtRest

UseNext ==
  \/ /\ part = "clients" /\ Next
     /\ UNCHANGED <<part, sessionVars, datasourceVars, importVars, exportVars>>
  \/ /\ part = "sessions" /\ Cursor!Next
     /\ UNCHANGED <<part, vars, datasourceVars, importVars, exportVars>>
  \/ /\ part = "browser" /\ DatasourceNext
     /\ UNCHANGED <<part, vars, sessionVars, importVars, exportVars>>
  \/ /\ part = "import" /\ ImportNext
     /\ UNCHANGED <<part, vars, sessionVars, datasourceVars, exportVars>>
  \/ /\ part = "export" /\ ExportNext
     /\ UNCHANGED <<part, vars, sessionVars, datasourceVars, importVars>>

UseSpec ==
  /\ UseInit /\ [][UseNext]_allVars
  /\ Fairness /\ Cursor!Fairness /\ DatasourceFairness /\ ImportFairness

\* An abandoned stream does not hold a client forever (CursorSession).
AbandonedStreamReleased == Cursor!AbandonedStreamReleased

MCFiles == {<<5>>, <<2, 5>>, <<3, 4, 6>>, <<1>>}
=============================================================================
