---------------------------- MODULE MCWorkspace ----------------------------
(***************************************************************************)
(* Small instances for TLC of what a user works with: a comparison of      *)
(* schemas (MCSchemaMigration), the editor of a table's rows (GridEditor), *)
(* the workspace's tabs (WorkspaceTabs), once with scripts that run and    *)
(* once with edits that are saved, the chat (ChatThreads) and the masked   *)
(* columns of a table (ColumnMasking).  A behaviour is one of these.       *)
(***************************************************************************)
EXTENDS MCSchemaMigration, ColumnMasking, WorkspaceTabs, GridEditor, ChatThreads

VARIABLE part  \* the model this behaviour is of

\* The models at rest start in one of their initial states.
WorkInit ==
  /\ part \in {"view", "editor", "scripts", "edits", "chat", "masks"}
  /\ EditorInit
  /\ part # "editor" => mode = "version"
  /\ TabsInit
  /\ ChatInit
  /\ MaskInit
  /\ part # "masks" => guard = "version" /\ prefs = {} /\ store = {} /\ reported = {}
  /\ Init
  /\ part # "view" => engine = "mysql" /\ readOnly = {} /\ db = CHOOSE p \in Pairs : TRUE

\* Once a change of the preferences went wrong, the session's first read of them is
\* over and nothing is revealed.
NoRevealAfterFailure ==
  failed' => hydration' = Idle /\ revealed' = FALSE

WorkNext ==
  \/ /\ part = "view" /\ Next
     /\ UNCHANGED <<part, editorVars, tabVars, chatVars, maskVars>>
  \/ /\ part = "editor" /\ EditorNext
     /\ UNCHANGED <<part, vars, tabVars, chatVars, maskVars>>
  \/ /\ part \in {"scripts", "edits"} /\ TabsNext
     /\ IF part = "scripts" THEN saved' = saved /\ ToSet(tabs') \cap OtherTabs = {}
        ELSE ranFrom' = ranFrom
     /\ UNCHANGED <<part, vars, editorVars, chatVars, maskVars>>
  \/ /\ part = "chat" /\ ChatNext
     /\ UNCHANGED <<part, vars, editorVars, tabVars, maskVars>>
  \/ /\ part = "masks" /\ MaskNext /\ NoRevealAfterFailure
     /\ UNCHANGED <<part, vars, editorVars, tabVars, chatVars>>

WorkSpec ==
  WorkInit /\ [][WorkNext]_<<part, vars, editorVars, tabVars, chatVars, maskVars>>
=============================================================================
