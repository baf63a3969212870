--------------------------- MODULE WorkspaceTabs ---------------------------
(***************************************************************************)
(* The tabs of the workspace (workspaceStore) and what is mounted under    *)
(* them (Workspace): the SQL editor for the query tabs, one instance for   *)
(* as long as query tabs follow on one another, and likewise one TableView *)
(* for the table tabs; each with the requests it has under way.  A mutate  *)
(* call's callbacks fire only while the component that made it is mounted. *)
(*                                                                         *)
(* Left out: what tabs are called, their text, view modes and hand-offs.   *)
(***************************************************************************)
EXTENDS Naturals, Sequences, SequencesExt

CONSTANTS
  QueryTabs,   \* ids of query tabs; crypto.randomUUID gives a fresh one
  TableTabs,   \* ids of table tabs, one for each table
  OtherTabs,   \* ids of overviews, diagrams, monitors, comparisons...
  FirstQuery,  \* the tab there is when the application starts
  MaxTabs,     \* bound: tabs open at a time
  MaxRuns,     \* bound: scripts started
  MaxTabSaves  \* bound: saves of staged edits

\* Ids are UUIDs and table names; "none" stands for their absence.  initialTabs is one
\* query tab.
ASSUME TabsAssumption ==
  /\ MaxRuns \in Nat
  /\ FirstQuery \in QueryTabs
  /\ "none" \notin QueryTabs \cup TableTabs
  /\ QueryTabs \cap TableTabs = {} /\ OtherTabs \cap QueryTabs = {}

VARIABLES
  tabs, active,  \* the open tabs in their order, the active one
  used,          \* the query tab ids given so far
  result,        \* of each query tab: the run its stored result is of, or 0
  response,      \* the mounted editor's: the run whose result it displays, or 0
  ranFrom,       \* the tab each run was started from
  runs,          \* the runs under way: the run and whether its callbacks will fire
  tabEdits,      \* TableView's staged edits: the tables they were made on
  tabSaves,      \* the saves under way: edits of which tables, into which
  saved,         \* how many were sent
  question       \* the table tab whose "Discard unsaved edits?" is open, the query tab
                 \* whose "Run this statement?" is, or None

tabVars ==
  <<tabs, active, used, result, response, ranFrom, runs, tabEdits, tabSaves, saved, question>>
requests == <<ranFrom, saved>>

Ids == QueryTabs \cup TableTabs \cup OtherTabs
NoTab == "none"
Open(id) == id \in ToSet(tabs)

\* Where the tabs in kept stand among ts.
Places(ts, kept) == {i \in DOMAIN ts : ts[i] \in kept}

\* Array.filter: the tabs of ts that are in kept, in their order.  The n-th one is where
\* there are n of them up to it.
Filter(ts, kept) ==
  LET Nth(n) == CHOOSE i \in Places(ts, kept) :
                  Cardinality({j \in Places(ts, kept) : j <= i}) = n
  IN [n \in 1..Cardinality(Places(ts, kept)) |-> ts[Nth(n)]]

QueryCount(ts) == Cardinality(Places(ts, QueryTabs))

\* What Workspace mounts for tab id of ts.
Kind(ts, id) ==
  IF id \notin ToSet(ts) THEN "nothing"
  ELSE CASE id \in QueryTabs -> "editor"
         [] id \in TableTabs -> "table"
         [] OTHER -> "other"
Mounted == Kind(tabs, active)

\* The callbacks of a component that goes away are never called.
Unheard(set) == {[request EXCEPT !.heard = FALSE] : request \in set}

\* Mutant of GoTo: an editor that stays mounted keeps the result it shows.
GoToKeepsResult(ts, id) ==
  LET kind == Kind(ts, id)
  IN /\ tabs' = ts /\ active' = id
     /\ response' = IF kind # "editor" THEN 0
                    ELSE IF Mounted = "editor" THEN response ELSE result[id]
     /\ runs' = IF kind = "editor" THEN runs ELSE Unheard(runs)
     /\ tabEdits' = IF kind = "table" THEN tabEdits ELSE {}
     /\ tabSaves' = IF kind = "table" THEN tabSaves ELSE Unheard(tabSaves)

\* Mutant of GoTo: staged edits outlive the table's view.
GoToKeepsEdits(ts, id) ==
  LET kind == Kind(ts, id)
  IN /\ tabs' = ts /\ active' = id
     /\ response' = IF kind # "editor" THEN 0
                    ELSE IF Mounted = "editor" /\ id = active THEN response
                    ELSE result[id]
     /\ runs' = IF kind = "editor" THEN runs ELSE Unheard(runs)
     /\ tabEdits' = tabEdits
     /\ tabSaves' = IF kind = "table" THEN tabSaves ELSE Unheard(tabSaves)

\* The store changes to ts with tab id active.  An editor that stays mounted swaps its
\* result for the tab's stored one when the active tab changes; one that is mounted
\* anew starts with it.  TableView holds no such effect: it keeps its edits from one
\* table to the next, and loses them when it is unmounted.
GoTo(ts, id) ==
  LET kind == Kind(ts, id)
  IN /\ tabs' = ts /\ active' = id
     /\ response' = IF kind # "editor" THEN 0
                    ELSE IF Mounted = "editor" /\ id = active THEN response
                    ELSE result[id]
     /\ runs' = IF kind = "editor" THEN runs ELSE Unheard(runs)
     /\ tabEdits' = IF kind = "table" THEN tabEdits ELSE {}
     /\ tabSaves' = IF kind = "table" THEN tabSaves ELSE Unheard(tabSaves)

\* The editor's question goes with the editor, the workspace's own one stays.
DialogStays ==
  question' = IF question \in QueryTabs /\ Kind(tabs', active') # "editor" THEN NoTab ELSE question

TabsInit ==
  /\ tabs = <<FirstQuery>> /\ active = FirstQuery /\ used = {FirstQuery}
  /\ result = [q \in QueryTabs |-> 0] /\ response = 0
  /\ ranFrom = [r \in 1..MaxRuns |-> NoTab] /\ runs = {}
  /\ tabEdits = {} /\ tabSaves = {} /\ saved = 0
  /\ question = NoTab

-----------------------------------------------------------------------------
(* Opening and selecting.                                                  *)

\* openTable, openOverview, openErDiagram, openSessions, openPerformance,
\* openSchemaDiff, openAudit, openObject and revealTableColumn.
OpenTab(id) ==
  /\ question = NoTab /\ (Open(id) \/ Len(tabs) < MaxTabs)
  /\ GoTo(IF Open(id) THEN tabs ELSE Append(tabs, id), id)
  /\ DialogStays /\ UNCHANGED <<used, result, requests>>

NewQueryTab(id) ==
  /\ id \in QueryTabs \ used /\ Len(tabs) < MaxTabs
  /\ GoTo(Append(tabs, id), id)
  /\ used' = used \cup {id}
  /\ DialogStays /\ UNCHANGED <<result, requests>>

\* selectTab, from the tab bar and, also while a dialog is open, from the next-tab and
\* prev-tab shortcuts.
SelectTab(id) ==
  /\ Open(id) /\ id # active
  /\ GoTo(tabs, id)
  /\ DialogStays /\ UNCHANGED <<used, result, requests>>

\* loadQuery: the active tab if it is a query tab, or the first one.
LoadQuery ==
  LET queries == Filter(tabs, QueryTabs)
  IN /\ question = NoTab /\ Mounted # "editor" /\ queries # <<>>
     /\ GoTo(tabs, Head(queries))
     /\ DialogStays /\ UNCHANGED <<used, result, requests>>

Reorder(from, to) ==
  /\ question = NoTab /\ from # to
  /\ GoTo(InsertAt(RemoveAt(tabs, from), to, tabs[from]), active)
  /\ DialogStays /\ UNCHANGED <<used, result, requests>>

-----------------------------------------------------------------------------
(* Closing.                                                                *)

Without(id) == Filter(tabs, Ids \ {id})

\* closeTab and closeTableTab: the last of the tabs left takes over.
Close(id) ==
  LET ts == Without(id)
  IN GoTo(ts, IF id = active /\ ts # <<>> THEN Last(ts) ELSE active)

\* Mutant of ApplyClose: no query tab is kept for its own sake.
ApplyCloseAll(kept) ==
  LET ts == Filter(tabs, kept)
  IN GoTo(ts, IF active \in ToSet(ts) \/ ts = <<>> THEN active ELSE Last(ts))

\* applyClose: keep the tabs in kept, and a query tab in any case.
ApplyClose(kept) ==
  LET some == Filter(tabs, kept)
      queries == Filter(tabs, QueryTabs)
      first == IF queries = <<>> THEN {} ELSE {Head(queries)}
      ts == IF QueryCount(some) > 0 THEN some
            ELSE Filter(tabs, kept \cup first)
  IN GoTo(ts, IF active \in ToSet(ts) \/ ts = <<>> THEN active ELSE Last(ts))

\* The tab bar's and its menu's close: not offered for the only query tab; a dirty
\* active tab asks first.  activeTabDirty mirrors the mounted TableView's buffer.
CloseFromBar(id) ==
  /\ question = NoTab /\ Open(id)
  /\ id \in QueryTabs => QueryCount(tabs) > 1
  /\ \/ /\ id = active /\ tabEdits # {}
        /\ question' = id
        /\ UNCHANGED <<tabs, active, response, runs, tabEdits, tabSaves>>
     \/ /\ ~(id = active /\ tabEdits # {})
        /\ Close(id)
        /\ UNCHANGED question
  /\ UNCHANGED <<used, result, ranFrom, saved>>

AnswerDialog(discard) ==
  /\ question \in TableTabs
  /\ question' = NoTab
  /\ IF discard THEN Close(question) ELSE GoTo(tabs, active)
  /\ UNCHANGED <<used, result, ranFrom, saved>>

\* The close-tab shortcut and command close whatever is active.
CloseByShortcut ==
  /\ Open(active)
  /\ Close(active)
  /\ DialogStays /\ UNCHANGED <<used, result, requests>>

\* closeOtherTabs, closeTabsToLeft, closeTabsToRight, closeAllTableTabs.
CloseMany(i) ==
  /\ question = NoTab
  /\ \/ ApplyClose({tabs[i]})
     \/ ApplyClose(ToSet(SubSeq(tabs, i, Len(tabs))))
     \/ ApplyClose(ToSet(SubSeq(tabs, 1, i)))
     \/ (ToSet(tabs) \cap TableTabs # {}) /\ ApplyClose(QueryTabs)
  /\ DialogStays /\ UNCHANGED <<used, result, requests>>

\* A table is dropped from the mounted overview, which then closes its tab.
CloseDropped(id) ==
  /\ question = NoTab /\ Mounted = "other" /\ id \in TableTabs /\ Open(id)
  /\ Close(id)
  /\ DialogStays /\ UNCHANGED <<used, result, requests>>

-----------------------------------------------------------------------------
(* The SQL editor's run and the grid's save.                               *)

StartRun(tab) ==
  \E r \in 1..MaxRuns :
    /\ ranFrom[r] = NoTab /\ \A q \in 1..(r - 1) : ranFrom[q] # NoTab
    /\ ranFrom' = [ranFrom EXCEPT ![r] = tab]
    /\ runs' = runs \cup {[run |-> r, heard |-> TRUE]}

\* The editor has one mutation observer: Run waits for the answer it is waiting for.  A
\* script that looks like a write may be asked about first.
RunSql ==
  /\ question = NoTab /\ Mounted = "editor"
  /\ \A run \in runs : ~run.heard
  /\ \/ StartRun(active) /\ UNCHANGED question
     \/ question' = active /\ UNCHANGED <<ranFrom, runs>>
  /\ UNCHANGED <<tabs, active, used, result, response, tabEdits, tabSaves, saved>>

\* The script that was asked about runs for the tab it was asked on, whichever tab the
\* editor is on by now.
AnswerRun(ok) ==
  /\ question \in QueryTabs
  /\ question' = NoTab
  /\ IF ok THEN StartRun(question) ELSE UNCHANGED <<ranFrom, runs>>
  /\ UNCHANGED <<tabs, active, used, result, response, tabEdits, tabSaves, saved>>

\* Mutant of RunAnswered: the answer is stored with the tab that is active now.
RunAnsweredToActive(run) ==
  /\ runs' = runs \ {run}
  /\ IF run.heard
     THEN /\ response' = run.run
          /\ result' = [result EXCEPT ![active] = run.run]
     ELSE UNCHANGED <<response, result>>
  /\ UNCHANGED <<tabs, active, used, ranFrom, tabEdits, tabSaves, saved, question>>

\* The answer is shown by the editor, whatever tab it is on by now, and stored with
\* the tab that was active when Run was pressed.
RunAnswered(run) ==
  /\ runs' = runs \ {run}
  /\ IF run.heard
     THEN /\ response' = run.run
          /\ result' = [result EXCEPT ![ranFrom[run.run]] = run.run]
     ELSE UNCHANGED <<response, result>>
  /\ UNCHANGED <<tabs, active, used, ranFrom, tabEdits, tabSaves, saved, question>>

RunFailed(run) ==
  /\ runs' = runs \ {run}
  /\ UNCHANGED <<tabs, active, used, result, response, ranFrom, tabEdits, tabSaves, saved, question>>

StageEdit ==
  /\ question = NoTab /\ Mounted = "table"
  /\ tabEdits' = tabEdits \cup {active}
  /\ UNCHANGED <<tabs, active, used, result, response, ranFrom, runs, tabSaves, saved, question>>

\* handleSave: the whole buffer, to the table the view shows now.
SaveEdits ==
  /\ question = NoTab /\ Mounted = "table" /\ tabEdits # {}
  /\ saved < MaxTabSaves /\ \A save \in tabSaves : ~save.heard
  /\ tabSaves' = tabSaves \cup
       {[edits |-> tabEdits, into |-> active, heard |-> TRUE, nr |-> saved + 1]}
  /\ saved' = saved + 1
  /\ UNCHANGED <<tabs, active, used, result, response, ranFrom, runs, tabEdits, question>>

SaveAnswered(save, accepted) ==
  /\ tabSaves' = tabSaves \ {save}
  /\ tabEdits' = IF accepted /\ save.heard THEN {} ELSE tabEdits
  /\ UNCHANGED <<tabs, active, used, result, response, ranFrom, runs, saved, question>>

TabsNext ==
  \/ \E id \in TableTabs \cup OtherTabs : OpenTab(id)
  \/ \E id \in QueryTabs : NewQueryTab(id)
  \/ \E id \in Ids : SelectTab(id) \/ CloseFromBar(id) \/ CloseDropped(id)
  \/ \E i, j \in DOMAIN tabs : Reorder(i, j)
  \/ \E i \in DOMAIN tabs : CloseMany(i)
  \/ LoadQuery \/ CloseByShortcut
  \/ \E yes \in BOOLEAN : AnswerDialog(yes) \/ AnswerRun(yes)
  \/ RunSql \/ StageEdit \/ SaveEdits
  \/ \E run \in runs : RunAnswered(run) \/ RunFailed(run)
  \/ \E save \in tabSaves, accepted \in BOOLEAN : SaveAnswered(save, accepted)

TabsSpec == TabsInit /\ [][TabsNext]_tabVars

-----------------------------------------------------------------------------
\* No tab is open twice, the active tab is one of the open ones, and no query tab is
\* open that was not given out.
TabsFit ==
  /\ tabs \in Seq(Ids) /\ IsInjective(tabs)
  /\ tabs # <<>> => Open(active)
  /\ used \subseteq QueryTabs /\ ToSet(tabs) \cap QueryTabs \subseteq used

\* The editor's question is open only while the editor is mounted.
QuestionFits ==
  /\ question \in TableTabs \cup QueryTabs \cup {NoTab}
  /\ question \in QueryTabs => Mounted = "editor"

TabsTypeOK ==
  /\ TabsFit /\ QuestionFits
  /\ result \in [QueryTabs -> 0..MaxRuns] /\ response \in 0..MaxRuns
  /\ tabEdits \subseteq TableTabs

\* A query tab stores only what was run from it, however tabs were switched, closed
\* and opened while the script ran.
StoredResultIsTheTabs == \A q \in QueryTabs : result[q] # 0 => ranFrom[result[q]] = q

\* Another tab's result gets into view only by an answer that arrives after a switch
\* from one query tab to another, and the next switch puts it right.
ForeignResultIsALateAnswer ==
  [][response' # 0 /\ ranFrom[response'] # active' /\ <<response', active'>> # <<response, active>>
       => \E run \in runs : run \notin runs' /\ run.run = response' /\ active' = active]_tabVars

\* Staged edits come to stand under another table's name in one way only: a switch
\* from one table tab straight to another.
EditsMoveOnDirectSwitchOnly ==
  [][tabEdits \subseteq {active} /\ ~(tabEdits' \subseteq {active'})
       => /\ tabEdits' = tabEdits
          /\ {active, active'} \subseteq TableTabs /\ active \in ToSet(tabs)]_tabVars

\* The tabs run out of query tabs only by the close-tab shortcut: every other way of
\* closing keeps one.
LastQueryTabOnlyByShortcut ==
  [][QueryCount(tabs) > 0 /\ QueryCount(tabs') = 0 =>
       active \in QueryTabs /\ tabs' = Without(active)]_tabVars

-----------------------------------------------------------------------------
(* The inductive strengthening behind the first three. *)

\* A run is known by its number, which keeps the tab it was started from.
RunsFit ==
  /\ ranFrom \in [1..MaxRuns -> QueryTabs \cup {NoTab}]
  /\ runs \subseteq [run : 1..MaxRuns, heard : BOOLEAN]
  /\ \A run \in runs : ranFrom[run.run] # NoTab

\* There are staged edits only while a table's view is mounted.
EditsHaveAView == tabEdits \subseteq TableTabs /\ (tabEdits # {} => Mounted = "table")

TabsInv ==
  /\ result \in [QueryTabs -> 0..MaxRuns] /\ response \in 0..MaxRuns
  /\ RunsFit
  /\ EditsHaveAView
  /\ StoredResultIsTheTabs

-----------------------------------------------------------------------------
\* What comments and plans of the repository say and the code does not keep.

\* TableView.tsx on activeTabDirty: "Only the active tab's TableView is mounted, so
\* this is always this tab's own state".  Edits are saved into the table they were
\* staged on.
EditsAreTheActiveTables == \A save \in tabSaves : save.edits \subseteq {save.into}

\* SqlEditorView.tsx: "Switching tabs swaps the editor buffer + results to that tab's
\* stored state"; phase-15: "run each -> each shows its own results".
DisplayedResultIsTheTabs == response # 0 => ranFrom[response] = active
=============================================================================
