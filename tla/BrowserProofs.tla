--------------------------- MODULE BrowserProofs ---------------------------
(***************************************************************************)
(* Proofs about what the browser keeps: ColumnMasking, for any set of      *)
(* columns and any number of changes of the preference and of saves;       *)
(* WorkspaceTabs, for any number of tabs, scripts and saves; GridEditor,   *)
(* for any rows, columns, calls and writes of other clients; and           *)
(* ChatThreads, for any number of connections, turns, chats and requests.  *)
(***************************************************************************)
EXTENDS ColumnMasking, WorkspaceTabs, GridEditor, ChatThreads, SequenceTheorems,
        FiniteSetTheorems, TLAPS

\* What the records of reads are made of.
LEMMA ReadFacts ==
  ASSUME NEW r \in Reads, prefs \in SUBSET MaskColumns
  PROVE  /\ r.masked \in SUBSET MaskColumns
         /\ r = Idle <=> r.stage \notin {"asked", "read"}
         /\ Read(r) \in Reads /\ Read(r) # Idle
         /\ Read(r).stage = "read" /\ Read(r).masked = prefs /\ Read(r).clear = r.clear
<1>1. Idle.stage = "idle" /\ Idle.masked = {} /\ Idle.clear = FALSE
  BY Zenon DEF Idle
<1>2. /\ r.masked \in SUBSET MaskColumns /\ r.clear \in BOOLEAN
      /\ r = Idle <=> r.stage \notin {"asked", "read"}
  <2>1. CASE r = Idle
    <3>1. Idle.stage \notin {"asked", "read"}
      BY <1>1
    <3>2. QED
      BY <1>1, <2>1, <3>1, Zenon
  <2>2. CASE r \in [stage : {"asked", "read"}, masked : SUBSET MaskColumns, clear : BOOLEAN]
    <3>1. r.masked \in SUBSET MaskColumns /\ r.clear \in BOOLEAN /\ r.stage \in {"asked", "read"}
      BY <2>2, Zenon
    <3>2. r # Idle
      BY <1>1, <3>1
    <3>3. QED
      BY <3>1, <3>2, Zenon
  <2>3. QED
    BY <2>1, <2>2, Zenon DEF Reads
<1>3. Read(r).stage = "read" /\ Read(r).masked = prefs /\ Read(r).clear = r.clear
  BY Zenon DEF Read
<1>4. Read(r) \in [stage : {"asked", "read"}, masked : SUBSET MaskColumns, clear : BOOLEAN]
  BY <1>2, Zenon DEF Read
<1>5. Read(r) \in Reads
  BY <1>4, Zenon DEF Reads
<1>6. Read(r) # Idle
  BY <1>1, <1>3
<1>7. QED
  BY <1>2, <1>3, <1>5, <1>6, Zenon

LEMMA AskedFacts ==
  ASSUME NEW clear \in BOOLEAN
  PROVE  /\ Asked(clear) \in Reads /\ Asked(clear) # Idle
         /\ Asked(clear).stage = "asked" /\ Asked(clear).masked = {}
         /\ Asked(clear).clear = clear
<1>1. /\ Asked(clear).stage = "asked" /\ Asked(clear).masked = {} /\ Asked(clear).clear = clear
      /\ Idle.stage = "idle"
  BY Zenon DEF Asked, Idle
<1>2. Asked(clear) \in [stage : {"asked", "read"}, masked : SUBSET MaskColumns, clear : BOOLEAN]
  BY Zenon DEF Asked
<1>3. Asked(clear) \in Reads
  BY <1>2, Zenon DEF Reads
<1>4. Asked(clear) # Idle
  BY <1>1
<1>5. QED
  BY <1>1, <1>3, <1>4, Zenon

\* The reads, the saves and the edits keep their forms.
LEMMA TypeFacts ==
  ASSUME MaskTypeOK
  PROVE  /\ prefs \in SUBSET MaskColumns
         /\ hydration \in Reads /\ columns \in Reads /\ block \in Reads /\ Idle \in Reads
         /\ \A clear \in {FALSE, revealed, ~revealed} :
              /\ Asked(clear) \in Reads /\ Asked(clear) # Idle
              /\ Asked(clear).stage = "asked" /\ Asked(clear).masked = {}
         /\ Asked(FALSE) \in Reads /\ Asked(revealed) \in Reads /\ Asked(~revealed) \in Reads
         /\ Idle.stage = "idle" /\ Idle.masked = {}
         /\ Cells("none") \in Edits
         /\ save # NoSave => save.edits \in Edits
         /\ NoSave.stage = "idle" /\ NoSave.edits = Cells("none")
<1>1. /\ prefs \in SUBSET MaskColumns
      /\ hydration \in Reads /\ columns \in Reads /\ block \in Reads
  BY DEF MaskTypeOK
<1>2. Idle \in Reads /\ Idle.stage = "idle" /\ Idle.masked = {}
  BY Zenon DEF Reads, Idle
<1>3. revealed \in BOOLEAN /\ FALSE \in BOOLEAN /\ (~revealed) \in BOOLEAN
  BY Zenon DEF MaskTypeOK
<1>4. /\ Cells("none") \in Edits
      /\ save # NoSave => save.edits \in Edits
      /\ NoSave.stage = "idle" /\ NoSave.edits = Cells("none")
  BY DEF MaskTypeOK, Cells, Edits, NoSave
<1>5. \A clear \in {FALSE, revealed, ~revealed} :
        /\ Asked(clear) \in Reads /\ Asked(clear) # Idle
        /\ Asked(clear).stage = "asked" /\ Asked(clear).masked = {}
  BY <1>3, AskedFacts, Zenon
<1>6. Asked(FALSE) \in Reads /\ Asked(revealed) \in Reads /\ Asked(~revealed) \in Reads
  BY <1>5, Zenon
<1>7. QED
  BY <1>1, <1>2, <1>4, <1>5, <1>6, Zenon

\* Every step keeps every variable in its type.
LEMMA MaskTypeStep ==
  MaskTypeOK /\ [MaskNext]_maskVars => MaskTypeOK'
<1> SUFFICES ASSUME MaskTypeOK, [MaskNext]_maskVars PROVE MaskTypeOK'
  OBVIOUS
<1> USE DEF MaskTypeOK, marking, viewing, editing
<1>1. CASE HydrationRead
  BY <1>1, ReadFacts, TypeFacts DEF HydrationRead
<1>2. CASE Hydrate
  <2>1. hydration.masked \subseteq MaskColumns
    BY ReadFacts, TypeFacts
  <2>2. QED
    BY <1>2, <2>1, TypeFacts DEF Hydrate
<1>3. ASSUME NEW c \in MaskColumns, Toggle(c) PROVE MaskTypeOK'
  <2>1. [id |-> marks, masked |-> store', stored |-> FALSE] \in Patches
    BY <1>3 DEF Toggle, Patches
  <2>2. failed' \in BOOLEAN
    BY <1>3, Zenon DEF Toggle
  <2>3. store' \subseteq MaskColumns
    BY <1>3 DEF Toggle
  <2>4. marks' \in Nat
    BY <1>3 DEF Toggle
  <2>5. patches' = patches \cup {[id |-> marks, masked |-> store', stored |-> FALSE]}
    BY <1>3, Zenon DEF Toggle
  <2>6. patches' \subseteq Patches
    BY <2>1, <2>5, Zenon DEF MaskTypeOK
  <2>7. QED
    BY <1>3, <2>2, <2>3, <2>4, <2>6 DEF Toggle
<1>4. ASSUME NEW c \in MaskColumns, Edit(c) PROVE MaskTypeOK'
  BY <1>4 DEF Edit, Stage, Edits
<1>5. ASSUME NEW c \in MaskColumns, Reapply(c) PROVE MaskTypeOK'
  BY <1>5 DEF Reapply, Stage, Edits
<1>6. ASSUME NEW p \in patches, Persist(p) PROVE MaskTypeOK'
  <2>1. p.masked \in SUBSET MaskColumns /\ [p EXCEPT !.stored = TRUE] \in Patches
    BY DEF Patches
  <2>2. QED
    BY <1>6, <2>1 DEF Persist
<1>7. ASSUME NEW p \in patches, Persisted(p) PROVE MaskTypeOK'
  BY <1>7, ReadFacts, TypeFacts DEF Persisted
<1>8. ASSUME NEW p \in patches, PatchLost(p) PROVE MaskTypeOK'
  BY <1>8 DEF PatchLost
<1>9. CASE ColumnsRead
  BY <1>9, ReadFacts, TypeFacts DEF ColumnsRead
<1>10. CASE ColumnsAnswered
  <2>1. columns.masked \subseteq MaskColumns
    BY ReadFacts, TypeFacts
  <2>2. block' \in Reads
    BY <1>10, TypeFacts DEF ColumnsAnswered
  <2>3. QED
    BY <1>10, <2>1, <2>2, TypeFacts DEF ColumnsAnswered
<1>11. CASE ColumnsLost
  BY <1>11, ReadFacts, TypeFacts DEF ColumnsLost
<1>12. CASE Refocus
  BY <1>12, ReadFacts, TypeFacts DEF Refocus
<1>13. CASE ToggleReveal
  <2>1. block' \in Reads /\ shown' \in [MaskColumns -> {"blank", "clear", "token", "draft"}]
    BY <1>13, TypeFacts DEF ToggleReveal, Cells
  <2>2. revealed' \in BOOLEAN /\ fromSave' \in BOOLEAN
    BY <1>13, Zenon DEF ToggleReveal
  <2>3. QED
    BY <1>13, <2>1, <2>2 DEF ToggleReveal
<1>14. CASE Refresh
  BY <1>14, ReadFacts, TypeFacts DEF Refresh
<1>15. CASE BlockRead
  BY <1>15, ReadFacts, TypeFacts DEF BlockRead
<1>16. CASE BlockAnswered
  <2>1. shown' \in [MaskColumns -> {"blank", "clear", "token", "draft"}]
    BY <1>16 DEF BlockAnswered
  <2>2. fromSave' \in BOOLEAN
    BY <1>16, Zenon DEF BlockAnswered
  <2>3. QED
    BY <1>16, <2>1, <2>2, TypeFacts DEF BlockAnswered
<1>17. CASE BlockLost
  BY <1>17, ReadFacts, TypeFacts DEF BlockLost
<1>18. CASE Discard
  <2>1. block' \in Reads /\ staged' \in Edits /\ lastEdit' \subseteq MaskColumns
    BY <1>18, TypeFacts DEF Discard
  <2>2. QED
    BY <1>18, <2>1 DEF Discard
<1>19. CASE Save
  BY <1>19, TypeFacts DEF Save, Edits, Cells, NoSave
<1>20. CASE AssertNotMasked
  BY <1>20, TypeFacts DEF AssertNotMasked, Edits, NoSave
<1>21. CASE Update
  BY <1>21, TypeFacts DEF Update, Blind, Edits, NoSave
<1>22. CASE Saved
  BY <1>22 DEF Saved, Cells, Edits
<1>23. CASE NotSaved
  BY <1>23, ReadFacts, TypeFacts DEF NotSaved
<1>24. CASE UNCHANGED maskVars
  BY <1>24 DEF maskVars
<1>25. QED
  BY <1>1, <1>2, <1>3, <1>4, <1>5, <1>6, <1>7, <1>8, <1>9, <1>10, <1>11, <1>12,
     <1>13, <1>14, <1>15, <1>16, <1>17, <1>18, <1>19, <1>20, <1>21, <1>22,
     <1>23, <1>24 DEF MaskNext

\* While nothing goes wrong, one change at a time is on its way from the mirror to the
\* preference.
LEMMA MirrorStep ==
  MaskTypeOK /\ (~failed => MirrorLeads) /\ [MaskNext]_maskVars => (~failed => MirrorLeads)'
<1> SUFFICES ASSUME MaskTypeOK, ~failed => MirrorLeads, [MaskNext]_maskVars, ~failed'
             PROVE  MirrorLeads'
  OBVIOUS
<1> USE DEF MirrorLeads, marking
<1>1. CASE HydrationRead
  BY <1>1, ReadFacts, TypeFacts DEF HydrationRead
<1>2. CASE Hydrate
  BY <1>2, TypeFacts DEF Hydrate
<1>3. ASSUME NEW c \in MaskColumns, Toggle(c) PROVE MirrorLeads'
  <2>1. hydration = Idle /\ patches = {} /\ ~failed
    BY <1>3 DEF Toggle
  <2>2. /\ patches' = {[id |-> marks, masked |-> store', stored |-> FALSE]}
        /\ hydration' = Idle
    BY <1>3, <2>1 DEF Toggle
  <2>3. QED
    BY <2>2
<1>4. ASSUME NEW p \in patches, Persist(p) PROVE MirrorLeads'
  <2>1. ~failed /\ hydration = Idle /\ patches = {p} /\ p.masked = store
    BY <1>4 DEF Persist
  <2>2. PICK q : q = [p EXCEPT !.stored = TRUE]
    OBVIOUS
  <2>3. q.masked = store /\ patches' = {q} /\ prefs' = store /\ UNCHANGED <<store, hydration>>
    BY <1>4, <2>1, <2>2 DEF Persist, Patches, MaskTypeOK
  <2>4. QED
    BY <2>1, <2>3
<1>5. ASSUME NEW p \in patches, Persisted(p) PROVE MirrorLeads'
  <2>1. ~failed /\ hydration = Idle /\ patches = {p} /\ prefs = store
    BY <1>5 DEF Persisted
  <2>2. patches' = {} /\ UNCHANGED <<hydration, prefs, store>>
    BY <1>5, <2>1 DEF Persisted
  <2>3. QED
    BY <2>1, <2>2
<1>6. ASSUME NEW p \in patches, PatchLost(p) PROVE MirrorLeads'
  BY <1>6 DEF PatchLost
<1>7. CASE ColumnsRead \/ ColumnsAnswered \/ ColumnsLost \/ Refocus \/ ToggleReveal \/
           Refresh \/ BlockRead \/ BlockAnswered \/ BlockLost
  BY <1>7 DEF ColumnsRead, ColumnsAnswered, ColumnsLost, Refocus, ToggleReveal, Refresh,
     BlockRead, BlockAnswered, BlockLost
<1>8. ASSUME NEW c \in MaskColumns, Edit(c) \/ Reapply(c) PROVE MirrorLeads'
  BY <1>8 DEF Edit, Reapply, Stage
<1>9. CASE Discard \/ Save \/ AssertNotMasked \/ Update \/ Saved \/ NotSaved
  BY <1>9 DEF Discard, Save, AssertNotMasked, Update, Saved, NotSaved
<1>10. CASE UNCHANGED maskVars
  BY <1>10 DEF maskVars
<1>11. QED
  BY <1>1, <1>2, <1>3, <1>4, <1>5, <1>6, <1>7, <1>8, <1>9, <1>10 DEF MaskNext

\* A report differs from the preference only until the change that was stored is answered.
LEMMA ReportStep ==
  MaskTypeOK /\ (~failed => ReportFollows) /\ [MaskNext]_maskVars => (~failed => ReportFollows)'
<1> SUFFICES ASSUME MaskTypeOK, ~failed => ReportFollows, [MaskNext]_maskVars, ~failed'
             PROVE  ReportFollows'
  OBVIOUS
<1> USE DEF ReportFollows, marking, editing
<1>1. CASE HydrationRead \/ Hydrate
  BY <1>1 DEF HydrationRead, Hydrate, viewing
<1>2. ASSUME NEW c \in MaskColumns, Toggle(c) PROVE ReportFollows'
  <2>1. ~failed /\ patches = {} /\ UNCHANGED <<prefs, reported, columns>>
    BY <1>2 DEF Toggle, viewing
  <2>2. QED
    BY <2>1
<1>3. ASSUME NEW p \in patches, Persist(p) PROVE ReportFollows'
  <2>1. [p EXCEPT !.stored = TRUE].stored = TRUE /\ [p EXCEPT !.stored = TRUE] \in patches'
    BY <1>3 DEF Persist, Patches, MaskTypeOK
  <2>2. QED
    BY <2>1
<1>4. ASSUME NEW p \in patches, Persisted(p) PROVE ReportFollows'
  BY <1>4, TypeFacts DEF Persisted
<1>5. ASSUME NEW p \in patches, PatchLost(p) PROVE ReportFollows'
  BY <1>5 DEF PatchLost
<1>6. CASE ColumnsRead
  BY <1>6, ReadFacts, TypeFacts DEF ColumnsRead
<1>7. CASE ColumnsAnswered
  BY <1>7, TypeFacts DEF ColumnsAnswered
<1>8. CASE ColumnsLost
  BY <1>8 DEF ColumnsLost
<1>9. CASE Refocus
  BY <1>9, TypeFacts DEF Refocus
<1>10. CASE ToggleReveal \/ Refresh \/ BlockRead \/ BlockAnswered \/ BlockLost
  BY <1>10 DEF ToggleReveal, Refresh, BlockRead, BlockAnswered, BlockLost
<1>11. ASSUME NEW c \in MaskColumns, Edit(c) \/ Reapply(c) PROVE ReportFollows'
  BY <1>11 DEF Edit, Reapply, Stage
<1>12. CASE Discard \/ Save \/ AssertNotMasked \/ Update \/ Saved \/ NotSaved
  BY <1>12 DEF Discard, Save, AssertNotMasked, Update, Saved, NotSaved, viewing
<1>13. CASE UNCHANGED maskVars
  BY <1>13 DEF maskVars
<1>14. QED
  BY <1>1, <1>2, <1>3, <1>4, <1>5, <1>6, <1>7, <1>8, <1>9, <1>10, <1>11, <1>12,
     <1>13 DEF MaskNext

\* The rows agree with the preference once the report does: a change of the report asks
\* for them anew, and a change of the preference takes the agreement away.
LEMMA CellsStep ==
  MaskTypeOK /\ (~failed => MirrorLeads /\ CellsFollow) /\ [MaskNext]_maskVars => (~failed => CellsFollow)'
<1> SUFFICES ASSUME MaskTypeOK, ~failed => MirrorLeads /\ CellsFollow, [MaskNext]_maskVars, ~failed'
             PROVE  CellsFollow'
  OBVIOUS
<1> USE DEF CellsFollow
<1>1. CASE UNCHANGED <<prefs, reported, revealed, block, shown, fromSave, failed>>
  BY <1>1
<1>2. CASE HydrationRead \/ Hydrate
  BY <1>1, <1>2 DEF HydrationRead, Hydrate, viewing
<1>3. ASSUME NEW c \in MaskColumns, Toggle(c) PROVE CellsFollow'
  <2>1. ~failed /\ UNCHANGED <<prefs, viewing>>
    BY <1>3 DEF Toggle
  <2>2. QED
    BY <2>1 DEF viewing
<1>4. ASSUME NEW c \in MaskColumns, Stage(c), UNCHANGED prefs PROVE CellsFollow'
  <2>1. shown'[c] = "draft" /\ \A d \in MaskColumns \ {c} : shown'[d] = shown[d]
    BY <1>4 DEF Stage, MaskTypeOK
  <2>2. QED
    BY <1>4, <2>1 DEF Stage
<1>5. ASSUME NEW c \in MaskColumns, Edit(c) \/ Reapply(c) PROVE CellsFollow'
  BY <1>4, <1>5 DEF Edit, Reapply, Stage, marking
<1>6. ASSUME NEW p \in patches, Persist(p) PROVE CellsFollow'
  <2>1. ~failed /\ prefs = reported /\ UNCHANGED viewing
    BY <1>6 DEF Persist
  <2>2. QED
    BY <2>1 DEF viewing
<1>7. ASSUME NEW p \in patches, Persisted(p) \/ PatchLost(p) PROVE CellsFollow'
  BY <1>1, <1>7 DEF Persisted, PatchLost
<1>8. CASE ColumnsRead \/ Refocus \/ ColumnsLost
  BY <1>1, <1>8 DEF ColumnsRead, Refocus, ColumnsLost, marking
<1>9. CASE ColumnsAnswered
  <2>1. CASE columns.masked = reported
    BY <1>9, <2>1 DEF ColumnsAnswered, marking
  <2>2. CASE columns.masked # reported
    <3>1. block' = Asked(revealed) /\ UNCHANGED revealed
      BY <1>9, <2>2 DEF ColumnsAnswered
    <3>2. QED
      BY <3>1, AskedFacts DEF MaskTypeOK
  <2>3. QED
    BY <2>1, <2>2
<1>10. CASE ToggleReveal
  <2>1. block' = Asked(revealed') /\ revealed' \in BOOLEAN
    BY <1>10, Zenon DEF ToggleReveal
  <2>2. QED
    BY <2>1, AskedFacts
<1>11. CASE block' = Asked(revealed) /\ UNCHANGED revealed
  BY <1>11, AskedFacts DEF MaskTypeOK
<1>12. CASE Refresh \/ Discard
  BY <1>11, <1>12 DEF Refresh, Discard
<1>13. CASE BlockRead
  <2>1. /\ block' = Read(block) /\ block.stage = "asked" /\ ~failed
        /\ UNCHANGED <<prefs, reported, revealed>>
    BY <1>13 DEF BlockRead, marking
  <2>2. block # Idle /\ block' # Idle /\ block'.masked = prefs /\ block'.clear = block.clear
    BY <2>1, ReadFacts, TypeFacts
  <2>3. QED
    BY <2>1, <2>2
<1>14. CASE BlockAnswered
  <2>1. /\ block.stage = "read" /\ ~failed /\ block' = Idle
        /\ shown' = [c \in MaskColumns |->
             IF c \in block.masked /\ ~block.clear THEN "token" ELSE "clear"]
        /\ UNCHANGED <<prefs, reported, revealed>>
    BY <1>14 DEF BlockAnswered, marking
  <2>2. block # Idle /\ block.clear = revealed
    BY <2>1, TypeFacts
  <2>3. reported = prefs => block.masked = prefs
    BY <2>1
  <2>4. Idle.stage # "read"
    BY TypeFacts
  <2>5. \A c \in MaskColumns : shown'[c] = IF c \in block.masked /\ ~revealed THEN "token" ELSE "clear"
    BY <2>1, <2>2
  <2>6. QED
    BY <2>1, <2>3, <2>4, <2>5 DEF MaskTypeOK
<1>15. CASE BlockLost
  BY <1>15 DEF BlockLost
<1>16. CASE Save \/ AssertNotMasked \/ Update
  BY <1>1, <1>16 DEF Save, AssertNotMasked, Update, marking, viewing
<1>17. CASE Saved
  <2>1. ~failed /\ fromSave' /\ UNCHANGED <<prefs, reported, revealed, block>>
    BY <1>17 DEF Saved, marking
  <2>2. shown' = shown \/ \A c \in MaskColumns : shown'[c] = "clear"
    BY <1>17 DEF Saved, Cells
  <2>3. QED
    BY <2>1, <2>2
<1>18. CASE NotSaved
  BY <1>11, <1>18 DEF NotSaved, marking
<1>19. CASE UNCHANGED maskVars
  BY <1>1, <1>19 DEF maskVars
<1>20. QED
  BY <1>2, <1>3, <1>5, <1>6, <1>7, <1>8, <1>9, <1>10, <1>12, <1>13, <1>14, <1>15, <1>16,
     <1>17, <1>18, <1>19 DEF MaskNext

\* Nothing forgets that a column was masked: it stays known while it is masked and, once
\* unmarked, from then on.
LEMMA TokensStep ==
  MaskTypeOK /\ TokensWereMasked /\ [MaskNext]_maskVars => TokensWereMasked'
<1> SUFFICES ASSUME MaskTypeOK, TokensWereMasked, [MaskNext]_maskVars PROVE TokensWereMasked'
  OBVIOUS
<1> USE DEF TokensWereMasked, Blind
<1>1. CASE UNCHANGED <<prefs, lifted, block, shown, staged, save>>
  BY <1>1
<1>2. CASE HydrationRead \/ Hydrate
  BY <1>1, <1>2 DEF HydrationRead, Hydrate, viewing, editing
<1>3. ASSUME NEW c \in MaskColumns, Toggle(c) PROVE TokensWereMasked'
  BY <1>1, <1>3 DEF Toggle, viewing, editing
<1>4. ASSUME NEW c \in MaskColumns, Edit(c) \/ Reapply(c) PROVE TokensWereMasked'
  <2>1. /\ \A d \in MaskColumns : shown'[d] = "token" => shown[d] = "token"
        /\ \A d \in MaskColumns : staged'[d] = "blind" => staged[d] = "blind" \/ shown[d] = "token"
        /\ UNCHANGED <<prefs, lifted, block, save>>
    BY <1>4 DEF Edit, Reapply, Stage, marking, MaskTypeOK, Edits
  <2>2. QED
    BY <2>1
<1>5. ASSUME NEW p \in patches, Persist(p) PROVE TokensWereMasked'
  <2>1. lifted' = lifted \cup (prefs \ prefs') /\ UNCHANGED <<block, shown, staged, save>>
    BY <1>5 DEF Persist, viewing, editing
  <2>2. prefs \cup lifted \subseteq prefs' \cup lifted'
    BY <2>1
  <2>3. QED
    BY <2>1, <2>2
<1>6. ASSUME NEW p \in patches, Persisted(p) \/ PatchLost(p) PROVE TokensWereMasked'
  BY <1>1, <1>6 DEF Persisted, PatchLost, viewing, editing
<1>7. CASE ColumnsRead \/ ColumnsLost \/ Refocus
  BY <1>1, <1>7 DEF ColumnsRead, ColumnsLost, Refocus, marking, editing
<1>8. CASE /\ block' \in {block, Idle, Asked(revealed), Asked(~revealed)}
           /\ shown' \in {shown, Cells("blank")}
           /\ staged' \in {staged, Cells("none")}
           /\ save' = save
           /\ UNCHANGED <<prefs, lifted>>
  <2>1. block'.masked = block.masked \/ block'.masked = {}
    BY <1>8, TypeFacts
  <2>2. \A c \in MaskColumns : shown'[c] = "token" => shown[c] = "token"
    BY <1>8 DEF Cells
  <2>3. \A c \in MaskColumns : staged'[c] = "blind" => staged[c] = "blind"
    BY <1>8 DEF Cells
  <2>4. QED
    BY <1>8, <2>1, <2>2, <2>3
<1>9. CASE ColumnsAnswered \/ ToggleReveal \/ Refresh \/ BlockLost \/ Discard
  BY <1>8, <1>9 DEF ColumnsAnswered, ToggleReveal, Refresh, BlockLost, Discard, marking, editing
<1>10. CASE BlockRead
  <2>1. block'.masked = prefs /\ UNCHANGED <<prefs, lifted, shown, staged, save>>
    BY <1>10, ReadFacts, TypeFacts DEF BlockRead, marking, editing
  <2>2. QED
    BY <2>1
<1>11. CASE BlockAnswered
  <2>1. /\ \A c \in MaskColumns : shown'[c] = "token" => c \in block.masked
        /\ block'.masked = {}
        /\ UNCHANGED <<prefs, lifted, staged, save>>
    BY <1>11, TypeFacts DEF BlockAnswered, marking, editing
  <2>2. QED
    BY <2>1
<1>12. CASE Save
  <2>1. save'.edits = staged /\ UNCHANGED <<prefs, lifted, block, shown, staged>>
    BY <1>12 DEF Save, marking, viewing
  <2>2. QED
    BY <2>1
<1>13. CASE AssertNotMasked \/ Update
  <2>1. save'.edits = save.edits /\ UNCHANGED <<prefs, lifted, block, shown, staged>>
    BY <1>13, TypeFacts DEF AssertNotMasked, Update, NoSave, MaskTypeOK, marking, viewing
  <2>2. QED
    BY <2>1
<1>14. CASE Saved \/ NotSaved
  <2>1. /\ save'.edits = Cells("none")
        /\ staged' \in {staged, Cells("none")}
        /\ block' \in {block, Asked(revealed)}
        /\ \A c \in MaskColumns : shown'[c] = "token" => shown[c] = "token"
        /\ UNCHANGED <<prefs, lifted>>
    BY <1>14, TypeFacts DEF Saved, NotSaved, Cells, marking
  <2>2. block'.masked = block.masked \/ block'.masked = {}
    BY <2>1, TypeFacts
  <2>3. QED
    BY <2>1, <2>2 DEF Cells
<1>15. CASE UNCHANGED maskVars
  BY <1>1, <1>15 DEF maskVars
<1>16. QED
  BY <1>2, <1>3, <1>4, <1>5, <1>6, <1>7, <1>9, <1>10, <1>11, <1>12, <1>13, <1>14, <1>15 DEF MaskNext

\* What the check lets through was not masked then, so a token in it was unmarked; the
\* update writes nothing that the check has not seen.
LEMMA CheckedStep ==
  MaskTypeOK /\ TokensWereMasked /\ CheckedWasUnmarked /\ [MaskNext]_maskVars => CheckedWasUnmarked'
<1> SUFFICES ASSUME MaskTypeOK, TokensWereMasked, CheckedWasUnmarked, [MaskNext]_maskVars
             PROVE  CheckedWasUnmarked'
  OBVIOUS
<1> USE DEF CheckedWasUnmarked
<1>1. CASE UNCHANGED <<guard, save, overwritten>> /\ lifted \subseteq lifted'
  BY <1>1
<1>2. CASE HydrationRead \/ Hydrate
  BY <1>1, <1>2 DEF HydrationRead, Hydrate, editing
<1>3. ASSUME NEW c \in MaskColumns, Toggle(c) \/ Edit(c) \/ Reapply(c) PROVE CheckedWasUnmarked'
  BY <1>1, <1>3 DEF Toggle, Edit, Reapply, Stage, marking, editing
<1>4. ASSUME NEW p \in patches, Persist(p) \/ Persisted(p) \/ PatchLost(p)
      PROVE  CheckedWasUnmarked'
  BY <1>1, <1>4 DEF Persist, Persisted, PatchLost, editing
<1>5. CASE ColumnsRead \/ ColumnsAnswered \/ ColumnsLost \/ Refocus \/ ToggleReveal \/ Refresh
             \/ BlockRead \/ BlockAnswered \/ BlockLost
  BY <1>1, <1>5 DEF ColumnsRead, ColumnsAnswered, ColumnsLost, Refocus, ToggleReveal, Refresh,
                    BlockRead, BlockAnswered, BlockLost, marking, editing
<1>6. CASE Discard
  BY <1>1, <1>6 DEF Discard, marking
<1>7. CASE /\ save'.stage # "checked"
           /\ UNCHANGED <<guard, overwritten, lifted>>
  BY <1>7
<1>8. CASE Save \/ Saved \/ NotSaved
  BY <1>7, <1>8, TypeFacts DEF Save, Saved, NotSaved, marking
<1>9. CASE AssertNotMasked
  <2>1. /\ save'.edits = save.edits /\ UNCHANGED <<guard, overwritten, lifted>>
        /\ save'.stage = "checked" => Edited(save.edits) \cap prefs = {}
    BY <1>9 DEF AssertNotMasked, NoSave, MaskTypeOK, marking
  <2>2. Blind(save.edits) \subseteq Edited(save.edits)
    BY DEF Blind, Edited
  <2>3. QED
    BY <2>1, <2>2 DEF TokensWereMasked
<1>10. CASE Update
  <2>1. save'.stage # "checked" /\ UNCHANGED <<guard, lifted>> /\ save.stage = "checked"
    BY <1>10 DEF Update, NoSave, MaskTypeOK, marking
  <2>2. overwritten' = overwritten \/ overwritten' = overwritten \cup Blind(save.edits)
    BY <1>10 DEF Update
  <2>3. guard = "preimage" => overwritten' = {}
    BY <1>10 DEF Update
  <2>4. QED
    BY <2>1, <2>2, <2>3
<1>11. CASE UNCHANGED maskVars
  BY <1>1, <1>11 DEF maskVars
<1>12. QED
  BY <1>2, <1>3, <1>4, <1>5, <1>6, <1>8, <1>9, <1>10, <1>11 DEF MaskNext

\* A view that has just been mounted waits for everything.
LEMMA InitMaskInv == MaskInit => MaskInv
<1> SUFFICES ASSUME MaskInit PROVE MaskInv
  OBVIOUS
<1>1. Asked(FALSE) \in Reads /\ Asked(FALSE) # Idle /\ Asked(FALSE).stage = "asked"
      /\ Asked(FALSE).masked = {} /\ Asked(FALSE).clear = FALSE
  BY AskedFacts
<1>2. MaskTypeOK
  BY <1>1 DEF MaskInit, MaskTypeOK, Cells, Edits
<1>3. MirrorLeads /\ ReportFollows /\ CellsFollow
  BY <1>1 DEF MaskInit, MirrorLeads, ReportFollows, CellsFollow
<1>4. TokensWereMasked /\ CheckedWasUnmarked
  BY <1>1 DEF MaskInit, TokensWereMasked, CheckedWasUnmarked, Cells, NoSave, Blind
<1>5. QED
  BY <1>2, <1>3, <1>4 DEF MaskInv

\* While changes of the preference do not overlap and no request fails, mirror, report
\* and rows follow the preference in this order.
THEOREM MaskInvariant == MaskSpec => []MaskInv
<1>1. MaskInv /\ [MaskNext]_maskVars => MaskInv'
  BY MaskTypeStep, MirrorStep, ReportStep, CellsStep, TokensStep, CheckedStep DEF MaskInv
<1>2. QED
  BY InitMaskInv, <1>1, PTL DEF MaskSpec

\* What is masked settles to one answer everywhere, for any columns and any number of
\* changes: when nothing is under way and nothing went wrong, mirror, report and rows
\* agree with the preference.
THEOREM MaskingSettled == MaskSpec => []MaskingSettles
<1>1. MaskInv => MaskingSettles
  BY DEF MaskInv, MaskingSettles, MirrorLeads, ReportFollows, CellsFollow
<1>2. QED
  BY MaskInvariant, <1>1, PTL

\* A value that was shown as a token is written over after its column was unmarked only,
\* and only where rows are guarded by versions.
THEOREM BlindWritesAfterUnmark == MaskSpec => []BlindWritesAfterUnmarkOnly
<1>1. MaskInv => BlindWritesAfterUnmarkOnly
  BY DEF MaskInv, MaskTypeOK, BlindWritesAfterUnmarkOnly, CheckedWasUnmarked
<1>2. QED
  BY MaskInvariant, <1>1, PTL

-----------------------------------------------------------------------------
(* Tabs: whose results are stored and shown, and whose edits are staged. *)

\* The callbacks that are dropped belong to the same runs.
LEMMA UnheardRuns ==
  ASSUME RunsFit, ranFrom' = ranFrom, runs' = runs \/ runs' = Unheard(runs)
  PROVE  RunsFit'
<1>1. CASE runs' = runs
  BY <1>1 DEF RunsFit
<1>2. CASE runs' = Unheard(runs)
  <2>1. ASSUME NEW run \in Unheard(runs)
        PROVE  run \in [run : 1..MaxRuns, heard : BOOLEAN] /\ ranFrom[run.run] # NoTab
    <3>1. PICK one \in runs : run = [one EXCEPT !.heard = FALSE]
      BY DEF Unheard
    <3>2. one \in [run : 1..MaxRuns, heard : BOOLEAN] /\ ranFrom[one.run] # NoTab
      BY DEF RunsFit
    <3>3. run = [run |-> one.run, heard |-> FALSE]
      BY <3>1, <3>2
    <3> QED  BY <3>2, <3>3
  <2> QED  BY <1>2, <2>1 DEF RunsFit
<1> QED  BY <1>1, <1>2

\* What a change of the store's tabs does to the editor and the table view.
LEMMA GoToKeeps ==
  ASSUME TabsInv, NEW ts, NEW id, GoTo(ts, id), UNCHANGED <<result, ranFrom>>
  PROVE  TabsInv'
<1>1. RunsFit'
  BY UnheardRuns DEF TabsInv, GoTo
<1>2. EditsHaveAView'
  BY DEF TabsInv, GoTo, EditsHaveAView, Mounted, Kind
<1>3. response' \in 0..MaxRuns
  <2>1. Kind(ts, id) = "editor" => id \in QueryTabs
    BY DEF Kind
  <2> QED  BY <2>1, TabsAssumption DEF TabsInv, GoTo
<1>4. StoredResultIsTheTabs'
  BY DEF TabsInv, StoredResultIsTheTabs
<1> QED  BY <1>1, <1>2, <1>3, <1>4 DEF TabsInv

\* A script is started under a number of its own.
LEMMA StartRunKeeps ==
  ASSUME TabsInv, NEW tab \in QueryTabs, StartRun(tab),
         UNCHANGED <<tabs, active, result, response, tabEdits>>
  PROVE  TabsInv'
<1>1. PICK r \in 1..MaxRuns :
        /\ ranFrom[r] = NoTab /\ ranFrom' = [ranFrom EXCEPT ![r] = tab]
        /\ runs' = runs \cup {[run |-> r, heard |-> TRUE]}
  BY DEF StartRun
<1>2. tab # NoTab
  BY TabsAssumption DEF NoTab
<1>3. RunsFit'
  <2>1. /\ ranFrom \in [1..MaxRuns -> QueryTabs \cup {NoTab}]
        /\ runs \subseteq [run : 1..MaxRuns, heard : BOOLEAN]
        /\ \A run \in runs : ranFrom[run.run] # NoTab
    BY DEF TabsInv, RunsFit
  <2>2. ranFrom' \in [1..MaxRuns -> QueryTabs \cup {NoTab}] /\ ranFrom'[r] # NoTab
    BY <1>1, <1>2, <2>1
  <2>3. runs' \subseteq [run : 1..MaxRuns, heard : BOOLEAN]
    <3>1. [run |-> r, heard |-> TRUE] \in [run : 1..MaxRuns, heard : BOOLEAN]
      OBVIOUS
    <3> QED  BY <1>1, <2>1, <3>1
  <2>4. ASSUME NEW run \in runs' PROVE ranFrom'[run.run] # NoTab
    <3>1. CASE run \in runs
      <4>1. ranFrom[run.run] # NoTab /\ run.run \in 1..MaxRuns
        BY <2>1, <3>1
      <4> QED  BY <1>1, <2>1, <4>1
    <3>2. CASE run = [run |-> r, heard |-> TRUE]
      BY <2>2, <3>2
    <3> QED  BY <1>1, <3>1, <3>2
  <2> QED  BY <2>2, <2>3, <2>4 DEF RunsFit
<1>4. EditsHaveAView'
  BY DEF TabsInv, EditsHaveAView, Mounted
<1>5. StoredResultIsTheTabs'
  <2>1. ASSUME NEW q \in QueryTabs, result[q] # 0 PROVE ranFrom'[result[q]] = q
    <3>1. ranFrom[result[q]] = q /\ q # NoTab /\ result[q] \in 1..MaxRuns
      BY <2>1, TabsAssumption DEF TabsInv, StoredResultIsTheTabs, NoTab
    <3> QED  BY <1>1, <3>1 DEF TabsInv, RunsFit
  <2> QED  BY <2>1 DEF StoredResultIsTheTabs
<1> QED  BY <1>3, <1>4, <1>5 DEF TabsInv

LEMMA RunEndsKeeps ==
  ASSUME TabsInv, NEW run \in runs, RunAnswered(run) \/ RunFailed(run)
  PROVE  TabsInv'
<1>1. /\ runs' = runs \ {run} /\ UNCHANGED <<tabs, active, ranFrom, tabEdits>>
      /\ \/ UNCHANGED <<response, result>>
         \/ response' = run.run /\ result' = [result EXCEPT ![ranFrom[run.run]] = run.run]
  BY DEF RunAnswered, RunFailed
<1>2. run.run \in 1..MaxRuns /\ ranFrom[run.run] \in QueryTabs
  BY DEF TabsInv, RunsFit
<1>3. RunsFit' /\ EditsHaveAView'
  BY <1>1 DEF TabsInv, RunsFit, EditsHaveAView, Mounted
<1>4. result' \in [QueryTabs -> 0..MaxRuns] /\ response' \in 0..MaxRuns
  BY <1>1, <1>2, TabsAssumption DEF TabsInv
<1>5. StoredResultIsTheTabs'
  BY <1>1, <1>2 DEF TabsInv, StoredResultIsTheTabs
<1> QED  BY <1>3, <1>4, <1>5 DEF TabsInv

LEMMA EditsKeep ==
  ASSUME TabsInv, UNCHANGED <<tabs, active, result, response, ranFrom, runs>>,
         tabEdits' \subseteq tabEdits \/ (Mounted = "table" /\ tabEdits' = tabEdits \cup {active})
  PROVE  TabsInv'
<1>1. Mounted = "table" => active \in TableTabs
  BY DEF Mounted, Kind
<1>2. EditsHaveAView'
  BY <1>1 DEF TabsInv, EditsHaveAView, Mounted
<1>3. RunsFit' /\ StoredResultIsTheTabs'
  BY DEF TabsInv, RunsFit, StoredResultIsTheTabs
<1> QED  BY <1>2, <1>3 DEF TabsInv

\* Every step moves between tabs, or leaves them alone and starts a script, ends one, or
\* changes the staged edits.
LEMMA TabSteps ==
  ASSUME [TabsNext]_tabVars
  PROVE  \/ (\E ts, id : GoTo(ts, id)) /\ UNCHANGED <<result, ranFrom>>
         \/ /\ \E tab \in QueryTabs : StartRun(tab)
            /\ UNCHANGED <<tabs, active, result, response, tabEdits>>
         \/ \E run \in runs : RunAnswered(run) \/ RunFailed(run)
         \/ /\ UNCHANGED <<tabs, active, result, response, ranFrom, runs>>
            /\ \/ tabEdits' \subseteq tabEdits
               \/ Mounted = "table" /\ tabEdits' = tabEdits \cup {active}
<1> USE DEF requests
<1>1. ASSUME NEW id, OpenTab(id) PROVE (\E ts, t : GoTo(ts, t)) /\ UNCHANGED <<result, ranFrom>>
  BY <1>1 DEF OpenTab
<1>2. ASSUME NEW id, NewQueryTab(id) PROVE (\E ts, t : GoTo(ts, t)) /\ UNCHANGED <<result, ranFrom>>
  BY <1>2 DEF NewQueryTab
<1>3. ASSUME NEW id, SelectTab(id) PROVE (\E ts, t : GoTo(ts, t)) /\ UNCHANGED <<result, ranFrom>>
  BY <1>3 DEF SelectTab
<1>4. ASSUME NEW id, CloseDropped(id) PROVE (\E ts, t : GoTo(ts, t)) /\ UNCHANGED <<result, ranFrom>>
  BY <1>4 DEF CloseDropped, Close
<1>5. ASSUME NEW i, NEW j, Reorder(i, j) PROVE (\E ts, t : GoTo(ts, t)) /\ UNCHANGED <<result, ranFrom>>
  BY <1>5 DEF Reorder
<1>6. ASSUME NEW i, CloseMany(i) PROVE (\E ts, t : GoTo(ts, t)) /\ UNCHANGED <<result, ranFrom>>
  BY <1>6 DEF CloseMany, ApplyClose
<1>7. ASSUME LoadQuery \/ CloseByShortcut PROVE (\E ts, t : GoTo(ts, t)) /\ UNCHANGED <<result, ranFrom>>
  BY <1>7 DEF LoadQuery, CloseByShortcut, Close
<1>8. ASSUME NEW yes, AnswerDialog(yes) PROVE (\E ts, t : GoTo(ts, t)) /\ UNCHANGED <<result, ranFrom>>
  BY <1>8 DEF AnswerDialog, Close
<1>9. ASSUME NEW id, CloseFromBar(id)
      PROVE  \/ (\E ts, t : GoTo(ts, t)) /\ UNCHANGED <<result, ranFrom>>
             \/ UNCHANGED <<tabs, active, result, response, ranFrom, runs, tabEdits>>
  BY <1>9 DEF CloseFromBar, Close
<1>10. ASSUME NEW yes, AnswerRun(yes)
       PROVE  \/ /\ \E tab \in QueryTabs : StartRun(tab)
                 /\ UNCHANGED <<tabs, active, result, response, tabEdits>>
              \/ UNCHANGED <<tabs, active, result, response, ranFrom, runs, tabEdits>>
  BY <1>10 DEF AnswerRun
<1>11. ASSUME RunSql
       PROVE  \/ /\ \E tab \in QueryTabs : StartRun(tab)
                 /\ UNCHANGED <<tabs, active, result, response, tabEdits>>
              \/ UNCHANGED <<tabs, active, result, response, ranFrom, runs, tabEdits>>
  <2>1. active \in QueryTabs
    BY <1>11 DEF RunSql, Mounted, Kind
  <2> QED  BY <1>11, <2>1 DEF RunSql
<1>12. ASSUME NEW request, NEW accepted, SaveAnswered(request, accepted)
       PROVE  UNCHANGED <<tabs, active, result, response, ranFrom, runs>> /\ tabEdits' \subseteq tabEdits
  BY <1>12 DEF SaveAnswered
<1>13. CASE StageEdit
  BY <1>13 DEF StageEdit
<1>14. CASE SaveEdits
  BY <1>14 DEF SaveEdits
<1>15. CASE UNCHANGED tabVars
  BY <1>15 DEF tabVars
<1> QED
  BY <1>1, <1>2, <1>3, <1>4, <1>5, <1>6, <1>7, <1>8, <1>9, <1>10, <1>11, <1>12, <1>13, <1>14,
     <1>15 DEF TabsNext

\* Whatever tabs are opened, closed and switched while scripts run.
THEOREM TabsInvariant == TabsSpec => []TabsInv
<1>1. TabsInit => TabsInv
  BY TabsAssumption DEF TabsInit, TabsInv, RunsFit, EditsHaveAView, StoredResultIsTheTabs
<1>2. TabsInv /\ [TabsNext]_tabVars => TabsInv'
  BY TabSteps, GoToKeeps, StartRunKeeps, RunEndsKeeps, EditsKeep
<1> QED  BY <1>1, <1>2, PTL DEF TabsSpec

\* However many tabs and scripts: a query tab stores only what was run from it.
THEOREM StoredResultsAreTheTabs == TabsSpec => []StoredResultIsTheTabs
<1>1. TabsInv => StoredResultIsTheTabs
  BY DEF TabsInv
<1> QED  BY <1>1, TabsInvariant, PTL

\* The editor shows another tab's result only where an answer comes late.
THEOREM ForeignResultsAreLateAnswers == TabsSpec => ForeignResultIsALateAnswer
<1> DEFINE Foreign ==
      response' # 0 /\ ranFrom[response'] # active' /\ <<response', active'>> # <<response, active>>
        => \E run \in runs : run \notin runs' /\ run.run = response' /\ active' = active
<1>1. TabsInv /\ [TabsNext]_tabVars => Foreign
  <2> SUFFICES ASSUME TabsInv, [TabsNext]_tabVars PROVE Foreign
    OBVIOUS
  <2>1. ASSUME NEW ts, NEW id, GoTo(ts, id) PROVE Foreign
    <3>1. Kind(ts, id) = "editor" => id \in QueryTabs
      BY DEF Kind
    <3> QED  BY <2>1, <3>1 DEF GoTo, TabsInv, StoredResultIsTheTabs
  <2>2. ASSUME NEW run \in runs, RunAnswered(run) \/ RunFailed(run) PROVE Foreign
    BY <2>2 DEF RunAnswered, RunFailed
  <2> QED  BY <2>1, <2>2, TabSteps
<1> QED  BY <1>1, TabsInvariant, PTL DEF TabsSpec, ForeignResultIsALateAnswer

\* Staged edits come under another table's name by a direct switch only.
THEOREM EditsMoveOnDirectSwitches == TabsSpec => EditsMoveOnDirectSwitchOnly
<1> DEFINE Moved ==
      tabEdits \subseteq {active} /\ ~(tabEdits' \subseteq {active'})
        => /\ tabEdits' = tabEdits
           /\ {active, active'} \subseteq TableTabs /\ active \in ToSet(tabs)
<1>1. TabsInv /\ [TabsNext]_tabVars => Moved
  <2> SUFFICES ASSUME TabsInv, [TabsNext]_tabVars PROVE Moved
    OBVIOUS
  <2>1. tabEdits # {} => active \in TableTabs /\ active \in ToSet(tabs)
    <3>1. Mounted = "table" => active \in TableTabs /\ active \in ToSet(tabs)
      BY DEF Mounted, Kind
    <3> QED  BY <3>1 DEF TabsInv, EditsHaveAView
  <2>2. ASSUME NEW ts, NEW id, GoTo(ts, id) PROVE Moved
    <3>1. Kind(ts, id) = "table" => id \in TableTabs
      BY DEF Kind
    <3> QED  BY <2>1, <2>2, <3>1 DEF GoTo
  <2>3. ASSUME NEW run \in runs, RunAnswered(run) \/ RunFailed(run) PROVE Moved
    BY <2>3 DEF RunAnswered, RunFailed
  <2> QED  BY <2>2, <2>3, TabSteps
<1> QED  BY <1>1, TabsInvariant, PTL DEF TabsSpec, EditsMoveOnDirectSwitchOnly

-----------------------------------------------------------------------------
(* Tabs: which of them are open, whichever are closed and moved. *)

\* The places of a sequence of n members are n, and one more member has the next place.
LEMMA IntervalFacts ==
  ASSUME NEW n \in Nat
  PROVE  /\ IsFiniteSet(1..n) /\ Cardinality(1..n) = n
         /\ 1..n + 1 = 1..n \cup {n + 1}
<1>1. IsFiniteSet(1..n) /\ Cardinality(1..n) = IF 1 > n THEN 0 ELSE n - 1 + 1
  BY FS_Interval
<1>2. QED
  BY <1>1

\* Append puts one member after the others, which stay where they are.
LEMMA AppendFacts ==
  ASSUME NEW S, NEW s \in Seq(S), NEW x \in S
  PROVE  /\ Append(s, x) \in Seq(S) /\ Len(Append(s, x)) = Len(s) + 1 /\ Len(s) \in Nat
         /\ \A i \in 1..Len(s) : Append(s, x)[i] = s[i]
         /\ Append(s, x)[Len(s) + 1] = x
OBVIOUS

\* The places of some tabs are a finite set of positions, one of which is the first.
LEMMA PlacesFinite ==
  ASSUME NEW S, NEW ts \in Seq(S), NEW kept
  PROVE  /\ Places(ts, kept) \subseteq 1..Len(ts) /\ IsFiniteSet(Places(ts, kept))
         /\ Cardinality(Places(ts, kept)) \in Nat
         /\ Cardinality(Places(ts, kept)) = 0 <=> Places(ts, kept) = {}
<1>1. DOMAIN ts = 1..Len(ts) /\ Len(ts) \in Nat
  OBVIOUS
<1>2. Places(ts, kept) \in SUBSET (1..Len(ts))
  BY <1>1 DEF Places
<1>3. IsFiniteSet(1..Len(ts))
  BY <1>1, FS_Interval
<1>4. QED
  BY <1>2, <1>3, FS_Subset, FS_CardinalityType, FS_EmptySet

\* A filter keeps exactly the tabs asked for, in places of their own.
LEMMA FilterFacts ==
  ASSUME NEW S, NEW ts \in Seq(S), NEW kept
  PROVE  /\ Filter(ts, kept) \in Seq(S)
         /\ ToSet(Filter(ts, kept)) = ToSet(ts) \cap kept
         /\ IsInjective(ts) => IsInjective(Filter(ts, kept))
<1> DEFINE at == Places(ts, kept)
           upto(i) == {j \in at : j <= i}
           size(i) == Cardinality(upto(i))
           n == Cardinality(at)
           count == [i \in at |-> size(i)]
           Nth(m) == CHOOSE i \in at : size(i) = m
<1>1. /\ at \subseteq 1..Len(ts) /\ IsFiniteSet(at) /\ n \in Nat
      /\ DOMAIN ts = 1..Len(ts) /\ Len(ts) \in Nat
      /\ at = {i \in DOMAIN ts : ts[i] \in kept}
  BY PlacesFinite DEF Places
<1>2. Filter(ts, kept) = [m \in 1..n |-> ts[Nth(m)]]
  BY DEF Filter
<1> HIDE DEF at, n
<1>3. ASSUME NEW i \in at
      PROVE  IsFiniteSet(upto(i)) /\ size(i) \in 1..n
  <2>1. i \in upto(i) /\ upto(i) \in SUBSET at
    BY <1>1
  <2> HIDE DEF upto
  <2>2. IsFiniteSet(upto(i)) /\ Cardinality(upto(i)) <= n
    BY <1>1, <2>1, FS_Subset DEF n
  <2>3. Cardinality(upto(i)) \in Nat /\ Cardinality(upto(i)) # 0
    BY <2>1, <2>2, FS_CardinalityType, FS_EmptySet
  <2>4. QED
    BY <1>1, <2>2, <2>3
<1>4. ASSUME NEW i \in at, NEW j \in at, i < j
      PROVE  size(i) < size(j)
  <2>1. upto(i) \in SUBSET upto(j) /\ j \in upto(j) /\ j \notin upto(i)
    BY <1>1, <1>4
  <2>2. IsFiniteSet(upto(j)) /\ size(i) \in 1..n /\ size(j) \in 1..n
    BY <1>3
  <2> HIDE DEF upto
  <2>3. size(i) <= size(j) /\ size(i) # size(j)
    BY <2>1, <2>2, FS_Subset
  <2> HIDE DEF size
  <2>4. QED
    BY <1>1, <2>2, <2>3
<1> HIDE DEF upto, size
<1>5. \A i, j \in at : size(i) = size(j) => i = j
  <2>1. ASSUME NEW i \in at, NEW j \in at, size(i) = size(j), i # j
        PROVE  FALSE
    <3>1. i \in Nat /\ j \in Nat /\ size(i) \in Nat /\ size(j) \in Nat
      BY <1>1, <1>3
    <3>2. (i < j => size(i) < size(j)) /\ (j < i => size(j) < size(i))
      BY <1>4
    <3>3. QED
      BY <2>1, <3>1, <3>2
  <2>2. QED
    BY <2>1
<1>6. count \in Injection(at, 1..n)
  <2>1. count \in [at -> 1..n]
    BY <1>3
  <2>2. IsInjective(count)
    BY <1>5 DEF IsInjective
  <2> QED  BY <2>1, <2>2 DEF Injection
<1>7. IsFiniteSet(1..n) /\ Cardinality(1..n) = n
  BY <1>1, IntervalFacts
<1>8. \A m \in 1..n : \E i \in at : size(i) = m
  <2>1. count \in Surjection(at, 1..n)
    BY <1>6, <1>7, FS_Injection DEF n
  <2>2. QED
    BY <2>1 DEF Surjection
<1>9. \A m \in 1..n : Nth(m) \in at /\ size(Nth(m)) = m
  BY <1>8
<1>10. \A i \in at : size(i) \in 1..n /\ Nth(size(i)) = i
  BY <1>3, <1>5, <1>9
<1> HIDE DEF count, Nth
<1>11. \A m \in 1..n : ts[Nth(m)] \in S /\ ts[Nth(m)] \in kept /\ Nth(m) \in DOMAIN ts
  BY <1>1, <1>9
<1>12. Filter(ts, kept) \in Seq(S) /\ DOMAIN Filter(ts, kept) = 1..n
  BY <1>1, <1>2, <1>11
<1>13. ToSet(Filter(ts, kept)) = ToSet(ts) \cap kept
  <2>1. ToSet(Filter(ts, kept)) = {ts[Nth(m)] : m \in 1..n}
    BY <1>2, <1>12 DEF ToSet
  <2>2. ASSUME NEW i \in DOMAIN ts, ts[i] \in kept
        PROVE  \E m \in 1..n : ts[i] = ts[Nth(m)]
    <3>1. i \in at
      BY <1>1, <2>2
    <3>2. size(i) \in 1..n /\ Nth(size(i)) = i
      BY <1>10, <3>1
    <3>3. QED
      BY <3>2
  <2>3. QED
    BY <1>11, <2>1, <2>2 DEF ToSet
<1>14. ASSUME IsInjective(ts), NEW k \in 1..n, NEW m \in 1..n, ts[Nth(k)] = ts[Nth(m)]
       PROVE  k = m
  <2>1. Nth(k) = Nth(m)
    BY <1>11, <1>14 DEF IsInjective
  <2>2. QED
    BY <1>9, <2>1
<1>15. QED
  BY <1>2, <1>12, <1>13, <1>14 DEF IsInjective

\* The tabs run out of query tabs when none is left, and the only one is like no other.
LEMMA QueryCounts ==
  ASSUME NEW S, NEW ts \in Seq(S)
  PROVE  /\ QueryCount(ts) \in Nat
         /\ QueryCount(ts) = 0 <=> ToSet(ts) \cap QueryTabs = {}
         /\ \A id : QueryCount(ts) > 1 /\ IsInjective(ts) =>
              \E q \in ToSet(ts) \cap QueryTabs : q # id
<1> DEFINE at == Places(ts, QueryTabs)
<1>1. /\ IsFiniteSet(at) /\ Cardinality(at) \in Nat
      /\ Cardinality(at) = 0 <=> at = {}
      /\ QueryCount(ts) = Cardinality(at)
  BY PlacesFinite DEF QueryCount
<1>2. at = {} <=> ToSet(ts) \cap QueryTabs = {}
  BY DEF Places, ToSet
<1>3. ASSUME NEW id, Cardinality(at) > 1, IsInjective(ts)
      PROVE  \E q \in ToSet(ts) \cap QueryTabs : q # id
  <2>1. PICK i \in at : TRUE
    BY <1>1, <1>3
  <2>2. at # {i}
    <3>1. Cardinality({i}) = 1
      BY FS_Singleton
    <3>2. Cardinality(at) # 1
      <4> HIDE DEF at
      <4> QED  BY <1>1, <1>3
    <3>3. QED
      BY <3>1, <3>2, Zenon
  <2>3. PICK j \in at : j # i
    BY <2>1, <2>2
  <2>4. /\ ts[i] \in ToSet(ts) \cap QueryTabs /\ ts[j] \in ToSet(ts) \cap QueryTabs
        /\ i \in DOMAIN ts /\ j \in DOMAIN ts
    BY <2>1, <2>3 DEF Places, ToSet
  <2>5. ts[i] # ts[j]
    BY <1>3, <2>3, <2>4 DEF IsInjective
  <2>6. QED
    BY <2>4, <2>5
<1>4. ASSUME NEW id, QueryCount(ts) > 1, IsInjective(ts)
      PROVE  \E q \in ToSet(ts) \cap QueryTabs : q # id
  <2>1. Cardinality(at) > 1
    <3> HIDE DEF at
    <3> QED  BY <1>1, <1>4
  <2>2. QED
    BY <1>3, <1>4, <2>1
<1>5. QueryCount(ts) \in Nat /\ (QueryCount(ts) = 0 <=> ToSet(ts) \cap QueryTabs = {})
  BY <1>1, <1>2, Zenon
<1>6. QED
  BY <1>4, <1>5

\* A tab put at the end is one more.
LEMMA TabAppended ==
  ASSUME NEW S, NEW ts \in Seq(S), NEW id \in S
  PROVE  /\ Append(ts, id) \in Seq(S) /\ ToSet(Append(ts, id)) = ToSet(ts) \cup {id}
         /\ Append(ts, id) # <<>>
         /\ IsInjective(ts) /\ id \notin ToSet(ts) => IsInjective(Append(ts, id))
<1>1. /\ Append(ts, id) \in Seq(S) /\ Append(ts, id) # <<>>
      /\ DOMAIN Append(ts, id) = 1..(Len(ts) + 1) /\ DOMAIN ts = 1..Len(ts) /\ Len(ts) \in Nat
      /\ \A i \in 1..Len(ts) : Append(ts, id)[i] = ts[i]
      /\ Append(ts, id)[Len(ts) + 1] = id
  BY AppendProperties, LenProperties
<1> DEFINE longer == Append(ts, id)
<1> HIDE DEF longer
<1>2. ToSet(longer) = ToSet(ts) \cup {id}
  BY <1>1 DEF ToSet, longer
<1>3. ASSUME IsInjective(ts), id \notin ToSet(ts) PROVE IsInjective(longer)
  <2>1. ASSUME NEW i \in DOMAIN longer, NEW j \in DOMAIN longer, longer[i] = longer[j]
        PROVE  i = j
    <3>1. \A k \in 1..Len(ts) : ts[k] # id
      BY <1>1, <1>3 DEF ToSet
    <3>2. QED
      BY <1>1, <1>3, <2>1, <3>1 DEF IsInjective, longer
  <2>2. QED
    BY <2>1 DEF IsInjective
<1>4. QED
  BY <1>1, <1>2, <1>3 DEF longer

\* A part of a sequence, two parts put together, and what comes of taking one tab out
\* and of putting one in.
LEMMA Part ==
  ASSUME NEW S, NEW ts \in Seq(S), NEW a \in 1..(Len(ts) + 1), NEW b \in (a - 1)..Len(ts)
  PROVE  /\ SubSeq(ts, a, b) \in Seq(S) /\ Len(SubSeq(ts, a, b)) = b - a + 1
         /\ \A k \in 1..(b - a + 1) : SubSeq(ts, a, b)[k] = ts[k + a - 1]
<1>1. Len(ts) \in Nat /\ a \in Int /\ b \in Int /\ a <= b + 1 /\ 1 <= a /\ b <= Len(ts)
  BY LenProperties
<1>2. \A k \in a..b : ts[k] \in S
  BY <1>1, ElementOfSeq
<1>3. /\ SubSeq(ts, a, b) \in Seq(S) /\ Len(SubSeq(ts, a, b)) = IF a <= b THEN b - a + 1 ELSE 0
      /\ \A k \in 1..(b - a + 1) : SubSeq(ts, a, b)[k] = ts[a + k - 1]
  BY <1>1, <1>2, SubSeqProperties
<1>4. (IF a <= b THEN b - a + 1 ELSE 0) = b - a + 1
  BY <1>1
<1>5. \A k \in 1..(b - a + 1) : a + k - 1 = k + a - 1
  BY <1>1
<1>6. QED
  BY <1>3, <1>4, <1>5, Zenon

LEMMA TwoParts ==
  ASSUME NEW S, NEW p \in Seq(S), NEW q \in Seq(S)
  PROVE  /\ p \o q \in Seq(S) /\ Len(p \o q) = Len(p) + Len(q)
         /\ \A k \in 1..Len(p) : (p \o q)[k] = p[k]
         /\ \A k \in 1..Len(q) : (p \o q)[Len(p) + k] = q[k]
<1>1. Len(p) \in Nat /\ Len(q) \in Nat
  BY LenProperties
<1>2. /\ p \o q \in Seq(S) /\ Len(p \o q) = Len(p) + Len(q)
      /\ \A k \in 1..(Len(p) + Len(q)) : (p \o q)[k] = IF k <= Len(p) THEN p[k] ELSE q[k - Len(p)]
  BY ConcatProperties
<1>3. ASSUME NEW k \in 1..Len(p) PROVE (p \o q)[k] = p[k]
  <2>1. k \in 1..(Len(p) + Len(q)) /\ k <= Len(p)
    BY <1>1
  <2>2. QED
    BY <1>2, <2>1, Zenon
<1>4. ASSUME NEW k \in 1..Len(q) PROVE (p \o q)[Len(p) + k] = q[k]
  <2>1. Len(p) + k \in 1..(Len(p) + Len(q)) /\ ~(Len(p) + k <= Len(p)) /\ Len(p) + k - Len(p) = k
    BY <1>1
  <2>2. (p \o q)[Len(p) + k]
          = IF Len(p) + k <= Len(p) THEN p[Len(p) + k] ELSE q[Len(p) + k - Len(p)]
    BY <1>2, <2>1
  <2>3. QED
    BY <2>1, <2>2
<1>5. QED
  BY <1>2, <1>3, <1>4, Zenon

LEMMA TabTakenOut ==
  ASSUME NEW S, NEW ts \in Seq(S), NEW i \in 1..Len(ts)
  PROVE  /\ RemoveAt(ts, i) \in Seq(S) /\ Len(RemoveAt(ts, i)) = Len(ts) - 1
         /\ \A k \in 1..(i - 1) : RemoveAt(ts, i)[k] = ts[k]
         /\ \A k \in i..(Len(ts) - 1) : RemoveAt(ts, i)[k] = ts[k + 1]
<1> DEFINE p == SubSeq(ts, 1, i - 1)
           q == SubSeq(ts, i + 1, Len(ts))
<1>1. Len(ts) \in Nat
  BY LenProperties
<1>2. p \in Seq(S) /\ Len(p) = i - 1 - 1 + 1 /\ \A k \in 1..(i - 1 - 1 + 1) : p[k] = ts[k + 1 - 1]
  <2>1. 1 \in 1..(Len(ts) + 1) /\ i - 1 \in (1 - 1)..Len(ts)
    BY <1>1
  <2>2. QED
    BY <2>1, Part
<1>3. /\ q \in Seq(S) /\ Len(q) = Len(ts) - (i + 1) + 1
      /\ \A k \in 1..(Len(ts) - (i + 1) + 1) : q[k] = ts[k + (i + 1) - 1]
  <2>1. i + 1 \in 1..(Len(ts) + 1) /\ Len(ts) \in (i + 1 - 1)..Len(ts)
    BY <1>1
  <2>2. QED
    BY <2>1, Part
<1>4. RemoveAt(ts, i) = p \o q
  BY DEF RemoveAt
<1> HIDE DEF p, q
<1>5. /\ p \o q \in Seq(S) /\ Len(p \o q) = Len(p) + Len(q)
      /\ \A k \in 1..Len(p) : (p \o q)[k] = p[k]
      /\ \A k \in 1..Len(q) : (p \o q)[Len(p) + k] = q[k]
  <2>1. p \in Seq(S) /\ q \in Seq(S)
    BY <1>2, <1>3
  <2>2. QED
    BY <2>1, TwoParts
<1>6. Len(p) = i - 1 /\ Len(q) = Len(ts) - i
  BY <1>1, <1>2, <1>3
<1>7. ASSUME NEW k \in 1..(i - 1) PROVE (p \o q)[k] = ts[k]
  <2>1. k \in 1..Len(p) /\ k \in 1..(i - 1 - 1 + 1) /\ k + 1 - 1 = k
    BY <1>1, <1>6
  <2>2. QED
    BY <1>2, <1>5, <2>1, Zenon
<1>8. ASSUME NEW k \in i..(Len(ts) - 1) PROVE (p \o q)[k] = ts[k + 1]
  <2> DEFINE m == k - (i - 1)
  <2>1. /\ m \in 1..Len(q) /\ m \in 1..(Len(ts) - (i + 1) + 1)
        /\ Len(p) + m = k /\ m + (i + 1) - 1 = k + 1
    BY <1>1, <1>6
  <2> HIDE DEF m
  <2>2. (p \o q)[Len(p) + m] = q[m] /\ q[m] = ts[m + (i + 1) - 1]
    BY <1>3, <1>5, <2>1, Zenon
  <2>3. QED
    BY <2>1, <2>2, Zenon
<1>9. Len(p) + Len(q) = Len(ts) - 1
  BY <1>1, <1>6
<1>10. QED
  BY <1>4, <1>5, <1>7, <1>8, <1>9, Zenon

LEMMA TabPutIn ==
  ASSUME NEW S, NEW ts \in Seq(S), NEW j \in 1..(Len(ts) + 1), NEW e \in S
  PROVE  /\ InsertAt(ts, j, e) \in Seq(S) /\ Len(InsertAt(ts, j, e)) = Len(ts) + 1
         /\ \A k \in 1..(j - 1) : InsertAt(ts, j, e)[k] = ts[k]
         /\ InsertAt(ts, j, e)[j] = e
         /\ \A k \in j..Len(ts) : InsertAt(ts, j, e)[k + 1] = ts[k]
<1> DEFINE p == SubSeq(ts, 1, j - 1)
           q == SubSeq(ts, j, Len(ts))
           r == p \o <<e>>
<1>1. Len(ts) \in Nat
  BY LenProperties
<1>2. p \in Seq(S) /\ Len(p) = j - 1 - 1 + 1 /\ \A k \in 1..(j - 1 - 1 + 1) : p[k] = ts[k + 1 - 1]
  <2>1. 1 \in 1..(Len(ts) + 1) /\ j - 1 \in (1 - 1)..Len(ts)
    BY <1>1
  <2>2. QED
    BY <2>1, Part
<1>3. /\ q \in Seq(S) /\ Len(q) = Len(ts) - j + 1
      /\ \A k \in 1..(Len(ts) - j + 1) : q[k] = ts[k + j - 1]
  <2>1. j \in 1..(Len(ts) + 1) /\ Len(ts) \in (j - 1)..Len(ts)
    BY <1>1
  <2>2. QED
    BY <2>1, Part
<1>4. InsertAt(ts, j, e) = r \o q
  BY DEF InsertAt
<1>5. <<e>> \in Seq(S) /\ Len(<<e>>) = 1 /\ <<e>>[1] = e
  OBVIOUS
<1> DEFINE one == <<e>>
<1> HIDE DEF p, q
<1>6. /\ r \in Seq(S) /\ Len(r) = Len(p) + 1
      /\ \A k \in 1..Len(p) : r[k] = p[k]
      /\ r[Len(p) + 1] = e
  <2>1. one \in Seq(S) /\ Len(one) = 1 /\ one[1] = e
    BY <1>5
  <2> HIDE DEF one
  <2>2. /\ p \o one \in Seq(S) /\ Len(p \o one) = Len(p) + Len(one)
        /\ \A k \in 1..Len(p) : (p \o one)[k] = p[k]
        /\ \A k \in 1..Len(one) : (p \o one)[Len(p) + k] = one[k]
    <3>1. p \in Seq(S) /\ one \in Seq(S)
      BY <1>2, <2>1
    <3>2. QED
      BY <3>1, TwoParts
  <2>3. 1 \in 1..1
    OBVIOUS
  <2>4. QED
    BY <2>1, <2>2, <2>3, Zenon DEF one
<1> HIDE DEF r
<1>7. /\ r \o q \in Seq(S) /\ Len(r \o q) = Len(r) + Len(q)
      /\ \A k \in 1..Len(r) : (r \o q)[k] = r[k]
      /\ \A k \in 1..Len(q) : (r \o q)[Len(r) + k] = q[k]
  <2>1. r \in Seq(S) /\ q \in Seq(S)
    BY <1>3, <1>6
  <2>2. QED
    BY <2>1, TwoParts
<1>8. Len(p) = j - 1 /\ Len(r) = j /\ Len(q) = Len(ts) - j + 1
  BY <1>1, <1>2, <1>3, <1>6
<1>9. ASSUME NEW k \in 1..(j - 1) PROVE (r \o q)[k] = ts[k]
  <2>1. k \in 1..Len(r) /\ k \in 1..Len(p) /\ k \in 1..(j - 1 - 1 + 1) /\ k + 1 - 1 = k
    BY <1>1, <1>8
  <2>2. QED
    BY <1>2, <1>6, <1>7, <2>1, Zenon
<1>10. (r \o q)[j] = e
  <2>1. j \in 1..Len(r) /\ Len(p) + 1 = j
    BY <1>1, <1>8
  <2>2. QED
    BY <1>6, <1>7, <2>1, Zenon
<1>11. ASSUME NEW k \in j..Len(ts) PROVE (r \o q)[k + 1] = ts[k]
  <2> DEFINE m == k + 1 - j
  <2>1. /\ m \in 1..Len(q) /\ m \in 1..(Len(ts) - j + 1)
        /\ Len(r) + m = k + 1 /\ m + j - 1 = k
    BY <1>1, <1>8
  <2> HIDE DEF m
  <2>2. (r \o q)[Len(r) + m] = q[m] /\ q[m] = ts[m + j - 1]
    BY <1>3, <1>7, <2>1, Zenon
  <2>3. QED
    BY <2>1, <2>2, Zenon
<1>12. Len(r) + Len(q) = Len(ts) + 1
  BY <1>1, <1>8
<1>13. QED
  BY <1>4, <1>7, <1>9, <1>10, <1>11, <1>12, Zenon

\* A tab moved to another place: the same tabs.
LEMMA TabMoved ==
  ASSUME NEW S, NEW ts \in Seq(S), NEW i \in DOMAIN ts, NEW j \in DOMAIN ts
  PROVE  LET moved == InsertAt(RemoveAt(ts, i), j, ts[i])
         IN  /\ moved \in Seq(S) /\ ToSet(moved) = ToSet(ts)
             /\ IsInjective(ts) => IsInjective(moved)
<1> DEFINE rest == RemoveAt(ts, i)
           moved == InsertAt(rest, j, ts[i])
           n == Len(ts)
<1>1. n \in Nat /\ DOMAIN ts = 1..n /\ i \in 1..n /\ j \in 1..n /\ ts[i] \in S
  BY LenProperties, ElementOfSeq
<1>2. /\ rest \in Seq(S) /\ Len(rest) = n - 1
      /\ \A k \in 1..(i - 1) : rest[k] = ts[k]
      /\ \A k \in i..(n - 1) : rest[k] = ts[k + 1]
  BY <1>1, TabTakenOut
<1> HIDE DEF rest
<1>3. /\ moved \in Seq(S) /\ Len(moved) = Len(rest) + 1
      /\ \A k \in 1..(j - 1) : moved[k] = rest[k]
      /\ moved[j] = ts[i]
      /\ \A k \in j..Len(rest) : moved[k + 1] = rest[k]
  <2>1. j \in 1..(Len(rest) + 1) /\ rest \in Seq(S) /\ ts[i] \in S
    BY <1>1, <1>2
  <2>2. QED
    BY <2>1, TabPutIn
<1> HIDE DEF moved, n
<1>4. Len(moved) = n /\ DOMAIN moved = 1..n
  <2>1. Len(rest) + 1 = n
    BY <1>1, <1>2
  <2>2. QED
    BY <1>3, <2>1, LenProperties, Zenon
<1> DEFINE at(r) == IF r < i THEN r ELSE r + 1
           was(k) == IF k = j THEN i ELSE at(IF k < j THEN k ELSE k - 1)
<1>5. \A r \in 1..(n - 1) : at(r) \in 1..n /\ at(r) # i /\ rest[r] = ts[at(r)]
  <2>1. ASSUME NEW r \in 1..(n - 1) PROVE at(r) \in 1..n /\ at(r) # i
    BY <1>1
  <2>2. ASSUME NEW r \in 1..(n - 1) PROVE rest[r] = ts[at(r)]
    <3>1. (r < i => r \in 1..(i - 1)) /\ (~(r < i) => r \in i..(n - 1))
      BY <1>1
    <3>2. QED
      BY <1>2, <3>1 DEF n
  <2>3. QED
    BY <2>1, <2>2
<1>6. \A r, t \in 1..(n - 1) : at(r) = at(t) => r = t
  BY <1>1
<1>7. \A m \in 1..n : m # i => \E r \in 1..(n - 1) : at(r) = m
  <2>1. ASSUME NEW m \in 1..n, m # i PROVE \E r \in 1..(n - 1) : at(r) = m
    <3>1. CASE m < i
      <4>1. m \in 1..(n - 1) /\ at(m) = m
        BY <1>1, <3>1
      <4>2. QED
        BY <4>1
    <3>2. CASE m > i
      <4>1. m - 1 \in 1..(n - 1) /\ at(m - 1) = m
        BY <1>1, <3>2
      <4>2. QED
        BY <4>1
    <3>3. QED
      BY <1>1, <2>1, <3>1, <3>2
  <2>2. QED
    BY <2>1
<1> HIDE DEF at
<1>8. ASSUME NEW k \in 1..n, k # j
      PROVE  \E r \in 1..(n - 1) : /\ r = IF k < j THEN k ELSE k - 1
                                   /\ moved[k] = rest[r] /\ was(k) = at(r)
  <2>1. CASE k < j
    <3>1. k \in 1..(n - 1) /\ k \in 1..(j - 1)
      BY <1>1, <2>1
    <3>2. QED
      BY <1>3, <1>8, <2>1, <3>1
  <2>2. CASE k > j
    <3>1. k - 1 \in 1..(n - 1) /\ k - 1 \in j..Len(rest) /\ k - 1 + 1 = k /\ ~(k < j)
      BY <1>1, <1>2, <2>2
    <3>2. moved[k] = rest[k - 1] /\ was(k) = at(k - 1)
      BY <1>3, <1>8, <3>1, Zenon
    <3>3. QED
      BY <3>1, <3>2
  <2>3. QED
    BY <1>1, <1>8, <2>1, <2>2
<1>9. was(j) = i
  OBVIOUS
<1>10. \A k \in 1..n : was(k) \in 1..n /\ moved[k] = ts[was(k)]
  <2>1. ASSUME NEW k \in 1..n, k # j PROVE was(k) \in 1..n /\ moved[k] = ts[was(k)]
    BY <1>5, <1>8, <2>1, Zenon
  <2>2. QED
    BY <1>1, <1>3, <1>9, <2>1, Zenon
<1>11. \A k, m \in 1..n : was(k) = was(m) => k = m
  <2>1. ASSUME NEW k \in 1..n, k # j PROVE was(k) # i
    BY <1>5, <1>8, <2>1, Zenon
  <2>2. ASSUME NEW k \in 1..n, NEW m \in 1..n, k # j, m # j, was(k) = was(m) PROVE k = m
    <3>1. PICK r \in 1..(n - 1) : r = (IF k < j THEN k ELSE k - 1) /\ was(k) = at(r)
      BY <1>8, <2>2, Zenon
    <3>2. PICK t \in 1..(n - 1) : t = (IF m < j THEN m ELSE m - 1) /\ was(m) = at(t)
      BY <1>8, <2>2, Zenon
    <3>3. r = t
      BY <1>6, <2>2, <3>1, <3>2, Zenon
    <3> HIDE DEF was
    <3>4. QED
      BY <1>1, <2>2, <3>1, <3>2, <3>3
  <2> HIDE DEF was
  <2>3. QED
    BY <1>9, <2>1, <2>2, Zenon
<1>12. \A m \in 1..n : \E k \in 1..n : was(k) = m
  <2>1. ASSUME NEW m \in 1..n, m # i PROVE \E k \in 1..n : was(k) = m
    <3>1. PICK r \in 1..(n - 1) : at(r) = m
      BY <1>7, <2>1, Zenon
    <3>2. CASE r < j
      <4>1. r \in 1..n /\ r # j
        BY <1>1, <3>2
      <4>2. was(r) = at(r)
        BY <3>2, <4>1, Zenon
      <4>3. QED
        BY <3>1, <4>1, <4>2, Zenon
    <3>3. CASE ~(r < j)
      <4>1. r + 1 \in 1..n /\ r + 1 # j /\ ~(r + 1 < j) /\ r + 1 - 1 = r
        BY <1>1, <3>3
      <4>2. was(r + 1) = at(r)
        <5>1. (IF r + 1 < j THEN r + 1 ELSE r + 1 - 1) = r
          BY <4>1, Zenon
        <5>2. QED
          BY <4>1, <5>1
      <4>3. QED
        BY <3>1, <4>1, <4>2, Zenon
    <3>4. QED
      BY <3>2, <3>3, Zenon
  <2> HIDE DEF was
  <2>2. QED
    BY <1>1, <1>9, <2>1, Zenon
<1> HIDE DEF was
<1>13. ToSet(moved) = ToSet(ts)
  <2>1. \A m \in 1..n : \E k \in 1..n : ts[m] = moved[k]
    BY <1>10, <1>12, Zenon
  <2>2. QED
    <3>1. ToSet(moved) = {moved[k] : k \in 1..n} /\ ToSet(ts) = {ts[m] : m \in 1..n}
      BY <1>1, <1>4, Zenon DEF ToSet
    <3>2. \A k \in 1..n : \E m \in 1..n : moved[k] = ts[m]
      BY <1>10, Zenon
    <3>3. QED
      BY <2>1, <3>1, <3>2, Zenon
<1>14. ASSUME IsInjective(ts) PROVE IsInjective(moved)
  <2>1. ASSUME NEW k \in 1..n, NEW m \in 1..n, moved[k] = moved[m] PROVE k = m
    <3>1. was(k) = was(m)
      BY <1>1, <1>10, <1>14, <2>1, Zenon DEF IsInjective
    <3>2. QED
      BY <1>11, <3>1, Zenon
  <2>2. QED
    BY <1>4, <2>1, Zenon DEF IsInjective
<1>15. QED
  BY <1>3, <1>13, <1>14, Zenon DEF moved, rest

\* A query tab stays open, or the active one goes, closed as it is by the shortcut.
QueryStays ==
  ToSet(tabs) \cap QueryTabs # {} =>
    \/ ToSet(tabs') \cap QueryTabs # {}
    \/ active \in QueryTabs /\ tabs' = Without(active)

LEMMA EndsOfTabs ==
  ASSUME NEW S, NEW ts \in Seq(S), ts # <<>>
  PROVE  Last(ts) \in ToSet(ts) /\ Head(ts) \in ToSet(ts)
<1>1. Len(ts) \in Nat /\ Len(ts) # 0 /\ DOMAIN ts = 1..Len(ts)
  BY LenProperties, EmptySeq
<1>2. Len(ts) \in DOMAIN ts /\ 1 \in DOMAIN ts /\ Head(ts) = ts[1]
  BY <1>1
<1>3. QED
  BY <1>2 DEF Last, ToSet

LEMMA NoTabsOpen == ToSet(<<>>) = {}
  BY DEF ToSet

LEMMA FilteredTabs ==
  ASSUME TabsFit, NEW kept
  PROVE  /\ Filter(tabs, kept) \in Seq(Ids) /\ IsInjective(Filter(tabs, kept))
         /\ ToSet(Filter(tabs, kept)) = ToSet(tabs) \cap kept
         /\ ToSet(tabs) \subseteq Ids
<1>1. tabs \in Seq(Ids) /\ IsInjective(tabs)
  BY DEF TabsFit
<1>2. /\ Filter(tabs, kept) \in Seq(Ids) /\ IsInjective(Filter(tabs, kept))
      /\ ToSet(Filter(tabs, kept)) = ToSet(tabs) \cap kept
  BY <1>1, FilterFacts
<1>3. ToSet(tabs) \subseteq Ids
  BY <1>1 DEF ToSet
<1>4. QED
  BY <1>2, <1>3

LEMMA TabsGoneTo ==
  ASSUME TabsFit, NEW ts, NEW id, GoTo(ts, id),
         ts \in Seq(Ids), IsInjective(ts), ts # <<>> => id \in ToSet(ts),
         used' \subseteq QueryTabs, ToSet(ts) \cap QueryTabs \subseteq used'
  PROVE  TabsFit' /\ tabs' = ts /\ active' = id
<1>1. tabs' = ts /\ active' = id
  BY DEF GoTo
<1>2. QED
  BY <1>1 DEF TabsFit, Open

LEMMA TabClosed ==
  ASSUME TabsFit, NEW id, Close(id), used' = used
  PROVE  TabsFit' /\ tabs' = Without(id) /\ ToSet(tabs') = ToSet(tabs) \ {id}
<1> DEFINE ts == Without(id)
           next == IF id = active /\ ts # <<>> THEN Last(ts) ELSE active
<1>1. ts \in Seq(Ids) /\ IsInjective(ts) /\ ToSet(ts) = ToSet(tabs) \ {id}
  <2>1. /\ ts \in Seq(Ids) /\ IsInjective(ts) /\ ToSet(ts) = ToSet(tabs) \cap (Ids \ {id})
        /\ ToSet(tabs) \subseteq Ids
    BY FilteredTabs DEF Without
  <2> HIDE DEF ts
  <2>2. QED
    BY <2>1
<1>2. GoTo(ts, next)
  BY DEF Close
<1> HIDE DEF ts
<1>3. ts # <<>> => next \in ToSet(ts)
  <2>1. ASSUME ts # <<>>, id # active PROVE active \in ToSet(ts)
    <3>1. Last(ts) \in ToSet(ts)
      BY <1>1, <2>1, EndsOfTabs
    <3>2. tabs # <<>>
      BY <1>1, <3>1, NoTabsOpen
    <3>3. QED
      BY <1>1, <2>1, <3>2 DEF TabsFit, Open
  <2>2. QED
    BY <1>1, <2>1, EndsOfTabs
<1>4. used' \subseteq QueryTabs /\ ToSet(ts) \cap QueryTabs \subseteq used'
  BY <1>1 DEF TabsFit
<1> HIDE DEF next
<1>5. TabsFit' /\ tabs' = ts
  BY <1>1, <1>2, <1>3, <1>4, TabsGoneTo
<1>6. QED
  BY <1>1, <1>5 DEF ts

LEMMA TabsClosed ==
  ASSUME TabsFit, NEW kept, ApplyClose(kept), used' = used
  PROVE  TabsFit' /\ (ToSet(tabs) \cap QueryTabs # {} => ToSet(tabs') \cap QueryTabs # {})
<1> DEFINE some == Filter(tabs, kept)
           editors == Filter(tabs, QueryTabs)
           first == IF editors = <<>> THEN {} ELSE {Head(editors)}
           more == Filter(tabs, kept \cup first)
           ts == IF QueryCount(some) > 0 THEN some ELSE more
           next == IF active \in ToSet(ts) \/ ts = <<>> THEN active ELSE Last(ts)
<1>1. GoTo(ts, next)
  BY Zenon DEF ApplyClose
<1>2. /\ some \in Seq(Ids) /\ IsInjective(some) /\ ToSet(some) = ToSet(tabs) \cap kept
      /\ editors \in Seq(Ids) /\ ToSet(editors) = ToSet(tabs) \cap QueryTabs
      /\ more \in Seq(Ids) /\ IsInjective(more) /\ ToSet(more) = ToSet(tabs) \cap (kept \cup first)
  <2> HIDE DEF first
  <2>1. QED
    BY FilteredTabs
<1> HIDE DEF some, editors, more
<1>3. ASSUME ToSet(tabs) \cap QueryTabs # {} PROVE ToSet(ts) \cap QueryTabs # {}
  <2>1. CASE QueryCount(some) > 0
    BY <1>2, <2>1, QueryCounts
  <2>2. CASE ~(QueryCount(some) > 0)
    <3>1. editors # <<>>
      BY <1>2, <1>3, NoTabsOpen
    <3>2. Head(editors) \in ToSet(tabs) \cap QueryTabs /\ Head(editors) \in first
      BY <1>2, <3>1, EndsOfTabs
    <3>3. QED
      BY <1>2, <2>2, <3>2
  <2>3. QED
    BY <2>1, <2>2
<1>4. ts \in Seq(Ids) /\ IsInjective(ts) /\ ToSet(ts) \subseteq ToSet(tabs)
  BY <1>2
<1> HIDE DEF ts
<1>5. ts # <<>> => next \in ToSet(ts)
  BY <1>4, EndsOfTabs
<1>6. used' \subseteq QueryTabs /\ ToSet(ts) \cap QueryTabs \subseteq used'
  BY <1>4 DEF TabsFit
<1> HIDE DEF next
<1>7. TabsFit' /\ tabs' = ts
  BY <1>1, <1>4, <1>5, <1>6, TabsGoneTo
<1>8. QED
  BY <1>3, <1>7

\* Each action of the store keeps the tabs in order and a query tab among them.
LEMMA TabsStep ==
  ASSUME TabsFit, [TabsNext]_tabVars
  PROVE  TabsFit' /\ QueryStays
<1> USE DEF requests
<1>0. /\ tabs \in Seq(Ids) /\ IsInjective(tabs) /\ used \subseteq QueryTabs
      /\ tabs # <<>> => active \in ToSet(tabs)
      /\ ToSet(tabs) \cap QueryTabs \subseteq used
  BY DEF TabsFit, Open
<1>1. ASSUME NEW id \in TableTabs \cup OtherTabs, OpenTab(id) PROVE TabsFit' /\ QueryStays
  <2>1. id \in Ids /\ id \notin QueryTabs /\ used' = used
    BY <1>1, TabsAssumption DEF Ids, OpenTab
  <2>2. CASE id \in ToSet(tabs)
    <3>1. GoTo(tabs, id)
      BY <1>1, <2>2 DEF OpenTab, Open
    <3>2. TabsFit' /\ tabs' = tabs
      BY <1>0, <2>1, <2>2, <3>1, TabsGoneTo
    <3>3. QED
      BY <3>2 DEF QueryStays
  <2>3. CASE id \notin ToSet(tabs)
    <3> DEFINE ts == Append(tabs, id)
    <3>1. GoTo(ts, id)
      BY <1>1, <2>3 DEF OpenTab, Open
    <3>2. ts \in Seq(Ids) /\ ToSet(ts) = ToSet(tabs) \cup {id} /\ IsInjective(ts)
      BY <1>0, <2>1, <2>3, TabAppended
    <3> HIDE DEF ts
    <3>3. TabsFit' /\ tabs' = ts
      BY <1>0, <2>1, <3>1, <3>2, TabsGoneTo
    <3>4. QED
      BY <3>2, <3>3 DEF QueryStays
  <2>4. QED
    BY <2>2, <2>3
<1>2. ASSUME NEW id \in QueryTabs, NewQueryTab(id) PROVE TabsFit' /\ QueryStays
  <2> DEFINE ts == Append(tabs, id)
  <2>1. id \in Ids /\ id \notin ToSet(tabs) /\ used' = used \cup {id} /\ GoTo(ts, id)
    BY <1>0, <1>2 DEF Ids, NewQueryTab
  <2>2. ts \in Seq(Ids) /\ ToSet(ts) = ToSet(tabs) \cup {id} /\ IsInjective(ts)
    BY <1>0, <2>1, TabAppended
  <2> HIDE DEF ts
  <2>3. TabsFit' /\ tabs' = ts
    BY <1>0, <2>1, <2>2, TabsGoneTo
  <2>4. QED
    BY <2>2, <2>3 DEF QueryStays
<1>3. ASSUME NEW id, SelectTab(id) PROVE TabsFit' /\ QueryStays
  <2>1. GoTo(tabs, id) /\ id \in ToSet(tabs) /\ used' = used
    BY <1>3 DEF SelectTab, Open
  <2>2. TabsFit' /\ tabs' = tabs
    BY <1>0, <2>1, TabsGoneTo
  <2>3. QED
    BY <2>2 DEF QueryStays
<1>4. ASSUME LoadQuery PROVE TabsFit' /\ QueryStays
  <2> DEFINE editors == Filter(tabs, QueryTabs)
  <2>1. GoTo(tabs, Head(editors)) /\ editors # <<>> /\ used' = used
    BY <1>4 DEF LoadQuery
  <2>2. editors \in Seq(Ids) /\ ToSet(editors) = ToSet(tabs) \cap QueryTabs
    BY FilteredTabs
  <2> HIDE DEF editors
  <2>3. Head(editors) \in ToSet(tabs)
    BY <2>1, <2>2, EndsOfTabs
  <2>4. TabsFit' /\ tabs' = tabs
    BY <1>0, <2>1, <2>3, TabsGoneTo
  <2>5. QED
    BY <2>4 DEF QueryStays
<1>5. ASSUME NEW i \in DOMAIN tabs, NEW j \in DOMAIN tabs, Reorder(i, j)
      PROVE  TabsFit' /\ QueryStays
  <2> DEFINE ts == InsertAt(RemoveAt(tabs, i), j, tabs[i])
  <2>1. GoTo(ts, active) /\ used' = used
    BY <1>5 DEF Reorder
  <2>2. ts \in Seq(Ids) /\ ToSet(ts) = ToSet(tabs) /\ IsInjective(ts)
    BY <1>0, TabMoved
  <2> HIDE DEF ts
  <2>3. active \in ToSet(ts)
    <3>1. tabs[i] \in ToSet(tabs)
      BY DEF ToSet
    <3>2. tabs # <<>>
      BY <3>1, NoTabsOpen
    <3>3. QED
      BY <1>0, <2>2, <3>2
  <2>4. TabsFit' /\ tabs' = ts
    BY <1>0, <2>1, <2>2, <2>3, TabsGoneTo
  <2>5. QED
    BY <2>2, <2>4 DEF QueryStays
<1>6. ASSUME UNCHANGED <<tabs, active, used>> PROVE TabsFit' /\ QueryStays
  BY <1>6 DEF TabsFit, QueryStays, Open
<1>7. ASSUME NEW id, Close(id), used' = used,
             ToSet(tabs) \cap QueryTabs # {} =>
               (\E q \in ToSet(tabs) \cap QueryTabs : q # id) \/ id = active
      PROVE  TabsFit' /\ QueryStays
  <2>1. TabsFit' /\ tabs' = Without(id) /\ ToSet(tabs') = ToSet(tabs) \ {id}
    BY <1>7, TabClosed
  <2>2. QED
    BY <1>7, <2>1 DEF QueryStays
<1>8. ASSUME NEW id \in Ids, CloseFromBar(id) PROVE TabsFit' /\ QueryStays
  <2>1. CASE id = active /\ tabEdits # {}
    BY <1>6, <1>8, <2>1 DEF CloseFromBar
  <2>2. CASE ~(id = active /\ tabEdits # {})
    <3>1. Close(id) /\ used' = used /\ (id \in QueryTabs => QueryCount(tabs) > 1)
      BY <1>8, <2>2 DEF CloseFromBar
    <3>2. id \in QueryTabs => \E q \in ToSet(tabs) \cap QueryTabs : q # id
      BY <1>0, <3>1, QueryCounts
    <3>3. QED
      BY <1>7, <3>1, <3>2
  <2>3. QED
    BY <2>1, <2>2
<1>9. ASSUME NEW discard, AnswerDialog(discard) PROVE TabsFit' /\ QueryStays
  <2>1. question \in TableTabs /\ question \notin QueryTabs /\ used' = used
    BY <1>9, TabsAssumption DEF AnswerDialog
  <2>2. CASE Close(question)
    BY <1>7, <2>1, <2>2
  <2>3. CASE GoTo(tabs, active)
    <3>1. TabsFit' /\ tabs' = tabs
      BY <1>0, <2>1, <2>3, TabsGoneTo
    <3>2. QED
      BY <3>1 DEF QueryStays
  <2>4. QED
    BY <1>9, <2>2, <2>3 DEF AnswerDialog
<1>10. ASSUME CloseByShortcut PROVE TabsFit' /\ QueryStays
  BY <1>7, <1>10 DEF CloseByShortcut
<1>11. ASSUME NEW i, CloseMany(i) PROVE TabsFit' /\ QueryStays
  <2>1. PICK kept : ApplyClose(kept) /\ used' = used
    BY <1>11 DEF CloseMany
  <2>2. QED
    BY <2>1, TabsClosed DEF QueryStays
<1>12. ASSUME NEW id, CloseDropped(id) PROVE TabsFit' /\ QueryStays
  <2>1. Close(id) /\ used' = used /\ id \notin QueryTabs
    BY <1>12, TabsAssumption DEF CloseDropped
  <2>2. QED
    BY <1>7, <2>1
<1>13. ASSUME \/ \E yes : AnswerRun(yes)
              \/ RunSql \/ StageEdit \/ SaveEdits \/ UNCHANGED tabVars
              \/ \E run \in runs : RunAnswered(run) \/ RunFailed(run)
              \/ \E request, accepted : SaveAnswered(request, accepted)
       PROVE  TabsFit' /\ QueryStays
  <2>1. UNCHANGED <<tabs, active, used>>
    BY <1>13 DEF AnswerRun, RunSql, StageEdit, SaveEdits, tabVars, RunAnswered, RunFailed, SaveAnswered
  <2>2. QED
    BY <1>6, <2>1
<1> HIDE DEF requests
<1>14. QED
  BY <1>1, <1>2, <1>3, <1>4, <1>5, <1>8, <1>9, <1>10, <1>11, <1>12, <1>13, Zenon DEF TabsNext

\* The editor's question goes when the editor does.
LEMMA QuestionStep ==
  ASSUME QuestionFits, TabsInv, [TabsNext]_tabVars
  PROVE  QuestionFits'
<1>1. NoTab \notin QueryTabs \cup TableTabs
  BY TabsAssumption DEF NoTab
<1>2. ASSUME DialogStays PROVE QuestionFits'
  <2>1. question' = question \/ question' = NoTab
    BY <1>2 DEF DialogStays
  <2>2. question' \in QueryTabs => Kind(tabs', active') = "editor"
    BY <1>1, <1>2 DEF DialogStays
  <2>3. QED
    BY <2>1, <2>2 DEF QuestionFits, Mounted
<1>3. ASSUME question' = NoTab \/ question' \in TableTabs PROVE QuestionFits'
  BY <1>1, <1>3, TabsAssumption DEF QuestionFits
<1>4. ASSUME UNCHANGED <<tabs, active>>, question' = question \/ (question' = active /\ Mounted = "editor")
      PROVE  QuestionFits'
  <2>1. Mounted = "editor" => active \in QueryTabs
    BY DEF Mounted, Kind
  <2>2. QED
    BY <1>4, <2>1 DEF QuestionFits, Mounted
<1>5. ASSUME NEW id, CloseFromBar(id) PROVE QuestionFits'
  <2>1. CASE id = active /\ tabEdits # {} /\ question' = id
    <3>1. Mounted = "table"
      BY <2>1 DEF TabsInv, EditsHaveAView
    <3>2. active \in TableTabs
      BY <3>1 DEF Mounted, Kind
    <3>3. QED
      BY <1>3, <2>1, <3>2
  <2>2. CASE question' = question
    BY <1>3, <1>5, <2>2 DEF CloseFromBar
  <2>3. QED
    BY <1>5, <2>1, <2>2 DEF CloseFromBar
<1>6. ASSUME NEW id, OpenTab(id) \/ NewQueryTab(id) \/ SelectTab(id) \/ CloseDropped(id)
      PROVE  DialogStays
  BY <1>6 DEF OpenTab, NewQueryTab, SelectTab, CloseDropped
<1>7. ASSUME \/ \E i, j : Reorder(i, j)
             \/ \E i : CloseMany(i)
             \/ LoadQuery \/ CloseByShortcut
      PROVE  DialogStays
  BY <1>7 DEF Reorder, CloseMany, LoadQuery, CloseByShortcut
<1>8. ASSUME NEW yes, AnswerDialog(yes) \/ AnswerRun(yes) PROVE question' = NoTab
  BY <1>8 DEF AnswerDialog, AnswerRun
<1>9. ASSUME \/ RunSql \/ StageEdit \/ SaveEdits \/ UNCHANGED tabVars
             \/ \E run \in runs : RunAnswered(run) \/ RunFailed(run)
             \/ \E request, accepted : SaveAnswered(request, accepted)
      PROVE  /\ UNCHANGED <<tabs, active>>
             /\ question' = question \/ (question' = active /\ Mounted = "editor")
  BY <1>9 DEF RunSql, StageEdit, SaveEdits, tabVars, RunAnswered, RunFailed, SaveAnswered
<1>10. QED
  BY <1>2, <1>3, <1>4, <1>5, <1>6, <1>7, <1>8, <1>9, Zenon DEF TabsNext

\* However many tabs: none is open twice, the active one is open, and the editor's
\* question is open over the editor only.
THEOREM TabsTypeCorrect == TabsSpec => []TabsTypeOK
<1>1. TabsInit => TabsFit /\ QuestionFits
  <2> SUFFICES ASSUME TabsInit PROVE TabsFit /\ QuestionFits
    OBVIOUS
  <2>1. /\ tabs = <<FirstQuery>> /\ active = FirstQuery /\ used = {FirstQuery} /\ question = NoTab
        /\ FirstQuery \in Ids /\ FirstQuery \in QueryTabs /\ NoTab \notin QueryTabs
    BY TabsAssumption DEF TabsInit, Ids, NoTab
  <2>2. tabs \in Seq(Ids) /\ DOMAIN tabs = {1} /\ tabs[1] = FirstQuery
    BY <2>1
  <2>3. ToSet(tabs) = {FirstQuery} /\ IsInjective(tabs)
    BY <2>2 DEF ToSet, IsInjective
  <2>4. QED
    BY <2>1, <2>2, <2>3 DEF TabsFit, QuestionFits, Open
<1>2. TabsFit /\ QuestionFits /\ TabsInv /\ [TabsNext]_tabVars => (TabsFit /\ QuestionFits)'
  BY TabsStep, QuestionStep
<1>3. TabsFit /\ QuestionFits /\ TabsInv => TabsTypeOK
  BY DEF TabsTypeOK, TabsInv, EditsHaveAView
<1>4. QED
  BY <1>1, <1>2, <1>3, TabsInvariant, PTL DEF TabsSpec

\* However many tabs: the last query tab goes only when it is the active tab that is closed.
THEOREM LastQueryTabGoesByShortcut == TabsSpec => LastQueryTabOnlyByShortcut
<1> DEFINE Lost == QueryCount(tabs) > 0 /\ QueryCount(tabs') = 0 =>
                     active \in QueryTabs /\ tabs' = Without(active)
<1>1. TabsFit /\ [TabsNext]_tabVars => Lost
  <2> SUFFICES ASSUME TabsFit, [TabsNext]_tabVars PROVE Lost
    OBVIOUS
  <2>1. TabsFit' /\ QueryStays
    BY TabsStep
  <2>2. /\ QueryCount(tabs) \in Nat
        /\ QueryCount(tabs) = 0 <=> ToSet(tabs) \cap QueryTabs = {}
    BY QueryCounts DEF TabsFit
  <2>3. QueryCount(tabs') = 0 <=> ToSet(tabs') \cap QueryTabs = {}
    <3>1. tabs' \in Seq(Ids)
      BY <2>1 DEF TabsFit, Ids
    <3>2. QED
      BY <3>1, QueryCounts
  <2>4. QED
    BY <2>1, <2>2, <2>3 DEF QueryStays
<1>2. TabsTypeOK => TabsFit
  BY DEF TabsTypeOK
<1>3. QED
  BY <1>1, <1>2, TabsTypeCorrect, PTL DEF TabsSpec, LastQueryTabOnlyByShortcut

-----------------------------------------------------------------------------
(* The grid's editor: its lists. *)

\* A list is a sequence of its elements.
LEMMA ListIsSeq ==
  ASSUME NEW s, IsList(s)
  PROVE  /\ s \in Seq({s[i] : i \in 1..Len(s)})
         /\ Len(s) \in Nat /\ DOMAIN s = 1..Len(s)
         /\ s = <<>> <=> Len(s) = 0
<1>1. s \in [1..Len(s) -> {s[i] : i \in 1..Len(s)}] /\ Len(s) \in Nat
  BY DEF IsList
<1>2. s \in Seq({s[i] : i \in 1..Len(s)})
  BY <1>1, SeqDef
<1>3. QED
  BY <1>1, <1>2, EmptySeq, LenProperties

\* A sequence of anything is a list.
LEMMA SeqIsList ==
  ASSUME NEW S, NEW s \in Seq(S)
  PROVE  IsList(s)
BY LenProperties DEF IsList

LEMMA ListAppend ==
  ASSUME NEW s, IsList(s), NEW e
  PROVE  /\ IsList(Append(s, e)) /\ Len(Append(s, e)) = Len(s) + 1
         /\ DOMAIN Append(s, e) = 1..(Len(s) + 1) /\ DOMAIN s = 1..Len(s) /\ Len(s) \in Nat
         /\ \A i \in 1..Len(s) : Append(s, e)[i] = s[i]
         /\ Append(s, e)[Len(s) + 1] = e
<1> DEFINE S == {s[i] : i \in 1..Len(s)} \cup {e}
<1> DEFINE T == {s[i] : i \in 1..Len(s)}
<1>0. s \in Seq(T) /\ T \subseteq S /\ e \in S
  BY ListIsSeq
<1> HIDE DEF S, T
<1>1. s \in Seq(S) /\ e \in S
  BY <1>0, SeqMonotonic
<1>2. /\ Append(s, e) \in Seq(S) /\ Len(Append(s, e)) = Len(s) + 1
      /\ \A i \in 1..Len(s) : Append(s, e)[i] = s[i]
      /\ Append(s, e)[Len(s) + 1] = e
  BY <1>1, AppendProperties
<1>3. QED
  BY <1>1, <1>2, SeqIsList, LenProperties

LEMMA ListRest ==
  ASSUME NEW s, IsList(s)
  PROVE  /\ IsList(Rest(s)) /\ DOMAIN s = 1..Len(s) /\ Len(s) \in Nat
         /\ s # <<>> => Len(s) > 0 /\ Len(Rest(s)) = Len(s) - 1
         /\ s = <<>> => Len(s) = 0 /\ Len(Rest(s)) = 0
         /\ DOMAIN Rest(s) = 1..Len(Rest(s))
         /\ \A i \in DOMAIN Rest(s) : i \in DOMAIN s /\ Rest(s)[i] = s[i]
<1> DEFINE S == {s[i] : i \in 1..Len(s)}
<1>1. /\ s \in Seq(S) /\ Len(s) \in Nat /\ DOMAIN s = 1..Len(s)
      /\ s = <<>> <=> Len(s) = 0
  BY ListIsSeq
<1>2. \A i \in 1..(Len(s) - 1) : s[i] \in S
  BY <1>1
<1>3. /\ Rest(s) \in Seq(S)
      /\ Len(Rest(s)) = IF 1 <= Len(s) - 1 THEN Len(s) - 1 - 1 + 1 ELSE 0
      /\ \A i \in 1..(Len(s) - 1 - 1 + 1) : Rest(s)[i] = s[1 + i - 1]
  BY <1>1, <1>2, SubSeqProperties DEF Rest
<1> HIDE DEF S
<1>4. DOMAIN Rest(s) = 1..Len(Rest(s)) /\ IsList(Rest(s))
  BY <1>3, SeqIsList, LenProperties
<1>5. /\ Len(s) > 0 => Len(Rest(s)) = Len(s) - 1
      /\ Len(s) = 0 => Len(Rest(s)) = 0
      /\ (Len(Rest(s)) <= Len(s) /\ Len(Rest(s)) <= Len(s) - 1 - 1 + 1) \/ Len(s) = 0
  <2> DEFINE l == Len(Rest(s))  n == Len(s)
  <2>1. n \in Nat /\ l = IF 1 <= n - 1 THEN n - 1 - 1 + 1 ELSE 0
    BY <1>1, <1>3
  <2> HIDE DEF l, n
  <2>2. (n > 0 => l = n - 1) /\ (n = 0 => l = 0) /\ ((l <= n /\ l <= n - 1 - 1 + 1) \/ n = 0)
    BY <2>1
  <2> QED  BY <2>2 DEF l, n
<1>6. ASSUME NEW i \in DOMAIN Rest(s) PROVE i \in DOMAIN s /\ Rest(s)[i] = s[i]
  <2>1. i \in 1..Len(Rest(s)) /\ Len(Rest(s)) \in Nat
    BY <1>3, <1>4, LenProperties
  <2>2. Len(s) > 0 /\ i \in 1..Len(s) /\ i \in 1..(Len(s) - 1 - 1 + 1)
    <3> DEFINE l == Len(Rest(s))  n == Len(s)
    <3>1. /\ n \in Nat /\ i \in 1..l /\ l \in Nat
          /\ (n > 0 => l = n - 1) /\ (n = 0 => l = 0)
      BY <2>1, <1>1, <1>5
    <3> HIDE DEF l, n
    <3>2. n > 0 /\ i \in 1..n /\ i \in 1..(n - 1 - 1 + 1)
      BY <3>1
    <3> QED  BY <3>2 DEF l, n
  <2>3. Rest(s)[i] = s[1 + i - 1] /\ 1 + i - 1 = i
    <3>1. 1 + i - 1 = i
      BY <2>1
    <3>2. QED
      BY <1>3, <2>2, <3>1, Zenon
  <2> QED  BY <2>2, <2>3, <1>1, Zenon
<1>7. s # <<>> => Len(s) > 0
  BY <1>1
<1>8. QED
  BY <1>1, <1>4, <1>5, <1>6, <1>7, Zenon

LEMMA ListExcept ==
  ASSUME NEW s, IsList(s), NEW i \in DOMAIN s, NEW e
  PROVE  /\ IsList([s EXCEPT ![i] = e]) /\ Len([s EXCEPT ![i] = e]) = Len(s)
         /\ DOMAIN [s EXCEPT ![i] = e] = DOMAIN s /\ DOMAIN s = 1..Len(s) /\ Len(s) \in Nat
         /\ [s EXCEPT ![i] = e][i] = e
         /\ \A j \in DOMAIN s : j # i => [s EXCEPT ![i] = e][j] = s[j]
<1> DEFINE S == {s[j] : j \in 1..Len(s)} \cup {e}
<1> DEFINE T == {s[j] : j \in 1..Len(s)}
<1>0. s \in Seq(T) /\ T \subseteq S /\ e \in S /\ DOMAIN s = 1..Len(s) /\ Len(s) \in Nat
  BY ListIsSeq
<1> HIDE DEF S, T
<1>1. s \in Seq(S) /\ e \in S /\ DOMAIN s = 1..Len(s) /\ Len(s) \in Nat
  BY <1>0, SeqMonotonic
<1>2. /\ [s EXCEPT ![i] = e] \in Seq(S) /\ Len([s EXCEPT ![i] = e]) = Len(s)
      /\ \A j \in 1..Len(s) : [s EXCEPT ![i] = e][j] = IF j = i THEN e ELSE s[j]
  BY <1>1, ExceptSeq
<1>3. QED
  BY <1>1, <1>2, SeqIsList, LenProperties

-----------------------------------------------------------------------------
(* Rows, patches and calls. *)

LEMMA NothingHasNoRows == DOMAIN <<>> = {} /\ <<>> \in RowPatches
<1>1. DOMAIN <<>> = {}
  OBVIOUS
<1>2. <<>> \in [{} -> GridValues]
  OBVIOUS
<1>3. QED
  BY <1>1, <1>2 DEF RowPatches

LEMMA PatchFacts ==
  ASSUME NEW p \in RowPatches
  PROVE  DOMAIN p \subseteq GridColumns /\ \A c \in DOMAIN p : p[c] \in GridValues
BY DEF RowPatches

\* What a call puts and meets in a row of its batch.
LEMMA SidesOfACall ==
  ASSUME NEW call, IsCall(call), NEW row \in DOMAIN call.batch
  PROVE  /\ row \in Rows
         /\ Put(call.kind, call.batch[row]) \in RowPatches
         /\ Met(call.kind, call.batch[row]) \in RowPatches
         /\ DOMAIN Put(call.kind, call.batch[row]) = DOMAIN Met(call.kind, call.batch[row])
         /\ call.batch[row].version \in Nat
<1>1. CASE call.kind = "save"
  <2>1. IsBuffer(call.batch)
    BY <1>1 DEF IsCall
  <2>2. row \in Rows /\ IsEntry(call.batch[row])
    BY <2>1 DEF IsBuffer
  <2>3. /\ Put(call.kind, call.batch[row]) = call.batch[row].edits
        /\ Met(call.kind, call.batch[row]) = call.batch[row].original
    BY <1>1 DEF Put, Met
  <2> QED  BY <2>2, <2>3 DEF IsEntry
<1>2. CASE call.kind # "save"
  <2>1. IsBatch(call.batch) /\ call.kind \in {"undo", "redo"}
    BY <1>2 DEF IsCall
  <2>2. /\ row \in Rows /\ DOMAIN call.batch[row].before = DOMAIN call.batch[row].after
        /\ call.batch[row] \in [before : RowPatches, after : RowPatches, version : Nat]
    BY <2>1 DEF IsBatch
  <2>3. CASE call.kind = "undo"
    <3>1. /\ Put(call.kind, call.batch[row]) = call.batch[row].before
          /\ Met(call.kind, call.batch[row]) = call.batch[row].after
      BY <2>3 DEF Put, Met
    <3> QED  BY <2>2, <3>1
  <2>4. CASE call.kind = "redo"
    <3>1. /\ Put(call.kind, call.batch[row]) = call.batch[row].after
          /\ Met(call.kind, call.batch[row]) = call.batch[row].before
      BY <2>4 DEF Put, Met
    <3> QED  BY <2>2, <3>1
  <2> QED  BY <2>1, <2>3, <2>4
<1>3. QED
  BY <1>1, <1>2

\* A bulk write leaves a live row of the next version.
LEMMA WrittenRow ==
  ASSUME mode \in {"version", "preimage"}, NEW patch \in RowPatches, NEW original, NEW version,
         NEW old \in Record
  PROVE  LET new == RowAfter(mode, Guarded(patch, original, version), old)
         IN  /\ new \in Record /\ new.live /\ new.version = old.version + 1
             /\ \A c \in GridColumns :
                  new.cells[c] = IF c \in DOMAIN patch THEN patch[c] ELSE old.cells[c]
<1> DEFINE edit == Guarded(patch, original, version)
           new  == RowAfter(mode, edit, old)
           cells == [c \in GridColumns |-> IF c \in DOMAIN patch THEN patch[c] ELSE old.cells[c]]
<1>1. edit.patch = patch
  BY DEF Guarded
<1>2. cells \in [GridColumns -> GridValues]
  BY PatchFacts DEF Record
<1>3. new = [live |-> TRUE, cells |-> cells, version |-> old.version + 1]
  BY <1>1 DEF RowAfter
<1>4. old.version + 1 \in Nat
  BY DEF Record
<1>5. QED
  BY <1>2, <1>3, <1>4 DEF Record

\* A row that is left alone, or written, agrees with every stamp as before.
LEMMA StampKept ==
  ASSUME NEW t, NEW u, NEW row, t[row].version \in Nat, u[row].version \in Nat,
         u[row] = t[row] \/ u[row].version > t[row].version,
         NEW v \in Nat, NEW cells, Stamped(t, row, v, cells)
  PROVE  Stamped(u, row, v, cells)
<1>1. CASE u[row] = t[row]
  BY <1>1 DEF Stamped
<1>2. CASE u[row].version > t[row].version
  BY <1>2 DEF Stamped
<1>3. QED
  BY <1>1, <1>2

\* The rows of one table are those of another, or have been written since.
Grown(t, u) ==
  \A row \in Rows : /\ t[row].version \in Nat /\ u[row].version \in Nat
                    /\ u[row] = t[row] \/ u[row].version > t[row].version

LEMMA CallKept ==
  ASSUME NEW t, NEW u, Grown(t, u), NEW call, IsCall(call), CallStamped(call, t)
  PROVE  CallStamped(call, u)
<1>1. ASSUME call.outcome = "none", call.kind # "save", NEW row \in DOMAIN call.batch
      PROVE  Stamped(u, row, call.batch[row].version, Met(call.kind, call.batch[row]))
  BY <1>1, SidesOfACall, StampKept DEF CallStamped, Grown
<1>2. ASSUME call.outcome = "saved", NEW row \in DOMAIN call.batch
      PROVE  Stamped(u, row, call.rows[row].version, Put(call.kind, call.batch[row]))
  <2>1. row \in Rows /\ row \in DOMAIN call.rows
    BY <1>2, SidesOfACall DEF CallStamped
  <2>2. call.rows[row].version \in Nat
    BY <2>1 DEF IsCall, IsRows, Record
  <2> QED  BY <1>2, <2>1, <2>2, StampKept DEF CallStamped, Grown
<1>3. QED
  BY <1>1, <1>2 DEF CallStamped

LEMMA StackKept ==
  ASSUME NEW t, NEW u, Grown(t, u), NEW kind, NEW stack, StackFits(kind, stack, t),
         \A i \in DOMAIN stack : IsBatch(stack[i])
  PROVE  StackFits(kind, stack, u)
<1>1. ASSUME NEW i \in DOMAIN stack, NEW row \in DOMAIN stack[i]
      PROVE  Stamped(u, row, stack[i][row].version, Met(kind, stack[i][row]))
  <2>1. row \in Rows /\ stack[i][row].version \in Nat
    BY DEF IsBatch
  <2> QED  BY <2>1, StampKept DEF StackFits, Grown
<1>2. QED
  BY <1>1 DEF StackFits

-----------------------------------------------------------------------------
(* The steps: types. *)

LEMMA WithFacts ==
  ASSUME NEW p \in RowPatches, NEW c \in GridColumns, NEW v \in GridValues
  PROVE  /\ With(p, c, v) \in RowPatches /\ DOMAIN With(p, c, v) = DOMAIN p \cup {c}
         /\ Less(p, c) \in RowPatches /\ DOMAIN Less(p, c) = DOMAIN p \ {c}
<1>1. With(p, c, v) \in [DOMAIN p \cup {c} -> GridValues] /\ DOMAIN p \cup {c} \subseteq GridColumns
  BY PatchFacts DEF With
<1>2. Less(p, c) \in [DOMAIN p \ {c} -> GridValues] /\ DOMAIN p \ {c} \subseteq GridColumns
  BY PatchFacts DEF Less
<1>3. QED
  BY <1>1, <1>2 DEF RowPatches

LEMMA StageTypes ==
  ASSUME EditorTypeOK, NEW row \in Rows, NEW col \in GridColumns, NEW val \in GridValues,
         StageCell(row, col, val)
  PROVE  EditorTypeOK'
<1> DEFINE entry == IF row \in DOMAIN buffer THEN buffer[row] ELSE NoEdits
           old   == view[row].cells[col]
           orig  == IF col \in DOMAIN entry.original THEN entry.original
                    ELSE With(entry.original, col, old)
           since == With(entry.since, col, view[row].version)
           back  == val = orig[col]
           edits == IF back THEN Less(entry.edits, col) ELSE With(entry.edits, col, val)
           new   == [version |-> view[row].version,
                     original |-> IF back THEN Less(orig, col) ELSE orig,
                     edits |-> edits,
                     since |-> IF back THEN Less(since, col) ELSE since]
<1>1. view[row] \in Record /\ view[row].version \in Nat /\ old \in GridValues
  BY DEF EditorTypeOK, Record
<1>2. IsEntry(entry)
  <2>1. <<>> \in RowPatches /\ <<>> \in [DOMAIN <<>> -> Nat]
    BY NothingHasNoRows
  <2>2. IsEntry(NoEdits)
    BY <2>1 DEF IsEntry, NoEdits
  <2> QED  BY <2>2 DEF EditorTypeOK, IsBuffer
<1>3. orig \in RowPatches /\ DOMAIN orig = DOMAIN entry.original \cup {col}
  BY <1>1, <1>2, WithFacts DEF IsEntry
<1>4. edits \in RowPatches
      /\ DOMAIN edits = IF back THEN DOMAIN entry.edits \ {col} ELSE DOMAIN entry.edits \cup {col}
  BY <1>2, WithFacts DEF IsEntry
<1>5. since \in [DOMAIN entry.edits \cup {col} -> Nat]
      /\ Less(since, col) \in [DOMAIN entry.edits \ {col} -> Nat]
  BY <1>1, <1>2 DEF IsEntry, With, Less
<1>6. Less(orig, col) \in RowPatches /\ DOMAIN Less(orig, col) = DOMAIN orig \ {col}
  BY <1>3, WithFacts
<1> HIDE DEF orig, edits, since, back, old
<1>7. IsEntry(new)
  BY <1>1, <1>2, <1>3, <1>4, <1>5, <1>6 DEF IsEntry
<1>8. view' = [view EXCEPT ![row].cells[col] = val] /\ UNCHANGED <<mode, table, others, calls, undo, redo>>
      /\ buffer' = IF edits = <<>> THEN Less(buffer, row) ELSE With(buffer, row, new)
  BY DEF StageCell, orig, edits, since, back, old
<1>9. view' \in [Rows -> Record]
  BY <1>8 DEF EditorTypeOK, Record
<1>10. IsBuffer(buffer') /\ \A r \in DOMAIN buffer' : buffer'[r].edits # <<>>
  <2>1. CASE edits = <<>>
    <3>1. /\ DOMAIN buffer' = DOMAIN buffer \ {row}
          /\ \A r \in DOMAIN buffer' : buffer'[r] = buffer[r]
      BY <2>1, <1>8 DEF Less
    <3> QED  BY <3>1 DEF EditorTypeOK, IsBuffer
  <2>2. CASE edits # <<>>
    <3>1. /\ DOMAIN buffer' = DOMAIN buffer \cup {row}
          /\ \A r \in DOMAIN buffer' : buffer'[r] = IF r = row THEN new ELSE buffer[r]
      BY <2>2, <1>8 DEF With
    <3>2. new.edits # <<>>
      BY <2>2
    <3> HIDE DEF new
    <3> QED  BY <3>1, <3>2, <1>7 DEF EditorTypeOK, IsBuffer
  <2> QED  BY <2>1, <2>2
<1>11. QED
  BY <1>8, <1>9, <1>10 DEF EditorTypeOK

LEMMA EmptyBuffer == IsBuffer(<<>>) /\ IsBatch(<<>>) /\ IsRows(<<>>)
BY NothingHasNoRows DEF IsBuffer, IsBatch, IsRows

\* A new call.
LEMMA CallMade ==
  ASSUME EditorTypeOK, NEW kind \in {"save", "undo", "redo"}, NEW batch, NEW edits,
         kind = "save" => IsBuffer(batch), kind # "save" => IsBatch(batch),
         Call(kind, batch, edits)
  PROVE  /\ EditorTypeOK' /\ UNCHANGED <<mode, table, others, view, buffer, undo, redo>>
         /\ DOMAIN calls = 1..Len(calls) /\ Len(calls) \in Nat
         /\ DOMAIN calls' = 1..(Len(calls) + 1) /\ Len(calls') = Len(calls) + 1
         /\ \A i \in DOMAIN calls : calls'[i] = calls[i]
         /\ calls'[Len(calls) + 1] =
              [kind |-> kind, batch |-> batch, edits |-> edits,
               outcome |-> "none", rows |-> <<>>, answered |-> FALSE]
<1> DEFINE new == [kind |-> kind, batch |-> batch, edits |-> edits,
                   outcome |-> "none", rows |-> <<>>, answered |-> FALSE]
<1>1. calls' = Append(calls, new) /\ UNCHANGED <<mode, table, others, view, buffer, undo, redo>>
  BY DEF Call
<1>2. IsList(calls) /\ \A i \in DOMAIN calls : IsCall(calls[i])
  BY DEF EditorTypeOK
<1>3. IsCall(new)
  BY EmptyBuffer DEF IsCall
<1> HIDE DEF new
<1>4. /\ IsList(calls') /\ Len(calls') = Len(calls) + 1
      /\ DOMAIN calls' = 1..(Len(calls) + 1) /\ DOMAIN calls = 1..Len(calls) /\ Len(calls) \in Nat
      /\ \A i \in 1..Len(calls) : calls'[i] = calls[i]
      /\ calls'[Len(calls) + 1] = new
  BY <1>1, <1>2, ListAppend
<1>5. \A i \in DOMAIN calls' : IsCall(calls'[i])
  <2>1. ASSUME NEW i \in DOMAIN calls' PROVE IsCall(calls'[i])
    <3>1. i \in 1..Len(calls) \/ i = Len(calls) + 1
      BY <1>4, <2>1
    <3> QED  BY <3>1, <1>2, <1>3, <1>4
  <2> QED  BY <2>1
<1>6. EditorTypeOK'
  BY <1>1, <1>4, <1>5 DEF EditorTypeOK
<1>7. QED
  BY <1>1, <1>4, <1>6 DEF new

\* The edits of a call, from its batch.
EditsOf(kind, batch) ==
  [row \in DOMAIN batch |->
     Guarded(Put(kind, batch[row]), Met(kind, batch[row]), batch[row].version)]

LEMMA SidesByKind ==
  ASSUME NEW r
  PROVE  /\ Put("save", r) = r.edits /\ Met("save", r) = r.original
         /\ Put("undo", r) = r.before /\ Met("undo", r) = r.after
         /\ Put("redo", r) = r.after /\ Met("redo", r) = r.before
BY DEF Put, Met

\* The three calls: what they are about.
LEMMA CallsMade ==
  ASSUME EditorTypeOK, SaveBuffer \/ Undo \/ Redo
  PROVE  \E kind \in {"save", "undo", "redo"} : \E batch :
           /\ Call(kind, batch, EditsOf(kind, batch))
           /\ kind = "save" => IsBuffer(batch)
           /\ kind = "undo" => undo # <<>> /\ batch = Top(undo) /\ Len(undo) \in DOMAIN undo
           /\ kind = "redo" => redo # <<>> /\ batch = Top(redo) /\ Len(redo) \in DOMAIN redo
           /\ kind # "save" => IsBatch(batch)
<1>1. CASE SaveBuffer
  <2>1. EditsOf("save", buffer) =
          [row \in DOMAIN buffer |->
             Guarded(buffer[row].edits, buffer[row].original, buffer[row].version)]
    BY SidesByKind DEF EditsOf
  <2>2. Call("save", buffer, EditsOf("save", buffer))
    BY <1>1, <2>1 DEF SaveBuffer
  <2> QED  BY <2>2 DEF EditorTypeOK
<1>2. CASE Undo
  <2>1. EditsOf("undo", Top(undo)) =
          [row \in DOMAIN Top(undo) |->
             Guarded(Top(undo)[row].before, Top(undo)[row].after, Top(undo)[row].version)]
    BY SidesByKind DEF EditsOf
  <2>2. Call("undo", Top(undo), EditsOf("undo", Top(undo))) /\ undo # <<>>
    BY <1>2, <2>1 DEF Undo
  <2>3. Len(undo) \in DOMAIN undo
    BY <2>2, ListIsSeq DEF EditorTypeOK
  <2>4. IsBatch(Top(undo))
    BY <2>3 DEF EditorTypeOK, Top
  <2> QED  BY <2>2, <2>3, <2>4
<1>3. CASE Redo
  <2>1. EditsOf("redo", Top(redo)) =
          [row \in DOMAIN Top(redo) |->
             Guarded(Top(redo)[row].after, Top(redo)[row].before, Top(redo)[row].version)]
    BY SidesByKind DEF EditsOf
  <2>2. Call("redo", Top(redo), EditsOf("redo", Top(redo))) /\ redo # <<>>
    BY <1>3, <2>1 DEF Redo
  <2>3. Len(redo) \in DOMAIN redo
    BY <2>2, ListIsSeq DEF EditorTypeOK
  <2>4. IsBatch(Top(redo))
    BY <2>3 DEF EditorTypeOK, Top
  <2> QED  BY <2>2, <2>3, <2>4
<1>4. QED
  BY <1>1, <1>2, <1>3

\* What the endpoint makes of a call, and of the rows.
Fits(i) ==
  \A row \in DOMAIN calls[i].edits : Unchanged(mode, calls[i].edits[row], table[row])

Written(i) ==
  [row \in DOMAIN calls[i].edits |-> RowAfter(mode, calls[i].edits[row], table[row])]

LEMMA ServeOutcomes ==
  ASSUME EditorTypeOK, NEW i \in DOMAIN calls, Serve(i)
  PROVE  /\ UNCHANGED <<mode, others, view, buffer, undo, redo>>
         /\ calls[i].outcome = "none"
         /\ \E outcome \in {"saved", "refused", "failed"} :
              /\ calls' = [calls EXCEPT ![i] = Served(i, outcome, Written(i))]
              /\ outcome = "saved" => Fits(i)
              /\ outcome = "refused" => ~Fits(i)
              /\ outcome # "failed" => table' = IF outcome = "saved"
                   THEN [row \in Rows |-> IF row \in DOMAIN calls[i].edits
                                          THEN Written(i)[row] ELSE table[row]]
                   ELSE table
              /\ table' \in {table, [row \in Rows |-> IF row \in DOMAIN calls[i].edits
                                          THEN Written(i)[row] ELSE table[row]]}
<1>1. Served(i, "refused", Written(i)) = Served(i, "refused", <<>>)
      /\ Served(i, "failed", Written(i)) = Served(i, "failed", <<>>)
  BY DEF Served
<1> HIDE DEF Served
<1>2. QED
  BY <1>1, Zenon DEF Serve, Fits, Written

\* Fields of a call's record are replaced one after the other.
LEMMA ExceptInTurn ==
  ASSUME NEW call, NEW o, NEW e, NEW a, NEW b, NEW r
  PROVE  /\ [call EXCEPT !.outcome = o, !.edits = e] = [[call EXCEPT !.outcome = o] EXCEPT !.edits = e]
         /\ [call EXCEPT !.answered = a, !.batch = b, !.edits = e, !.rows = r] =
              [[[[call EXCEPT !.answered = a] EXCEPT !.batch = b] EXCEPT !.edits = e] EXCEPT !.rows = r]
OBVIOUS

LEMMA ServedCall ==
  ASSUME NEW i, IsCall(calls[i]), NEW outcome, NEW rows
  PROVE  LET call == calls[i]
             heard == i = Len(calls) /\ outcome = "saved"
         IN  Served(i, outcome, rows) =
               [kind |-> call.kind, batch |-> IF heard THEN call.batch ELSE <<>>, edits |-> <<>>,
                outcome |-> outcome, rows |-> IF heard THEN rows ELSE call.rows,
                answered |-> call.answered]
<1>1. PICK k, b, e, o, r, a :
        calls[i] = [kind |-> k, batch |-> b, edits |-> e, outcome |-> o, rows |-> r, answered |-> a]
  BY DEF IsCall
<1> DEFINE s == [calls[i] EXCEPT !.outcome = outcome, !.edits = <<>>]
<1>2. s = [kind |-> k, batch |-> b, edits |-> <<>>, outcome |-> outcome, rows |-> r, answered |-> a]
  <2>1. [calls[i] EXCEPT !.outcome = outcome] =
          [kind |-> k, batch |-> b, edits |-> e, outcome |-> outcome, rows |-> r, answered |-> a]
    BY <1>1
  <2>2. s = [[calls[i] EXCEPT !.outcome = outcome] EXCEPT !.edits = <<>>]
    BY ExceptInTurn
  <2> HIDE DEF s
  <2> QED  BY <2>1, <2>2
<1>3. Served(i, outcome, rows) = IF i = Len(calls) /\ outcome = "saved"
                                 THEN [s EXCEPT !.rows = rows] ELSE [s EXCEPT !.batch = <<>>]
  BY DEF Served
<1> HIDE DEF s
<1>4. [s EXCEPT !.rows = rows] =
        [kind |-> k, batch |-> b, edits |-> <<>>, outcome |-> outcome, rows |-> rows, answered |-> a]
  BY <1>2
<1>5. [s EXCEPT !.batch = <<>>] =
        [kind |-> k, batch |-> <<>>, edits |-> <<>>, outcome |-> outcome, rows |-> r, answered |-> a]
  BY <1>2
<1>6. calls[i].kind = k /\ calls[i].batch = b /\ calls[i].rows = r /\ calls[i].answered = a
  BY <1>1
<1>7. CASE i = Len(calls) /\ outcome = "saved"
  BY <1>3, <1>4, <1>6, <1>7
<1>8. CASE ~(i = Len(calls) /\ outcome = "saved")
  BY <1>3, <1>5, <1>6, <1>8
<1>9. QED
  BY <1>7, <1>8

\* The rows as the endpoint writes them.
LEMMA WrittenRows ==
  ASSUME EditorTypeOK, StampsFit, NEW i \in DOMAIN calls, calls[i].outcome = "none"
  PROVE  LET call == calls[i]
         IN  /\ IsCall(call) /\ CallStamped(call, table) /\ ~call.answered
             /\ call.edits = EditsOf(call.kind, call.batch)
             /\ DOMAIN call.edits = DOMAIN call.batch /\ DOMAIN call.batch \subseteq Rows
             /\ DOMAIN Written(i) = DOMAIN call.batch /\ IsRows(Written(i))
             /\ \A row \in DOMAIN call.batch :
                  LET put == Put(call.kind, call.batch[row])
                  IN  /\ Written(i)[row].live
                      /\ Written(i)[row].version = table[row].version + 1
                      /\ \A c \in GridColumns :
                           Written(i)[row].cells[c] = IF c \in DOMAIN put THEN put[c]
                                                      ELSE table[row].cells[c]
<1> DEFINE call == calls[i]
<1>1. IsCall(call) /\ CallStamped(call, table)
  BY DEF EditorTypeOK, StampsFit
<1>2. ~call.answered /\ call.edits = EditsOf(call.kind, call.batch)
  BY <1>1 DEF CallStamped, EditsOf, IsCall
<1>3. DOMAIN call.edits = DOMAIN call.batch
  BY <1>2 DEF EditsOf
<1>4. DOMAIN Written(i) = DOMAIN call.batch
  BY <1>3 DEF Written
<1>5. ASSUME NEW row \in DOMAIN call.batch
      PROVE  LET put == Put(call.kind, call.batch[row])
             IN  /\ Written(i)[row] \in Record /\ Written(i)[row].live
                 /\ Written(i)[row].version = table[row].version + 1
                 /\ \A c \in GridColumns :
                      Written(i)[row].cells[c] = IF c \in DOMAIN put THEN put[c]
                                                 ELSE table[row].cells[c]
  <2> DEFINE put == Put(call.kind, call.batch[row])
             met == Met(call.kind, call.batch[row])
             version == call.batch[row].version
  <2>1. Written(i)[row] = RowAfter(mode, Guarded(put, met, version), table[row])
    BY <1>2, <1>3, <1>5 DEF Written, EditsOf
  <2>2. row \in Rows /\ put \in RowPatches
    BY <1>1, <1>5, SidesOfACall
  <2>3. table[row] \in Record /\ mode \in {"version", "preimage"}
    BY <2>2 DEF EditorTypeOK
  <2> HIDE DEF put, met, version
  <2>4. LET new == RowAfter(mode, Guarded(put, met, version), table[row])
        IN  /\ new \in Record /\ new.live /\ new.version = table[row].version + 1
            /\ \A c \in GridColumns :
                 new.cells[c] = IF c \in DOMAIN put THEN put[c] ELSE table[row].cells[c]
    BY <2>2, <2>3, WrittenRow
  <2> QED  BY <2>1, <2>4 DEF put
<1>6. DOMAIN call.batch \subseteq Rows
  BY <1>1, SidesOfACall
<1>7. IsRows(Written(i))
  BY <1>4, <1>5, <1>6 DEF IsRows
<1>8. QED
  BY <1>1, <1>2, <1>3, <1>4, <1>5, <1>6, <1>7

\* Serving a call, whatever its outcome.
LEMMA ServeKeeps ==
  ASSUME EditorTypeOK, StampsFit, NEW i \in DOMAIN calls, Serve(i)
  PROVE  /\ EditorTypeOK' /\ StampsFit' /\ Grown(table, table')
         /\ Len(calls') = Len(calls) /\ DOMAIN calls' = DOMAIN calls /\ DOMAIN calls = 1..Len(calls)
         /\ \A j \in DOMAIN calls : j # i => calls'[j] = calls[j]
         /\ calls'[i].kind = calls[i].kind /\ ~calls'[i].answered /\ ~calls[i].answered
         /\ calls'[i].outcome \in {"saved", "refused", "failed"}
         /\ calls'[i].outcome = "refused" => ~Fits(i) /\ table' = table
         /\ calls'[i].outcome = "saved" => Fits(i)
              /\ table' = [row \in Rows |-> IF row \in DOMAIN calls[i].batch
                                            THEN Written(i)[row] ELSE table[row]]
         /\ calls'[i].outcome = "saved" /\ i = Len(calls) =>
              calls'[i].batch = calls[i].batch /\ calls'[i].rows = Written(i)
<1> DEFINE call  == calls[i]
           after == [row \in Rows |-> IF row \in DOMAIN call.batch THEN Written(i)[row] ELSE table[row]]
<1>1. /\ UNCHANGED <<mode, others, view, buffer, undo, redo>>
      /\ call.outcome = "none"
  BY ServeOutcomes
<1>2. /\ IsCall(call) /\ CallStamped(call, table) /\ ~call.answered
      /\ DOMAIN call.edits = DOMAIN call.batch /\ DOMAIN call.batch \subseteq Rows
      /\ DOMAIN Written(i) = DOMAIN call.batch /\ IsRows(Written(i))
      /\ \A row \in DOMAIN call.batch :
           LET put == Put(call.kind, call.batch[row])
           IN  /\ Written(i)[row].live
               /\ Written(i)[row].version = table[row].version + 1
               /\ \A c \in GridColumns :
                    Written(i)[row].cells[c] = IF c \in DOMAIN put THEN put[c]
                                               ELSE table[row].cells[c]
  BY <1>1, WrittenRows
<1>3. PICK outcome \in {"saved", "refused", "failed"} :
        /\ calls' = [calls EXCEPT ![i] = Served(i, outcome, Written(i))]
        /\ outcome = "saved" => Fits(i)
        /\ outcome = "refused" => ~Fits(i)
        /\ outcome # "failed" => table' = IF outcome = "saved" THEN after ELSE table
        /\ table' \in {table, after}
  BY <1>2, ServeOutcomes
<1> DEFINE new == Served(i, outcome, Written(i))
           heard == i = Len(calls) /\ outcome = "saved"
<1>4. new = [kind |-> call.kind, batch |-> IF heard THEN call.batch ELSE <<>>, edits |-> <<>>,
             outcome |-> outcome, rows |-> IF heard THEN Written(i) ELSE call.rows,
             answered |-> call.answered]
  BY <1>2, ServedCall
<1>5. /\ IsList(calls') /\ Len(calls') = Len(calls) /\ DOMAIN calls' = DOMAIN calls
      /\ DOMAIN calls = 1..Len(calls)
      /\ calls'[i] = new
      /\ \A j \in DOMAIN calls : j # i => calls'[j] = calls[j]
  <2> HIDE DEF new
  <2>1. IsList(calls) /\ calls' = [calls EXCEPT ![i] = new]
    BY <1>3 DEF EditorTypeOK, new
  <2> QED  BY <2>1, ListExcept
<1>6. \A row \in Rows : /\ table[row] \in Record /\ table[row].version \in Nat /\ table[row].live
                        /\ table[row].cells \in [GridColumns -> GridValues]
  BY DEF EditorTypeOK, Record
<1>7. after \in [Rows -> Record] /\ (\A row \in Rows : after[row].live) /\ Grown(table, after)
  <2>1. ASSUME NEW row \in Rows
        PROVE  /\ after[row] \in Record /\ after[row].live /\ after[row].version \in Nat
               /\ after[row] = table[row] \/ after[row].version > table[row].version
    <3>1. CASE row \in DOMAIN call.batch
      <4>1. after[row] = Written(i)[row]
        BY <3>1
      <4>2. Written(i)[row] \in Record
        BY <3>1, <1>2 DEF IsRows
      <4>3. /\ Written(i)[row].live /\ Written(i)[row].version = table[row].version + 1
        BY <3>1, <1>2
      <4> QED  BY <4>1, <4>2, <4>3, <1>6
    <3>2. CASE row \notin DOMAIN call.batch
      BY <3>2, <1>6
    <3> QED  BY <3>1, <3>2
  <2> QED  BY <2>1, <1>6 DEF Grown
<1>8. Grown(table, table)
  BY <1>6 DEF Grown
<1>9. /\ table' \in [Rows -> Record] /\ (\A row \in Rows : table'[row].live) /\ Grown(table, table')
  <2> HIDE DEF after
  <2>1. CASE table' = table
    BY <2>1, <1>8 DEF EditorTypeOK
  <2>2. CASE table' = after
    BY <2>2, <1>7
  <2> QED  BY <2>1, <2>2, <1>3
<1>10. IsCall(new)
  <2>1. IF call.kind = "save" THEN IsBuffer(new.batch) ELSE IsBatch(new.batch)
    BY <1>2, <1>4, EmptyBuffer DEF IsCall
  <2>2. IsRows(new.rows) /\ new.answered \in BOOLEAN /\ new.kind = call.kind
        /\ call.kind \in {"save", "undo", "redo"}
    BY <1>2, <1>4 DEF IsCall
  <2>3. new = [kind |-> new.kind, batch |-> new.batch, edits |-> new.edits,
               outcome |-> new.outcome, rows |-> new.rows, answered |-> new.answered]
    BY <1>4
  <2> QED  BY <2>1, <2>2, <2>3, <1>4 DEF IsCall
<1>11. EditorTypeOK'
  <2> HIDE DEF new
  <2>1. \A j \in DOMAIN calls' : IsCall(calls'[j])
    BY <1>5, <1>10 DEF EditorTypeOK
  <2> QED  BY <2>1, <1>1, <1>5, <1>9 DEF EditorTypeOK
<1>12. CallStamped(new, table')
  <2>1. new.outcome = outcome /\ ~new.answered /\ outcome # "none"
    BY <1>2, <1>4
  <2>2. CASE heard
    <3>1. /\ new.rows = Written(i) /\ new.batch = call.batch /\ new.kind = call.kind /\ table' = after
      BY <2>2, <1>3, <1>4
    <3>2. ASSUME NEW row \in DOMAIN call.batch
          PROVE  Stamped(table', row, Written(i)[row].version, Put(call.kind, call.batch[row]))
      <4>1. row \in Rows /\ table'[row] = Written(i)[row]
        BY <3>1, <1>2
      <4>2. DOMAIN Put(call.kind, call.batch[row]) \subseteq GridColumns
        BY <1>2, SidesOfACall, PatchFacts
      <4>3. Written(i)[row].version \in Nat
        BY <1>2, <1>6, <4>1
      <4> QED  BY <4>1, <4>2, <4>3, <1>2 DEF Stamped
    <3>3. DOMAIN new.rows = DOMAIN new.batch
      BY <3>1, <1>2
    <3> HIDE DEF new, after, heard
    <3> QED  BY <2>1, <3>1, <3>2, <3>3 DEF CallStamped
  <2>3. CASE ~heard
    <3>1. new.batch = <<>> /\ new.rows = <<>>
      BY <2>3, <1>1, <1>2, <1>4 DEF CallStamped
    <3> HIDE DEF new, after, heard
    <3> QED  BY <2>1, <3>1, NothingHasNoRows DEF CallStamped
  <2> QED  BY <2>2, <2>3
<1>13. StampsFit'
  <2> HIDE DEF new
  <2>1. ASSUME NEW j \in DOMAIN calls' PROVE CallStamped(calls'[j], table')
    <3>1. CASE j = i
      BY <3>1, <1>5, <1>12
    <3>2. CASE j # i
      BY <3>2, <1>5, <1>9, CallKept DEF StampsFit, EditorTypeOK
    <3> QED  BY <3>1, <3>2
  <2>2. StackFits("undo", undo, table') /\ StackFits("redo", redo, table')
    BY <1>9, StackKept DEF StampsFit, EditorTypeOK
  <2> QED  BY <2>1, <2>2, <1>1 DEF StampsFit
<1>14. /\ calls'[i].kind = call.kind /\ calls'[i].outcome = outcome
       /\ ~calls'[i].answered /\ ~call.answered
       /\ heard => calls'[i].batch = call.batch /\ calls'[i].rows = Written(i)
  BY <1>2, <1>4, <1>5
<1>15. QED
  BY <1>3, <1>5, <1>9, <1>11, <1>13, <1>14

-----------------------------------------------------------------------------
(* Answers. *)

LEMMA AnswerFacts ==
  ASSUME EditorTypeOK, NEW outcome, CallAnswers(outcome)
  PROVE  LET L == Len(calls)
         IN  /\ UNCHANGED <<mode, table, others>>
             /\ L \in DOMAIN calls /\ L = LatestCall /\ DOMAIN calls = 1..L /\ L \in Nat
             /\ IsCall(calls[L]) /\ calls[L].outcome = outcome /\ ~calls[L].answered
             /\ calls'[L] = [kind |-> calls[L].kind, batch |-> <<>>, edits |-> <<>>,
                             outcome |-> outcome, rows |-> <<>>, answered |-> TRUE]
             /\ IsCall(calls'[L])
             /\ IsList(calls') /\ Len(calls') = L /\ DOMAIN calls' = DOMAIN calls
             /\ \A j \in DOMAIN calls : j # L => calls'[j] = calls[j]
             /\ \A j \in DOMAIN calls' : IsCall(calls'[j])
<1> DEFINE L == Len(calls)
           yes == TRUE
           new == [calls[L] EXCEPT !.answered = yes, !.batch = <<>>, !.edits = <<>>, !.rows = <<>>]
<1>1. /\ calls # <<>> /\ L = LatestCall /\ ~calls[L].answered /\ calls[L].outcome = outcome
      /\ calls' = [calls EXCEPT ![L] = new] /\ UNCHANGED <<mode, table, others>>
  BY DEF CallAnswers, LatestCall
<1>2. IsList(calls) /\ DOMAIN calls = 1..L /\ L \in Nat /\ L \in DOMAIN calls
  BY <1>1, ListIsSeq DEF EditorTypeOK
<1>3. IsCall(calls[L])
  BY <1>2 DEF EditorTypeOK
<1> HIDE DEF L, yes, new
<1>4. PICK k, b, e, r, a :
        calls[L] = [kind |-> k, batch |-> b, edits |-> e, outcome |-> outcome, rows |-> r, answered |-> a]
  BY <1>1, <1>3 DEF IsCall
<1> DEFINE c1 == [calls[L] EXCEPT !.answered = yes]
           c2 == [c1 EXCEPT !.batch = <<>>]
           c3 == [c2 EXCEPT !.edits = <<>>]
<1>5. new = [c3 EXCEPT !.rows = <<>>]
  BY ExceptInTurn DEF new
<1>6. c1 = [kind |-> k, batch |-> b, edits |-> e, outcome |-> outcome, rows |-> r, answered |-> yes]
  BY <1>4
<1> HIDE DEF c1
<1>7. c2 = [kind |-> k, batch |-> <<>>, edits |-> e, outcome |-> outcome, rows |-> r, answered |-> yes]
  BY <1>6
<1> HIDE DEF c2
<1>8. c3 = [kind |-> k, batch |-> <<>>, edits |-> <<>>, outcome |-> outcome, rows |-> r, answered |-> yes]
  BY <1>7
<1> HIDE DEF c3
<1>9. new = [kind |-> k, batch |-> <<>>, edits |-> <<>>, outcome |-> outcome, rows |-> <<>>, answered |-> yes]
  BY <1>5, <1>8
<1>10. k = calls[L].kind
  BY <1>4
<1>11. /\ IsList(calls') /\ Len(calls') = L /\ DOMAIN calls' = DOMAIN calls /\ calls'[L] = new
       /\ \A j \in DOMAIN calls : j # L => calls'[j] = calls[j]
  <2>1. IsList(calls) /\ L \in DOMAIN calls /\ L = Len(calls) /\ calls' = [calls EXCEPT ![L] = new]
    BY <1>1, <1>2 DEF L
  <2>2. ASSUME IsList(calls), L \in DOMAIN calls
        PROVE  /\ IsList([calls EXCEPT ![L] = new]) /\ Len([calls EXCEPT ![L] = new]) = Len(calls)
               /\ DOMAIN [calls EXCEPT ![L] = new] = DOMAIN calls
               /\ [calls EXCEPT ![L] = new][L] = new
               /\ \A j \in DOMAIN calls : j # L => [calls EXCEPT ![L] = new][j] = calls[j]
    BY ONLY <2>2, ListExcept
  <2> QED  BY <2>1, <2>2, Zenon
<1>12. IsCall(new)
  BY <1>1, <1>3, <1>9, <1>10, EmptyBuffer DEF IsCall, yes
<1>13. \A j \in DOMAIN calls' : IsCall(calls'[j])
  BY <1>11, <1>12 DEF EditorTypeOK
<1>14. QED
  BY <1>1, <1>2, <1>3, <1>9, <1>10, <1>11, <1>12, <1>13 DEF L, yes

\* The batches that answers put on the stacks.
LEMMA BatchesOfAnswers ==
  ASSUME NEW t, NEW call, IsCall(call), CallStamped(call, t), call.outcome = "saved"
  PROVE  /\ call.kind = "save" =>
              /\ IsBatch(Done(call)) /\ DOMAIN Done(call) = DOMAIN call.batch
              /\ \A row \in DOMAIN call.batch :
                   /\ Done(call)[row].before = Met("save", call.batch[row])
                   /\ Done(call)[row].after = Put("save", call.batch[row])
                   /\ Done(call)[row].version = call.rows[row].version
         /\ call.kind # "save" =>
              /\ IsBatch(Refreshed(call)) /\ DOMAIN Refreshed(call) = DOMAIN call.batch
              /\ \A row \in DOMAIN call.batch :
                   /\ Refreshed(call)[row].before = call.batch[row].before
                   /\ Refreshed(call)[row].after = call.batch[row].after
                   /\ Refreshed(call)[row].version = call.rows[row].version
<1>1. /\ DOMAIN call.rows = DOMAIN call.batch
      /\ \A row \in DOMAIN call.batch : row \in Rows /\ call.rows[row].version \in Nat
  BY SidesOfACall DEF CallStamped, IsCall, IsRows, Record
<1>2. ASSUME call.kind = "save"
      PROVE  /\ IsBatch(Done(call)) /\ DOMAIN Done(call) = DOMAIN call.batch
             /\ \A row \in DOMAIN call.batch :
                   /\ Done(call)[row].before = Met("save", call.batch[row])
                   /\ Done(call)[row].after = Put("save", call.batch[row])
                   /\ Done(call)[row].version = call.rows[row].version
  <2>1. DOMAIN Done(call) = DOMAIN call.batch
    BY DEF Done
  <2>2. ASSUME NEW row \in DOMAIN call.batch
        PROVE  /\ Done(call)[row] \in [before : RowPatches, after : RowPatches, version : Nat]
               /\ DOMAIN Done(call)[row].before = DOMAIN Done(call)[row].after
               /\ Done(call)[row].before = Met("save", call.batch[row])
               /\ Done(call)[row].after = Put("save", call.batch[row])
               /\ Done(call)[row].version = call.rows[row].version
    <3>1. Done(call)[row] = [before |-> call.batch[row].original, after |-> call.batch[row].edits,
                             version |-> call.rows[row].version]
      BY <2>2 DEF Done
    <3>2. /\ Met("save", call.batch[row]) = call.batch[row].original
          /\ Put("save", call.batch[row]) = call.batch[row].edits
      BY SidesByKind
    <3>3. /\ call.batch[row].original \in RowPatches /\ call.batch[row].edits \in RowPatches
          /\ DOMAIN call.batch[row].original = DOMAIN call.batch[row].edits
      BY <1>2, <2>2 DEF IsCall, IsBuffer, IsEntry
    <3> QED  BY <3>1, <3>2, <3>3, <1>1
  <2> QED  BY <1>1, <2>1, <2>2 DEF IsBatch
<1>3. ASSUME call.kind # "save"
      PROVE  /\ IsBatch(Refreshed(call)) /\ DOMAIN Refreshed(call) = DOMAIN call.batch
             /\ \A row \in DOMAIN call.batch :
                   /\ Refreshed(call)[row].before = call.batch[row].before
                   /\ Refreshed(call)[row].after = call.batch[row].after
                   /\ Refreshed(call)[row].version = call.rows[row].version
  <2>1. DOMAIN Refreshed(call) = DOMAIN call.batch
    BY DEF Refreshed
  <2>2. ASSUME NEW row \in DOMAIN call.batch
        PROVE  /\ Refreshed(call)[row] \in [before : RowPatches, after : RowPatches, version : Nat]
               /\ DOMAIN Refreshed(call)[row].before = DOMAIN Refreshed(call)[row].after
               /\ Refreshed(call)[row].before = call.batch[row].before
               /\ Refreshed(call)[row].after = call.batch[row].after
               /\ Refreshed(call)[row].version = call.rows[row].version
    <3>1. Refreshed(call)[row] = [call.batch[row] EXCEPT !.version = call.rows[row].version]
      BY <2>2 DEF Refreshed
    <3>2. /\ call.batch[row] \in [before : RowPatches, after : RowPatches, version : Nat]
          /\ DOMAIN call.batch[row].before = DOMAIN call.batch[row].after
      BY <1>3, <2>2 DEF IsCall, IsBatch
    <3> QED  BY <3>1, <3>2, <1>1
  <2> QED  BY <1>1, <2>1, <2>2 DEF IsBatch
<1>4. QED
  BY <1>2, <1>3

\* A batch that is stamped goes on a stack; one comes off.
LEMMA StackPushed ==
  ASSUME NEW t, NEW kind, NEW stack, IsList(stack), StackFits(kind, stack, t), NEW b,
         \A i \in DOMAIN stack : IsBatch(stack[i]), IsBatch(b),
         \A row \in DOMAIN b : Stamped(t, row, b[row].version, Met(kind, b[row]))
  PROVE  /\ IsList(Append(stack, b)) /\ StackFits(kind, Append(stack, b), t)
         /\ \A i \in DOMAIN Append(stack, b) : IsBatch(Append(stack, b)[i])
<1> DEFINE new == Append(stack, b)
<1>1. /\ IsList(new) /\ DOMAIN new = 1..(Len(stack) + 1) /\ DOMAIN stack = 1..Len(stack)
      /\ \A i \in 1..Len(stack) : new[i] = stack[i]
      /\ new[Len(stack) + 1] = b /\ Len(stack) \in Nat
  BY ListAppend
<1> HIDE DEF new
<1>2. ASSUME NEW i \in DOMAIN new
      PROVE  (i \in DOMAIN stack /\ new[i] = stack[i]) \/ new[i] = b
  BY <1>1
<1>3. \A i \in DOMAIN new : IsBatch(new[i])
  BY <1>2
<1>4. StackFits(kind, new, t)
  BY <1>2 DEF StackFits
<1>5. QED
  BY <1>1, <1>3, <1>4 DEF new

LEMMA StackPopped ==
  ASSUME NEW t, NEW kind, NEW stack, IsList(stack), StackFits(kind, stack, t),
         \A i \in DOMAIN stack : IsBatch(stack[i])
  PROVE  /\ IsList(Rest(stack)) /\ StackFits(kind, Rest(stack), t)
         /\ \A i \in DOMAIN Rest(stack) : IsBatch(Rest(stack)[i])
<1> DEFINE new == Rest(stack)
<1>1. IsList(new) /\ \A i \in DOMAIN new : i \in DOMAIN stack /\ new[i] = stack[i]
  BY ListRest
<1> HIDE DEF new
<1>2. StackFits(kind, new, t) /\ \A i \in DOMAIN new : IsBatch(new[i])
  BY <1>1 DEF StackFits
<1>3. QED
  BY <1>1, <1>2 DEF new

\* Rows that are shown are rows.
LEMMA ShownRows ==
  ASSUME EditorTypeOK, NEW rows, IsRows(rows), ShowRows(rows)
  PROVE  view' \in [Rows -> Record]
BY DEF EditorTypeOK, ShowRows, IsRows

-----------------------------------------------------------------------------
(* Chains of batches. *)

\* The top of a chain has been called: the rest is a chain over what it put.
LEMMA ChainPopped ==
  ASSUME NEW kind, NEW s, IsList(s), s # <<>>, NEW t, NEW u, Chained(kind, s, t),
         \A row \in Rows, c \in GridColumns :
           u[row].cells[c] = IF Touches(Top(s), row, c) THEN Put(kind, Top(s)[row])[c]
                             ELSE t[row].cells[c]
  PROVE  Chained(kind, Rest(s), u)
<1> DEFINE r == Rest(s)  n == Len(s)
<1>1. /\ n \in Nat /\ n > 0 /\ DOMAIN s = 1..n /\ DOMAIN r = 1..(n - 1) /\ Top(s) = s[n]
      /\ \A i \in DOMAIN r : i \in DOMAIN s /\ r[i] = s[i]
  BY ListRest DEF Top
<1> HIDE DEF r, n
<1>2. SUFFICES ASSUME NEW row \in Rows, NEW c \in GridColumns, NEW i \in DOMAIN r,
                      Touches(r[i], row, c)
               PROVE  /\ \A j \in DOMAIN r :
                           /\ i < j /\ Touches(r[j], row, c)
                           /\ \A m \in DOMAIN r : i < m /\ m < j => ~Touches(r[m], row, c)
                           => Put(kind, r[j][row])[c] = Met(kind, r[i][row])[c]
                      /\ (\A m \in DOMAIN r : i < m => ~Touches(r[m], row, c))
                           => u[row].cells[c] = Met(kind, r[i][row])[c]
  BY DEF Chained, r
<1>3. i \in DOMAIN s /\ Touches(s[i], row, c) /\ r[i] = s[i] /\ i < n /\ i \in Nat
  BY <1>1, <1>2
<1>4. /\ \A j \in DOMAIN s :
           /\ i < j /\ Touches(s[j], row, c)
           /\ \A m \in DOMAIN s : i < m /\ m < j => ~Touches(s[m], row, c)
           => Put(kind, s[j][row])[c] = Met(kind, s[i][row])[c]
      /\ (\A m \in DOMAIN s : i < m => ~Touches(s[m], row, c))
           => t[row].cells[c] = Met(kind, s[i][row])[c]
  BY <1>3 DEF Chained
<1>5. ASSUME NEW j \in DOMAIN r, i < j, Touches(r[j], row, c),
             \A m \in DOMAIN r : i < m /\ m < j => ~Touches(r[m], row, c)
      PROVE  Put(kind, r[j][row])[c] = Met(kind, r[i][row])[c]
  <2>1. j \in DOMAIN s /\ r[j] = s[j]
    BY <1>1
  <2>2. ASSUME NEW m \in DOMAIN s, i < m, m < j PROVE ~Touches(s[m], row, c)
    <3>1. m \in DOMAIN r
      BY <1>1, <2>2
    <3> QED  BY <3>1, <2>2, <1>1, <1>5
  <2> QED  BY <1>3, <1>4, <1>5, <2>1, <2>2
<1>6. ASSUME \A m \in DOMAIN r : i < m => ~Touches(r[m], row, c)
      PROVE  u[row].cells[c] = Met(kind, r[i][row])[c]
  <2>1. \A m \in DOMAIN s : i < m => m = n \/ ~Touches(s[m], row, c)
    <3>1. ASSUME NEW m \in DOMAIN s, i < m, m # n PROVE ~Touches(s[m], row, c)
      <4>1. m \in DOMAIN r
        BY <1>1, <3>1
      <4> QED  BY <4>1, <3>1, <1>1, <1>6
    <3> QED  BY <3>1
  <2>2. CASE Touches(s[n], row, c)
    <3>1. Put(kind, s[n][row])[c] = Met(kind, s[i][row])[c]
      <4>1. n \in DOMAIN s /\ i < n /\ \A m \in DOMAIN s : i < m /\ m < n => ~Touches(s[m], row, c)
        BY <1>1, <1>3, <2>1
      <4> QED  BY <1>4, <2>2, <4>1
    <3> QED  BY <3>1, <2>2, <1>1, <1>3
  <2>3. CASE ~Touches(s[n], row, c)
    <3>1. t[row].cells[c] = Met(kind, s[i][row])[c]
      BY <1>4, <2>1, <2>3
    <3> QED  BY <3>1, <2>3, <1>1, <1>3
  <2> QED  BY <2>2, <2>3
<1>7. QED
  BY <1>5, <1>6

\* A batch that met what the chain left, and left what it is to meet, continues it.
LEMMA ChainPushed ==
  ASSUME NEW kind, NEW s, IsList(s), NEW t, NEW u, Chained(kind, s, t), NEW b,
         \A row \in Rows, c \in GridColumns :
           IF Touches(b, row, c)
           THEN t[row].cells[c] = Put(kind, b[row])[c] /\ u[row].cells[c] = Met(kind, b[row])[c]
           ELSE u[row].cells[c] = t[row].cells[c]
  PROVE  Chained(kind, Append(s, b), u)
<1> DEFINE r == Append(s, b)  n == Len(s) + 1
<1>1. /\ n \in Nat /\ n > 0 /\ DOMAIN s = 1..(n - 1) /\ DOMAIN r = 1..n /\ r[n] = b
      /\ \A i \in DOMAIN s : r[i] = s[i]
  BY ListAppend
<1> HIDE DEF r, n
<1>2. SUFFICES ASSUME NEW row \in Rows, NEW c \in GridColumns, NEW i \in DOMAIN r,
                      Touches(r[i], row, c)
               PROVE  /\ \A j \in DOMAIN r :
                           /\ i < j /\ Touches(r[j], row, c)
                           /\ \A m \in DOMAIN r : i < m /\ m < j => ~Touches(r[m], row, c)
                           => Put(kind, r[j][row])[c] = Met(kind, r[i][row])[c]
                      /\ (\A m \in DOMAIN r : i < m => ~Touches(r[m], row, c))
                           => u[row].cells[c] = Met(kind, r[i][row])[c]
  BY DEF Chained, r
<1>3. CASE i = n
  <2>1. \A j \in DOMAIN r : ~(i < j)
    BY <1>1, <1>3
  <2>2. u[row].cells[c] = Met(kind, r[i][row])[c]
    BY <1>1, <1>2, <1>3
  <2> QED  BY <2>1, <2>2
<1>4. CASE i # n
  <2>1. i \in DOMAIN s /\ r[i] = s[i] /\ Touches(s[i], row, c)
    BY <1>1, <1>2, <1>4
  <2>2. /\ \A j \in DOMAIN s :
             /\ i < j /\ Touches(s[j], row, c)
             /\ \A m \in DOMAIN s : i < m /\ m < j => ~Touches(s[m], row, c)
             => Put(kind, s[j][row])[c] = Met(kind, s[i][row])[c]
        /\ (\A m \in DOMAIN s : i < m => ~Touches(s[m], row, c))
             => t[row].cells[c] = Met(kind, s[i][row])[c]
    BY <2>1 DEF Chained
  <2>3. ASSUME NEW j \in DOMAIN r, i < j, Touches(r[j], row, c),
               \A m \in DOMAIN r : i < m /\ m < j => ~Touches(r[m], row, c)
        PROVE  Put(kind, r[j][row])[c] = Met(kind, r[i][row])[c]
    <3>1. \A m \in DOMAIN s : m \in DOMAIN r /\ r[m] = s[m] /\ m < n
      BY <1>1
    <3>2. CASE j = n
      <4>1. \A m \in DOMAIN s : i < m => ~Touches(s[m], row, c)
        BY <2>3, <3>1, <3>2
      <4>2. t[row].cells[c] = Met(kind, s[i][row])[c]
        BY <2>2, <4>1
      <4>3. t[row].cells[c] = Put(kind, b[row])[c]
        BY <1>1, <2>3, <3>2
      <4> QED  BY <4>2, <4>3, <3>2, <2>1, <1>1
    <3>3. CASE j # n
      <4>1. j \in DOMAIN s /\ r[j] = s[j]
        BY <1>1, <3>3
      <4>2. \A m \in DOMAIN s : i < m /\ m < j => ~Touches(s[m], row, c)
        BY <2>3, <3>1
      <4> QED  BY <4>1, <4>2, <2>1, <2>2, <2>3
    <3> QED  BY <3>2, <3>3
  <2>4. ASSUME \A m \in DOMAIN r : i < m => ~Touches(r[m], row, c)
        PROVE  u[row].cells[c] = Met(kind, r[i][row])[c]
    <3>1. \A m \in DOMAIN s : m \in DOMAIN r /\ r[m] = s[m]
      BY <1>1
    <3>2. ~Touches(b, row, c)
      <4>1. n \in DOMAIN r /\ i < n
        BY <1>1, <2>1
      <4> QED  BY <4>1, <2>4, <1>1
    <3>3. \A m \in DOMAIN s : i < m => ~Touches(s[m], row, c)
      BY <2>4, <3>1
    <3>4. t[row].cells[c] = Met(kind, s[i][row])[c]
      BY <2>2, <3>3
    <3> QED  BY <3>2, <3>4, <2>1
  <2> QED  BY <2>3, <2>4
<1>5. QED
  BY <1>3, <1>4

-----------------------------------------------------------------------------
(* The invariant. *)

LEMMA EditorInvInit ==
  ASSUME EditorInit
  PROVE  EditorInv
<1>1. /\ table \in [Rows -> Record] /\ (\A row \in Rows : table[row].live) /\ view = table
      /\ mode \in {"version", "preimage"} /\ others = 0
      /\ buffer = <<>> /\ calls = <<>> /\ undo = <<>> /\ redo = <<>>
  BY DEF EditorInit, Fresh, Record
<1>2. IsList(<<>>)
  BY EmptySeq, SeqIsList
<1>3. DOMAIN <<>> = {}
  BY NothingHasNoRows
<1>4. EditorTypeOK
  BY <1>1, <1>2, <1>3, EmptyBuffer, MaxOthersAssumption DEF EditorTypeOK
<1>5. StampsFit
  BY <1>1, <1>3 DEF StampsFit, StackFits
<1>6. TopsAreCalled /\ UndoNeedsNobody
  BY <1>1 DEF TopsAreCalled, TopIsCalled, UndoNeedsNobody
<1>7. UndoToCome = <<>> /\ RedoToCome = <<>>
  BY <1>1 DEF UndoToCome, RedoToCome, Coming
<1>8. StacksInOrder
  BY <1>1, <1>3, <1>7 DEF StacksInOrder, Chained
<1>9. QED
  BY <1>4, <1>5, <1>6, <1>8 DEF EditorInv

\* A step of the view and the buffer alone.
LEMMA ViewStep ==
  ASSUME EditorInv, EditorTypeOK', UNCHANGED <<mode, table, others, calls, undo, redo>>
  PROVE  EditorInv'
<1>1. StampsFit'
  BY DEF EditorInv, StampsFit
<1>2. TopsAreCalled' /\ UndoNeedsNobody'
  BY DEF EditorInv, TopsAreCalled, TopIsCalled, UndoNeedsNobody, Alone, LatestCall
<1>3. StacksInOrder'
  BY DEF EditorInv, StacksInOrder, Alone, LatestCall, UndoToCome, RedoToCome, Coming
<1>4. QED
  BY <1>1, <1>2, <1>3 DEF EditorInv

LEMMA OthersStep ==
  ASSUME EditorInv, NEW row \in Rows, NEW col \in GridColumns, NEW val \in GridValues,
         OtherWrites(row, col, val)
  PROVE  EditorInv' /\ Grown(table, table')
<1> USE DEF EditorInv
<1>1. /\ others < MaxOthers /\ others' = others + 1
      /\ table' = [table EXCEPT ![row].cells[col] = val, ![row].version = @ + 1]
      /\ UNCHANGED <<mode, view, buffer, calls, undo, redo>>
  BY DEF OtherWrites
<1>2. others \in Nat /\ others' \in 0..MaxOthers /\ others' # 0
  BY <1>1, MaxOthersAssumption DEF EditorTypeOK
<1>3. \A r \in Rows : /\ table[r] \in Record /\ table[r].version \in Nat /\ table[r].live
                      /\ table[r].cells \in [GridColumns -> GridValues]
  BY DEF EditorTypeOK, Record
<1>4. /\ DOMAIN table' = Rows /\ table' = [r \in Rows |-> table'[r]]
      /\ \A r \in Rows \ {row} : table'[r] = table[r]
      /\ table'[row] \in Record /\ table'[row].live /\ table'[row].version = table[row].version + 1
  <2> DEFINE mid == [table EXCEPT ![row].cells[col] = val]
  <2>1. table' = [mid EXCEPT ![row].version = table[row].version + 1]
    BY <1>1 DEF EditorTypeOK
  <2>2. /\ mid \in [Rows -> Record] /\ mid[row].live /\ mid[row].version = table[row].version
        /\ \A r \in Rows \ {row} : mid[r] = table[r]
    BY <1>3 DEF EditorTypeOK, Record
  <2> HIDE DEF mid
  <2>3. table[row].version + 1 \in Nat
    BY <1>3
  <2> QED  BY <2>1, <2>2, <2>3 DEF Record
<1>5. /\ table' \in [Rows -> Record] /\ (\A r \in Rows : table'[r].live)
  BY <1>3, <1>4
<1>6. Grown(table, table')
  BY <1>3, <1>4 DEF Grown
<1>7. EditorTypeOK'
  BY <1>1, <1>2, <1>5 DEF EditorTypeOK
<1>8. StampsFit'
  <2>1. ASSUME NEW i \in DOMAIN calls' PROVE CallStamped(calls'[i], table')
    BY <1>1, <1>6, CallKept DEF StampsFit, EditorTypeOK
  <2>2. StackFits("undo", undo, table') /\ StackFits("redo", redo, table')
    BY <1>6, StackKept DEF StampsFit, EditorTypeOK
  <2> QED  BY <1>1, <2>1, <2>2 DEF StampsFit
<1>9. TopsAreCalled'
  BY <1>1 DEF TopsAreCalled, TopIsCalled, LatestCall
<1>10. StacksInOrder' /\ UndoNeedsNobody'
  BY <1>2 DEF StacksInOrder, UndoNeedsNobody, Alone
<1>11. QED
  BY <1>6, <1>7, <1>8, <1>9, <1>10

LEMMA CallStep ==
  ASSUME EditorInv, SaveBuffer \/ Undo \/ Redo
  PROVE  EditorInv' /\ UNCHANGED table /\ \A i \in DOMAIN calls : calls'[i] = calls[i]
<1> USE DEF EditorInv
<1>0. PICK kind \in {"save", "undo", "redo"} : \E batch :
        /\ Call(kind, batch, EditsOf(kind, batch))
        /\ kind = "save" => IsBuffer(batch)
        /\ kind = "undo" => undo # <<>> /\ batch = Top(undo) /\ Len(undo) \in DOMAIN undo
        /\ kind = "redo" => redo # <<>> /\ batch = Top(redo) /\ Len(redo) \in DOMAIN redo
        /\ kind # "save" => IsBatch(batch)
  BY CallsMade
<1>1. PICK batch :
        /\ kind \in {"save", "undo", "redo"}
        /\ Call(kind, batch, EditsOf(kind, batch))
        /\ kind = "save" => IsBuffer(batch)
        /\ kind = "undo" => undo # <<>> /\ batch = Top(undo) /\ Len(undo) \in DOMAIN undo
        /\ kind = "redo" => redo # <<>> /\ batch = Top(redo) /\ Len(redo) \in DOMAIN redo
        /\ kind # "save" => IsBatch(batch)
  BY <1>0
<1> DEFINE n == Len(calls)
           new == [kind |-> kind, batch |-> batch, edits |-> EditsOf(kind, batch),
                   outcome |-> "none", rows |-> <<>>, answered |-> FALSE]
<1>2. /\ EditorTypeOK' /\ UNCHANGED <<mode, table, others, view, buffer, undo, redo>>
      /\ DOMAIN calls = 1..n /\ n \in Nat /\ DOMAIN calls' = 1..(n + 1) /\ Len(calls') = n + 1
      /\ \A i \in DOMAIN calls : calls'[i] = calls[i]
      /\ calls'[n + 1] = new
  BY <1>1, CallMade
<1>3. LatestCall' = n + 1 /\ LatestCall = n /\ calls' # <<>>
      /\ (calls # <<>> <=> n > 0)
  BY <1>2, NothingHasNoRows, ListIsSeq DEF LatestCall, EditorTypeOK
<1> HIDE DEF n
<1>4. CallStamped(new, table)
  <2>1. ASSUME kind # "save", NEW row \in DOMAIN batch
        PROVE  Stamped(table, row, batch[row].version, Met(kind, batch[row]))
    <3>1. CASE kind = "undo"
      BY <3>1, <1>1, <2>1 DEF StampsFit, StackFits, Top
    <3>2. CASE kind = "redo"
      BY <3>2, <1>1, <2>1 DEF StampsFit, StackFits, Top
    <3> QED  BY <3>1, <3>2, <2>1
  <2> QED  BY <2>1 DEF CallStamped, EditsOf
<1>5. StampsFit'
  <2> HIDE DEF new
  <2>1. ASSUME NEW i \in DOMAIN calls' PROVE CallStamped(calls'[i], table')
    <3>1. i \in DOMAIN calls \/ i = n + 1
      BY <1>2
    <3> QED  BY <3>1, <1>2, <1>4 DEF StampsFit
  <2> QED  BY <2>1, <1>2 DEF StampsFit
<1>6. calls'[LatestCall'].kind = kind /\ calls'[LatestCall'].batch = batch
      /\ calls'[LatestCall'].outcome = "none"
  BY <1>2, <1>3
<1>7. TopsAreCalled' /\ UndoNeedsNobody'
  BY <1>1, <1>2, <1>6 DEF TopsAreCalled, TopIsCalled, UndoNeedsNobody, Top
<1>8. StacksInOrder'
  <2>1. SUFFICES ASSUME mode = "preimage", Alone'
                 PROVE  Chained("undo", undo, table) /\ Chained("redo", redo, table)
    <3>1. UndoToCome' = undo /\ RedoToCome' = redo
      BY <1>2, <1>6 DEF UndoToCome, RedoToCome, Coming
    <3> QED  BY <1>2, <3>1 DEF StacksInOrder
  <2>2. \A i \in 1..n : calls[i].answered /\ calls[i].outcome # "failed"
    BY <2>1, <1>2, <1>3 DEF Alone
  <2>3. Alone /\ (calls # <<>> => calls[LatestCall].outcome # "failed" /\ calls[LatestCall].answered)
    BY <2>1, <2>2, <1>2, <1>3 DEF Alone
  <2>4. UndoToCome = undo /\ RedoToCome = redo
    BY <2>3 DEF UndoToCome, RedoToCome, Coming
  <2> QED  BY <2>1, <2>3, <2>4 DEF StacksInOrder
<1>9. QED
  BY <1>2, <1>5, <1>7, <1>8

\* By pre-images, a call fits when its rows hold what it is to meet.
LEMMA FitsByCells ==
  ASSUME EditorTypeOK, StampsFit, mode = "preimage", NEW i \in DOMAIN calls, calls[i].outcome = "none"
  PROVE  Fits(i) <=> \A row \in DOMAIN calls[i].batch :
                       \A c \in DOMAIN Put(calls[i].kind, calls[i].batch[row]) :
                         table[row].cells[c] = Met(calls[i].kind, calls[i].batch[row])[c]
<1> DEFINE call == calls[i]
<1>1. call.edits = EditsOf(call.kind, call.batch) /\ DOMAIN call.edits = DOMAIN call.batch
      /\ DOMAIN call.batch \subseteq Rows
  BY WrittenRows
<1>2. ASSUME NEW row \in DOMAIN call.batch
      PROVE  Unchanged(mode, call.edits[row], table[row]) <=>
               \A c \in DOMAIN Put(call.kind, call.batch[row]) :
                 table[row].cells[c] = Met(call.kind, call.batch[row])[c]
  <2>1. /\ call.edits[row].patch = Put(call.kind, call.batch[row])
        /\ call.edits[row].seen.cells = Met(call.kind, call.batch[row])
    BY <1>1, <1>2 DEF EditsOf, Guarded
  <2>2. table[row].live
    BY <1>1, <1>2 DEF EditorTypeOK
  <2> QED  BY <2>1, <2>2 DEF Unchanged
<1>3. QED
  BY <1>1, <1>2 DEF Fits

\* The cells a saved call has met and put.
LEMMA CellsServed ==
  ASSUME EditorTypeOK, StampsFit, mode = "preimage", NEW i \in DOMAIN calls, Serve(i),
         calls'[i].outcome = "saved", NEW row \in Rows, NEW c \in GridColumns
  PROVE  LET call == calls[i]
         IN  IF row \in DOMAIN call.batch /\ c \in DOMAIN Put(call.kind, call.batch[row])
             THEN /\ table[row].cells[c] = Met(call.kind, call.batch[row])[c]
                  /\ table'[row].cells[c] = Put(call.kind, call.batch[row])[c]
             ELSE table'[row].cells[c] = table[row].cells[c]
<1> DEFINE call == calls[i]
<1>1. Fits(i) /\ call.outcome = "none"
      /\ table' = [r \in Rows |-> IF r \in DOMAIN call.batch THEN Written(i)[r] ELSE table[r]]
  BY ServeKeeps, ServeOutcomes
<1>2. CASE row \in DOMAIN call.batch
  <2>1. table'[row] = Written(i)[row]
    BY <1>1, <1>2
  <2>2. LET put == Put(call.kind, call.batch[row])
        IN  Written(i)[row].cells[c] = IF c \in DOMAIN put THEN put[c] ELSE table[row].cells[c]
    BY <1>1, <1>2, WrittenRows
  <2>3. c \in DOMAIN Put(call.kind, call.batch[row]) =>
          table[row].cells[c] = Met(call.kind, call.batch[row])[c]
    BY <1>1, <1>2, FitsByCells
  <2> QED  BY <1>2, <2>1, <2>2, <2>3
<1>3. CASE row \notin DOMAIN call.batch
  BY <1>1, <1>3
<1>4. QED
  BY <1>2, <1>3

\* The top of a chain meets what it is to meet.
LEMMA ChainTop ==
  ASSUME NEW kind \in {"undo", "redo"}, NEW s, IsList(s), s # <<>>, \A i \in DOMAIN s : IsBatch(s[i]),
         NEW t, Chained(kind, s, t), NEW row \in DOMAIN Top(s),
         NEW c \in DOMAIN Put(kind, Top(s)[row])
  PROVE  t[row].cells[c] = Met(kind, Top(s)[row])[c]
<1>1. Len(s) \in DOMAIN s /\ Top(s) = s[Len(s)] /\ DOMAIN s = 1..Len(s) /\ Len(s) \in Nat
  BY ListIsSeq DEF Top
<1>2. IsBatch(Top(s))
  BY <1>1
<1>3. /\ row \in Rows /\ Top(s)[row].before \in RowPatches
      /\ DOMAIN Top(s)[row].before = DOMAIN Top(s)[row].after
  BY <1>2 DEF IsBatch
<1>4. c \in DOMAIN Top(s)[row].before /\ c \in DOMAIN Top(s)[row].after
  BY <1>3, SidesByKind
<1>5. c \in GridColumns
  BY <1>3, <1>4, PatchFacts
<1>6. Touches(s[Len(s)], row, c)
  BY <1>1, <1>4 DEF Touches
<1>7. \A m \in DOMAIN s : ~(Len(s) < m)
  BY <1>1
<1>8. QED
  BY <1>1, <1>3, <1>5, <1>6, <1>7 DEF Chained

\* With nobody else about, an undo or a redo fits.
LEMMA TopFits ==
  ASSUME EditorInv, mode = "preimage", Alone, NEW i \in DOMAIN calls, i = LatestCall,
         calls[i].outcome = "none", calls[i].kind # "save"
  PROVE  Fits(i)
<1> USE DEF EditorInv
<1>1. calls # <<>> /\ IsCall(calls[i]) /\ ~calls[i].answered
  BY WrittenRows, NothingHasNoRows DEF EditorTypeOK
<1>2. UndoToCome = undo /\ RedoToCome = redo
  BY DEF UndoToCome, RedoToCome, Coming
<1>3. Chained("undo", undo, table) /\ Chained("redo", redo, table)
  BY <1>2 DEF StacksInOrder
<1>4. CASE calls[i].kind = "undo"
  <2>1. undo # <<>> /\ calls[i].batch = Top(undo)
    BY <1>1, <1>4 DEF TopsAreCalled, TopIsCalled
  <2>2. \A row \in DOMAIN calls[i].batch : \A c \in DOMAIN Put("undo", calls[i].batch[row]) :
          table[row].cells[c] = Met("undo", calls[i].batch[row])[c]
    BY <1>3, <2>1, ChainTop DEF EditorTypeOK
  <2> QED  BY <1>4, <2>2, FitsByCells
<1>5. CASE calls[i].kind = "redo"
  <2>1. redo # <<>> /\ calls[i].batch = Top(redo)
    BY <1>1, <1>5 DEF TopsAreCalled, TopIsCalled
  <2>2. \A row \in DOMAIN calls[i].batch : \A c \in DOMAIN Put("redo", calls[i].batch[row]) :
          table[row].cells[c] = Met("redo", calls[i].batch[row])[c]
    BY <1>3, <2>1, ChainTop DEF EditorTypeOK
  <2> QED  BY <1>5, <2>2, FitsByCells
<1>6. QED
  BY <1>1, <1>4, <1>5 DEF IsCall

LEMMA ServeStep ==
  ASSUME EditorInv, NEW i \in DOMAIN calls, Serve(i)
  PROVE  EditorInv'
<1> USE DEF EditorInv
<1> DEFINE n == Len(calls)
           call == calls[i]
           now == calls'[n]
<1>1. /\ EditorTypeOK' /\ StampsFit'
      /\ Len(calls') = n /\ DOMAIN calls' = DOMAIN calls /\ DOMAIN calls = 1..n
      /\ \A j \in DOMAIN calls : j # i => calls'[j] = calls[j]
      /\ calls'[i].kind = call.kind /\ ~calls'[i].answered /\ ~call.answered
      /\ calls'[i].outcome \in {"saved", "refused", "failed"}
      /\ calls'[i].outcome = "refused" => ~Fits(i) /\ table' = table
      /\ calls'[i].outcome = "saved" /\ i = n => calls'[i].batch = call.batch
  BY ServeKeeps
<1>2. /\ UNCHANGED <<mode, others, view, buffer, undo, redo>> /\ call.outcome = "none"
  BY ServeOutcomes
<1>3. n \in Nat /\ LatestCall = n /\ LatestCall' = n /\ calls # <<>> /\ n \in DOMAIN calls
  BY <1>1, ListIsSeq, NothingHasNoRows DEF LatestCall, EditorTypeOK
<1>4. TopsAreCalled'
  <2>1. CASE i # n
    BY <2>1, <1>1, <1>2, <1>3 DEF TopsAreCalled, TopIsCalled
  <2>2. CASE i = n
    BY <2>2, <1>1, <1>2, <1>3 DEF TopsAreCalled, TopIsCalled
  <2> QED  BY <2>1, <2>2
<1>5. Alone' => Alone /\ i = n
  <2>1. ASSUME Alone' PROVE i = n
    <3>1. \A j \in 1..(n - 1) : calls'[j].answered
      BY <1>3, <2>1 DEF Alone
    <3>2. CASE i # n
      BY <3>1, <3>2, <1>1, <1>3
    <3> QED  BY <3>2
  <2>2. ASSUME Alone' PROVE Alone
    <3>1. ASSUME NEW j \in 1..(n - 1) PROVE calls[j].answered /\ calls[j].outcome # "failed"
      <4>1. j \in DOMAIN calls /\ j # i
        BY <1>1, <1>3, <2>1, <2>2
      <4>2. calls'[j] = calls[j]
        BY <1>1, <4>1, Zenon
      <4>3. calls'[j].answered /\ calls'[j].outcome # "failed"
        BY <1>3, <2>2, Zenon DEF Alone
      <4> QED  BY <4>2, <4>3, Zenon
    <3>2. others = 0
      BY <1>2, <2>2, Zenon DEF Alone
    <3> QED  BY <3>1, <3>2, <1>3, Zenon DEF Alone
  <2> QED  BY <2>1, <2>2
<1>6. mode = "preimage" /\ Alone' /\ call.kind # "save" => calls'[i].outcome # "refused"
  BY <1>1, <1>2, <1>3, <1>5, TopFits
<1>7. UndoNeedsNobody'
  BY <1>1, <1>2, <1>3, <1>5, <1>6 DEF UndoNeedsNobody
<1>8. StacksInOrder'
  <2>1. SUFFICES ASSUME mode = "preimage", Alone', now.outcome # "failed"
                 PROVE  Chained("undo", UndoToCome', table') /\ Chained("redo", RedoToCome', table')
    BY <1>2, <1>3, NothingHasNoRows, <1>1 DEF StacksInOrder
  <2>2. i = n /\ Alone
    BY <2>1, <1>5
  <2>3. Chained("undo", undo, table) /\ Chained("redo", redo, table)
    <3>1. UndoToCome = undo /\ RedoToCome = redo
      BY <1>2, <1>3, <2>2 DEF UndoToCome, RedoToCome, Coming
    <3> QED  BY <1>2, <1>3, <2>1, <2>2, <3>1 DEF StacksInOrder
  <2>4. CASE now.outcome = "refused"
    <3>1. UndoToCome' = undo /\ RedoToCome' = redo
      BY <1>2, <1>3, <2>2, <2>4 DEF UndoToCome, RedoToCome, Coming
    <3> QED  BY <1>1, <2>2, <2>3, <2>4, <3>1
  <2>5. CASE now.outcome = "saved"
    <3>1. /\ now.batch = call.batch /\ now.kind = call.kind /\ ~now.answered
          /\ IsCall(now) /\ CallStamped(now, table')
      BY <1>1, <1>3, <2>2, <2>5 DEF EditorTypeOK, StampsFit
    <3>2. ASSUME NEW row \in Rows, NEW c \in GridColumns
          PROVE  IF row \in DOMAIN now.batch /\ c \in DOMAIN Put(now.kind, now.batch[row])
                 THEN /\ table[row].cells[c] = Met(now.kind, now.batch[row])[c]
                      /\ table'[row].cells[c] = Put(now.kind, now.batch[row])[c]
                 ELSE table'[row].cells[c] = table[row].cells[c]
      BY <2>1, <2>2, <2>5, <3>1, CellsServed
    <3>3. Coming' /\ calls'[LatestCall'] = now
      <4>1. calls' # <<>>
        BY <1>1, <1>3, NothingHasNoRows
      <4> QED  BY <1>3, <2>5, <3>1, <4>1 DEF Coming
    <3>4. CASE call.kind = "save"
      <4> DEFINE b == Done(now)
      <4>1. UndoToCome' = Append(undo, b) /\ RedoToCome' = <<>>
        BY <1>2, <3>1, <3>3, <3>4 DEF UndoToCome, RedoToCome
      <4>2. /\ DOMAIN b = DOMAIN now.batch
            /\ \A row \in DOMAIN now.batch : /\ b[row].before = Met("save", now.batch[row])
                                             /\ b[row].after = Put("save", now.batch[row])
        BY <2>5, <3>1, <3>4, BatchesOfAnswers
      <4> HIDE DEF b
      <4>3. ASSUME NEW row \in Rows, NEW c \in GridColumns
            PROVE  IF Touches(b, row, c)
                   THEN /\ table[row].cells[c] = Put("undo", b[row])[c]
                        /\ table'[row].cells[c] = Met("undo", b[row])[c]
                   ELSE table'[row].cells[c] = table[row].cells[c]
        <5>1. Put("undo", b[row]) = b[row].before /\ Met("undo", b[row]) = b[row].after
          BY SidesByKind
        <5> QED  BY <3>1, <3>2, <3>4, <4>2, <5>1 DEF Touches
      <4>4. Chained("undo", Append(undo, b), table')
        BY <2>3, <4>3, ChainPushed DEF EditorTypeOK
      <4>5. Chained("redo", <<>>, table')
        BY NothingHasNoRows DEF Chained
      <4> QED  BY <4>1, <4>4, <4>5
    <3>5. CASE call.kind = "undo"
      <4> DEFINE b == Refreshed(now)
      <4>1. UndoToCome' = Rest(undo) /\ RedoToCome' = Append(redo, b)
        BY <1>2, <3>1, <3>3, <3>5 DEF UndoToCome, RedoToCome
      <4>2. /\ DOMAIN b = DOMAIN now.batch
            /\ \A row \in DOMAIN now.batch : /\ b[row].before = now.batch[row].before
                                             /\ b[row].after = now.batch[row].after
                                             /\ DOMAIN now.batch[row].before = DOMAIN now.batch[row].after
        BY <2>5, <3>1, <3>5, BatchesOfAnswers DEF IsCall, IsBatch
      <4> HIDE DEF b
      <4>3. undo # <<>> /\ now.batch = Top(undo)
        BY <1>1, <1>2, <1>3, <2>2, <3>1, <3>5 DEF TopsAreCalled, TopIsCalled
      <4>4. ASSUME NEW row \in Rows, NEW c \in GridColumns
            PROVE  /\ table'[row].cells[c] = IF Touches(Top(undo), row, c)
                                             THEN Put("undo", Top(undo)[row])[c]
                                             ELSE table[row].cells[c]
                   /\ IF Touches(b, row, c)
                      THEN /\ table[row].cells[c] = Put("redo", b[row])[c]
                           /\ table'[row].cells[c] = Met("redo", b[row])[c]
                      ELSE table'[row].cells[c] = table[row].cells[c]
        <5>1. /\ Put("undo", now.batch[row]) = now.batch[row].before
              /\ Met("undo", now.batch[row]) = now.batch[row].after
              /\ Put("redo", b[row]) = b[row].after /\ Met("redo", b[row]) = b[row].before
          BY SidesByKind
        <5> QED  BY <3>1, <3>2, <3>5, <4>2, <4>3, <5>1 DEF Touches
      <4>5. Chained("redo", Append(redo, b), table')
        BY <2>3, <4>4, ChainPushed DEF EditorTypeOK
      <4>6. Chained("undo", Rest(undo), table')
        BY <2>3, <4>3, <4>4, ChainPopped DEF EditorTypeOK
      <4> QED  BY <4>1, <4>5, <4>6
    <3>6. CASE call.kind = "redo"
      <4> DEFINE b == Refreshed(now)
      <4>1. UndoToCome' = Append(undo, b) /\ RedoToCome' = Rest(redo)
        BY <1>2, <3>1, <3>3, <3>6 DEF UndoToCome, RedoToCome
      <4>2. /\ DOMAIN b = DOMAIN now.batch
            /\ \A row \in DOMAIN now.batch : /\ b[row].before = now.batch[row].before
                                             /\ b[row].after = now.batch[row].after
                                             /\ DOMAIN now.batch[row].before = DOMAIN now.batch[row].after
        BY <2>5, <3>1, <3>6, BatchesOfAnswers DEF IsCall, IsBatch
      <4> HIDE DEF b
      <4>3. redo # <<>> /\ now.batch = Top(redo)
        BY <1>1, <1>2, <1>3, <2>2, <3>1, <3>6 DEF TopsAreCalled, TopIsCalled
      <4>4. ASSUME NEW row \in Rows, NEW c \in GridColumns
            PROVE  /\ table'[row].cells[c] = IF Touches(Top(redo), row, c)
                                             THEN Put("redo", Top(redo)[row])[c]
                                             ELSE table[row].cells[c]
                   /\ IF Touches(b, row, c)
                      THEN /\ table[row].cells[c] = Put("undo", b[row])[c]
                           /\ table'[row].cells[c] = Met("undo", b[row])[c]
                      ELSE table'[row].cells[c] = table[row].cells[c]
        <5>1. /\ Put("redo", now.batch[row]) = now.batch[row].after
              /\ Met("redo", now.batch[row]) = now.batch[row].before
              /\ Put("undo", b[row]) = b[row].before /\ Met("undo", b[row]) = b[row].after
          BY SidesByKind
        <5> QED  BY <3>1, <3>2, <3>6, <4>2, <4>3, <5>1 DEF Touches
      <4>5. Chained("undo", Append(undo, b), table')
        BY <2>3, <4>4, ChainPushed DEF EditorTypeOK
      <4>6. Chained("redo", Rest(redo), table')
        BY <2>3, <4>3, <4>4, ChainPopped DEF EditorTypeOK
      <4> QED  BY <4>1, <4>5, <4>6
    <3> QED  BY <3>1, <3>4, <3>5, <3>6 DEF IsCall
  <2> QED  BY <1>1, <2>1, <2>2, <2>4, <2>5
<1>9. QED
  BY <1>1, <1>4, <1>7, <1>8

\* What every answer leaves of the calls.
LEMMA AnsweredCalls ==
  ASSUME EditorInv, NEW outcome \in {"saved", "refused", "failed"}, CallAnswers(outcome)
  PROVE  /\ \A i \in DOMAIN calls' : CallStamped(calls'[i], table')
         /\ TopsAreCalled' /\ UndoNeedsNobody'
         /\ UndoToCome' = undo' /\ RedoToCome' = redo'
         /\ LatestCall' = LatestCall /\ calls' # <<>> /\ calls # <<>>
         /\ calls'[LatestCall'].outcome = outcome
         /\ Alone' => Alone
<1> USE DEF EditorInv
<1> DEFINE L == Len(calls)
           now == calls'[L]
<1>1. /\ UNCHANGED <<mode, table, others>>
      /\ L \in DOMAIN calls /\ L = LatestCall /\ DOMAIN calls = 1..L /\ L \in Nat
      /\ calls[L].outcome = outcome /\ ~calls[L].answered
      /\ now = [kind |-> calls[L].kind, batch |-> <<>>, edits |-> <<>>,
                outcome |-> outcome, rows |-> <<>>, answered |-> TRUE]
      /\ Len(calls') = L /\ DOMAIN calls' = DOMAIN calls
      /\ \A j \in DOMAIN calls : j # L => calls'[j] = calls[j]
  BY AnswerFacts
<1>2. /\ now.kind = calls[L].kind /\ now.batch = <<>> /\ now.rows = <<>>
      /\ now.outcome = outcome /\ now.answered
  BY <1>1
<1>3. LatestCall' = L /\ calls # <<>> /\ calls' # <<>>
  BY <1>1, NothingHasNoRows DEF LatestCall
<1> HIDE DEF now, L
<1>4. CallStamped(now, table')
  BY <1>2, NothingHasNoRows DEF CallStamped
<1>5. \A i \in DOMAIN calls' : CallStamped(calls'[i], table')
  <2>1. ASSUME NEW i \in DOMAIN calls' PROVE CallStamped(calls'[i], table')
    <3>1. CASE i = L
      BY <3>1, <1>4 DEF now
    <3>2. CASE i # L
      BY <3>2, <1>1 DEF StampsFit
    <3> QED  BY <3>1, <3>2
  <2> QED  BY <2>1
<1>6. calls'[LatestCall'] = now
  BY <1>3 DEF now
<1>7. TopsAreCalled' /\ UndoToCome' = undo' /\ RedoToCome' = redo'
  BY <1>2, <1>6 DEF TopsAreCalled, TopIsCalled, UndoToCome, RedoToCome, Coming
<1>8. ASSUME Alone' PROVE Alone
  <2>1. \A j \in 1..(L - 1) : calls'[j].answered /\ calls'[j].outcome # "failed" /\ calls'[j] = calls[j]
    BY <1>1, <1>3, <1>8 DEF Alone
  <2> QED  BY <2>1, <1>1, <1>8 DEF Alone
<1>9. UndoNeedsNobody'
  BY <1>1, <1>2, <1>3, <1>6, <1>8 DEF UndoNeedsNobody
<1>10. QED
  BY <1>1, <1>2, <1>3, <1>5, <1>6, <1>7, <1>8, <1>9

LEMMA AnswerStep ==
  ASSUME EditorInv, SavedBuffer \/ UndoAnswered \/ RedoAnswered \/ ErrorAnswered
  PROVE  /\ EditorInv' /\ UNCHANGED table
         /\ DOMAIN calls' = DOMAIN calls /\ \A i \in DOMAIN calls : calls'[i].outcome = calls[i].outcome
<1> USE DEF EditorInv
<1> DEFINE call == calls[LatestCall]
<1>1. PICK outcome \in {"saved", "refused", "failed"} : CallAnswers(outcome)
  BY DEF SavedBuffer, UndoAnswered, RedoAnswered, ErrorAnswered
<1>2. /\ UNCHANGED <<mode, table, others>>
      /\ LatestCall \in DOMAIN calls /\ IsCall(call) /\ CallStamped(call, table)
      /\ call.outcome = outcome /\ ~call.answered
      /\ calls'[LatestCall].outcome = outcome
      /\ IsList(calls') /\ DOMAIN calls' = DOMAIN calls
      /\ \A j \in DOMAIN calls : j # LatestCall => calls'[j] = calls[j]
      /\ \A j \in DOMAIN calls' : IsCall(calls'[j])
  <2> DEFINE L == Len(calls)
  <2>1. /\ UNCHANGED <<mode, table, others>>
        /\ L \in DOMAIN calls /\ IsCall(calls[L])
        /\ calls[L].outcome = outcome /\ ~calls[L].answered
        /\ calls'[L] = [kind |-> calls[L].kind, batch |-> <<>>, edits |-> <<>>,
                        outcome |-> outcome, rows |-> <<>>, answered |-> TRUE]
        /\ IsList(calls') /\ DOMAIN calls' = DOMAIN calls
        /\ \A j \in DOMAIN calls : j # L => calls'[j] = calls[j]
        /\ \A j \in DOMAIN calls' : IsCall(calls'[j])
    BY <1>1, AnswerFacts
  <2>2. L = LatestCall
    BY DEF LatestCall
  <2>3. CallStamped(calls[L], table)
    BY <2>1 DEF StampsFit
  <2> HIDE DEF L
  <2> QED  BY <2>1, <2>2, <2>3
<1>3. /\ \A i \in DOMAIN calls' : CallStamped(calls'[i], table')
      /\ TopsAreCalled' /\ UndoNeedsNobody'
      /\ UndoToCome' = undo' /\ RedoToCome' = redo'
      /\ LatestCall' = LatestCall /\ calls # <<>>
      /\ calls'[LatestCall'].outcome = outcome /\ calls' # <<>>
      /\ Alone' => Alone
  BY <1>1, AnsweredCalls
<1>4. /\ undo' = UndoToCome /\ redo' = RedoToCome
      /\ view' \in [Rows -> Record] /\ buffer' \in {buffer, <<>>}
      /\ IsList(undo') /\ StackFits("undo", undo', table) /\ \A i \in DOMAIN undo' : IsBatch(undo'[i])
      /\ IsList(redo') /\ StackFits("redo", redo', table) /\ \A i \in DOMAIN redo' : IsBatch(redo'[i])
  <2>1. /\ IsList(undo) /\ StackFits("undo", undo, table) /\ \A i \in DOMAIN undo : IsBatch(undo[i])
        /\ IsList(redo) /\ StackFits("redo", redo, table) /\ \A i \in DOMAIN redo : IsBatch(redo[i])
        /\ view \in [Rows -> Record]
    BY DEF EditorTypeOK, StampsFit
  <2>2. CASE ErrorAnswered
    <3>1. UNCHANGED <<view, buffer, undo, redo>> /\ call.outcome # "saved"
      BY <2>2 DEF ErrorAnswered, CallAnswers
    <3>2. UndoToCome = undo /\ RedoToCome = redo
      BY <3>1 DEF UndoToCome, RedoToCome, Coming
    <3> QED  BY <2>1, <3>1, <3>2
  <2>3. ASSUME call.outcome = "saved"
        PROVE  /\ Coming /\ IsRows(call.rows)
               /\ \A row \in DOMAIN call.batch :
                    Stamped(table, row, call.rows[row].version, Put(call.kind, call.batch[row]))
    BY <1>2, <1>3, <2>3 DEF Coming, IsCall, CallStamped
  <2>4. CASE SavedBuffer
    <3>1. /\ call.outcome = "saved" /\ call.kind = "save" /\ ShowRows(call.rows)
          /\ undo' = Append(undo, Done(call)) /\ redo' = <<>> /\ buffer' = <<>>
      BY <2>4 DEF SavedBuffer, CallAnswers
    <3>2. UndoToCome = undo' /\ RedoToCome = redo'
      BY <2>3, <3>1 DEF UndoToCome, RedoToCome
    <3>3. view' \in [Rows -> Record]
      BY <2>3, <3>1, ShownRows
    <3> DEFINE b == Done(call)
    <3>4. /\ IsBatch(b) /\ DOMAIN b = DOMAIN call.batch
          /\ \A row \in DOMAIN call.batch : /\ b[row].after = Put("save", call.batch[row])
                                            /\ b[row].version = call.rows[row].version
      BY <1>2, <3>1, BatchesOfAnswers
    <3> HIDE DEF b, call
    <3>5. \A row \in DOMAIN b : Stamped(table, row, b[row].version, Met("undo", b[row]))
      BY <2>3, <3>1, <3>4, SidesByKind
    <3>6. undo' = Append(undo, b)
      BY <3>1 DEF b
    <3>7. /\ IsList(undo') /\ StackFits("undo", undo', table) /\ \A i \in DOMAIN undo' : IsBatch(undo'[i])
      BY <2>1, <3>4, <3>5, <3>6, StackPushed
    <3>8. IsList(<<>>) /\ DOMAIN <<>> = {}
      BY EmptySeq, SeqIsList, NothingHasNoRows
    <3>9. IsList(redo') /\ StackFits("redo", redo', table) /\ \A i \in DOMAIN redo' : IsBatch(redo'[i])
      BY <3>1, <3>8 DEF StackFits
    <3> QED  BY <3>1, <3>2, <3>3, <3>7, <3>9
  <2>5. CASE UndoAnswered
    <3>1. /\ call.outcome = "saved" /\ call.kind = "undo" /\ ShowRows(call.rows)
          /\ undo' = Rest(undo) /\ redo' = Append(redo, Refreshed(call)) /\ buffer' = buffer
      BY <2>5 DEF UndoAnswered, CallAnswers
    <3>2. UndoToCome = undo' /\ RedoToCome = redo'
      BY <2>3, <3>1 DEF UndoToCome, RedoToCome
    <3>3. view' \in [Rows -> Record]
      BY <2>3, <3>1, ShownRows
    <3> DEFINE b == Refreshed(call)
    <3>4. /\ IsBatch(b) /\ DOMAIN b = DOMAIN call.batch
          /\ \A row \in DOMAIN call.batch : /\ b[row].before = call.batch[row].before
                                            /\ b[row].version = call.rows[row].version
      BY <1>2, <3>1, BatchesOfAnswers
    <3> HIDE DEF b, call
    <3>5. \A row \in DOMAIN b : Stamped(table, row, b[row].version, Met("redo", b[row]))
      BY <2>3, <3>1, <3>4, SidesByKind
    <3>6. redo' = Append(redo, b)
      BY <3>1 DEF b
    <3>7. /\ IsList(redo') /\ StackFits("redo", redo', table) /\ \A i \in DOMAIN redo' : IsBatch(redo'[i])
      BY <2>1, <3>4, <3>5, <3>6, StackPushed
    <3>8. IsList(undo') /\ StackFits("undo", undo', table) /\ \A i \in DOMAIN undo' : IsBatch(undo'[i])
      BY <2>1, <3>1, StackPopped
    <3> QED  BY <3>1, <3>2, <3>3, <3>7, <3>8
  <2>6. CASE RedoAnswered
    <3>1. /\ call.outcome = "saved" /\ call.kind = "redo" /\ ShowRows(call.rows)
          /\ redo' = Rest(redo) /\ undo' = Append(undo, Refreshed(call)) /\ buffer' = buffer
      BY <2>6 DEF RedoAnswered, CallAnswers
    <3>2. UndoToCome = undo' /\ RedoToCome = redo'
      BY <2>3, <3>1 DEF UndoToCome, RedoToCome
    <3>3. view' \in [Rows -> Record]
      BY <2>3, <3>1, ShownRows
    <3> DEFINE b == Refreshed(call)
    <3>4. /\ IsBatch(b) /\ DOMAIN b = DOMAIN call.batch
          /\ \A row \in DOMAIN call.batch : /\ b[row].after = call.batch[row].after
                                            /\ b[row].version = call.rows[row].version
      BY <1>2, <3>1, BatchesOfAnswers
    <3> HIDE DEF b, call
    <3>5. \A row \in DOMAIN b : Stamped(table, row, b[row].version, Met("undo", b[row]))
      BY <2>3, <3>1, <3>4, SidesByKind
    <3>6. undo' = Append(undo, b)
      BY <3>1 DEF b
    <3>7. /\ IsList(undo') /\ StackFits("undo", undo', table) /\ \A i \in DOMAIN undo' : IsBatch(undo'[i])
      BY <2>1, <3>4, <3>5, <3>6, StackPushed
    <3>8. IsList(redo') /\ StackFits("redo", redo', table) /\ \A i \in DOMAIN redo' : IsBatch(redo'[i])
      BY <2>1, <3>1, StackPopped
    <3> QED  BY <3>1, <3>2, <3>3, <3>7, <3>8
  <2> QED  BY <2>2, <2>4, <2>5, <2>6
<1>5. EditorTypeOK'
  <2>1. IsBuffer(buffer') /\ \A row \in DOMAIN buffer' : buffer'[row].edits # <<>>
    BY <1>4, EmptyBuffer, NothingHasNoRows DEF EditorTypeOK
  <2> QED  BY <1>2, <1>4, <2>1 DEF EditorTypeOK
<1>6. StampsFit'
  BY <1>2, <1>3, <1>4 DEF StampsFit
<1>7. StacksInOrder'
  <2>1. SUFFICES ASSUME mode = "preimage", Alone', outcome # "failed"
                 PROVE  Chained("undo", undo', table) /\ Chained("redo", redo', table)
    BY <1>2, <1>3 DEF StacksInOrder
  <2> QED  BY <1>2, <1>3, <1>4, <2>1 DEF StacksInOrder
<1>8. \A i \in DOMAIN calls : calls'[i].outcome = calls[i].outcome
  BY <1>2
<1>9. QED
  BY <1>2, <1>3, <1>5, <1>6, <1>7, <1>8

LEMMA EditorInvStep ==
  ASSUME EditorInv, [EditorNext]_editorVars
  PROVE  EditorInv'
<1>1. ASSUME NEW row \in Rows, NEW col \in GridColumns, NEW val \in GridValues,
             StageCell(row, col, val)
      PROVE  EditorInv'
  <2>1. EditorTypeOK'
    BY <1>1, StageTypes DEF EditorInv
  <2> QED  BY <1>1, <2>1, ViewStep DEF StageCell
<1>2. ASSUME NEW row \in Rows, NEW col \in GridColumns, NEW val \in GridValues,
             OtherWrites(row, col, val)
      PROVE  EditorInv'
  BY <1>2, OthersStep
<1>3. ASSUME NEW row \in Rows, Reload(row)
      PROVE  EditorInv'
  <2>1. EditorTypeOK'
    BY <1>3 DEF EditorInv, EditorTypeOK, Reload
  <2> QED  BY <1>3, <2>1, ViewStep DEF Reload
<1>4. CASE DiscardBuffer
  <2>1. EditorTypeOK'
    BY <1>4, EmptyBuffer, NothingHasNoRows DEF EditorInv, EditorTypeOK, DiscardBuffer
  <2> QED  BY <1>4, <2>1, ViewStep DEF DiscardBuffer
<1>5. CASE SaveBuffer \/ Undo \/ Redo
  BY <1>5, CallStep
<1>6. ASSUME NEW i \in DOMAIN calls, Serve(i)
      PROVE  EditorInv'
  BY <1>6, ServeStep
<1>7. CASE SavedBuffer \/ UndoAnswered \/ RedoAnswered \/ ErrorAnswered
  BY <1>7, AnswerStep
<1>8. CASE UNCHANGED editorVars
  <2>1. EditorTypeOK'
    BY <1>8 DEF EditorInv, EditorTypeOK, editorVars
  <2> QED  BY <1>8, <2>1, ViewStep DEF editorVars
<1>9. QED
  BY <1>1, <1>2, <1>3, <1>4, <1>5, <1>6, <1>7, <1>8 DEF EditorNext

\* The stacks, the calls and the rows of the editor agree, whatever other clients
\* write, and whichever answers are lost, late or not heard.
THEOREM EditorInvariant == EditorSpec => []EditorInv
<1>1. EditorInit => EditorInv
  BY EditorInvInit
<1>2. EditorInv /\ [EditorNext]_editorVars => EditorInv'
  BY EditorInvStep
<1>3. QED
  BY <1>1, <1>2, PTL DEF EditorSpec

\* Undo and redo overwrite what this editor has written and nothing else, for any
\* number of rows, columns, calls and writes of other clients.
THEOREM UndoOverwritesOwn == EditorSpec => UndoOverwritesOwnOnly
<1> DEFINE Own ==
      \A i \in DOMAIN calls : SavedNow(i) /\ calls[i].kind # "save" =>
        \A row \in DOMAIN calls[i].batch :
          LET b == calls[i].batch[row]
              own == IF calls[i].kind = "undo" THEN b.after ELSE b.before
          IN  \A c \in DOMAIN own : table[row].cells[c] = own[c]
<1>1. ASSUME EditorInv, [EditorNext]_editorVars PROVE Own
  <2>1. SUFFICES ASSUME NEW i \in DOMAIN calls, SavedNow(i), calls[i].kind # "save",
                        NEW row \in DOMAIN calls[i].batch,
                        NEW c \in DOMAIN Met(calls[i].kind, calls[i].batch[row])
                 PROVE  table[row].cells[c] = Met(calls[i].kind, calls[i].batch[row])[c]
    <3>1. ASSUME NEW i \in DOMAIN calls, calls[i].kind # "save", NEW row \in DOMAIN calls[i].batch
          PROVE  Met(calls[i].kind, calls[i].batch[row]) =
                   IF calls[i].kind = "undo" THEN calls[i].batch[row].after
                   ELSE calls[i].batch[row].before
      BY <1>1, <3>1, SidesByKind DEF EditorInv, EditorTypeOK, IsCall
    <3> QED  BY <3>1
  <2>2. Serve(i)
    <3>1. CASE SaveBuffer \/ Undo \/ Redo
      BY <1>1, <2>1, <3>1, CallStep DEF SavedNow
    <3>2. CASE SavedBuffer \/ UndoAnswered \/ RedoAnswered \/ ErrorAnswered
      BY <1>1, <2>1, <3>2, AnswerStep DEF SavedNow
    <3>3. ASSUME NEW j \in DOMAIN calls, Serve(j), j # i PROVE FALSE
      <4>1. calls'[i] = calls[i]
        BY <1>1, <3>3, ServeKeeps DEF EditorInv
      <4> QED  BY <2>1, <4>1 DEF SavedNow
    <3>4. calls' # calls
      BY <2>1 DEF SavedNow
    <3>5. ASSUME NEW r \in Rows, NEW col \in GridColumns, NEW val \in GridValues
          PROVE  ~StageCell(r, col, val) /\ ~OtherWrites(r, col, val)
      BY <3>4 DEF StageCell, OtherWrites
    <3>6. /\ ~DiscardBuffer /\ ~UNCHANGED editorVars /\ \A r \in Rows : ~Reload(r)
      BY <3>4 DEF DiscardBuffer, editorVars, Reload
    <3>7. \E j \in DOMAIN calls : Serve(j)
      BY <1>1, <3>1, <3>2, <3>5, <3>6 DEF EditorNext
    <3> QED  BY <3>3, <3>7
  <2>3. /\ Fits(i) /\ calls[i].outcome = "none"
    BY <1>1, <2>1, <2>2, ServeKeeps, ServeOutcomes DEF SavedNow, EditorInv
  <2>4. /\ calls[i].edits = EditsOf(calls[i].kind, calls[i].batch) /\ CallStamped(calls[i], table)
        /\ IsCall(calls[i]) /\ DOMAIN calls[i].edits = DOMAIN calls[i].batch
    BY <1>1, <2>3, WrittenRows DEF EditorInv
  <2>5. /\ DOMAIN Put(calls[i].kind, calls[i].batch[row]) = DOMAIN Met(calls[i].kind, calls[i].batch[row])
    BY <2>1, <2>4, SidesOfACall
  <2>6. CASE mode = "preimage"
    BY <1>1, <2>1, <2>3, <2>5, <2>6, FitsByCells DEF EditorInv
  <2>7. CASE mode = "version"
    <3>1. /\ calls[i].edits[row].seen.version = calls[i].batch[row].version
      BY <2>1, <2>4 DEF EditsOf, Guarded
    <3>2. table[row].version = calls[i].batch[row].version
      BY <2>1, <2>3, <2>4, <2>7, <3>1 DEF Fits, Unchanged
    <3>3. Stamped(table, row, calls[i].batch[row].version, Met(calls[i].kind, calls[i].batch[row]))
      BY <2>1, <2>3, <2>4 DEF CallStamped
    <3> QED  BY <2>1, <3>2, <3>3 DEF Stamped
  <2> QED  BY <1>1, <2>6, <2>7 DEF EditorInv, EditorTypeOK
<1>2. QED
  BY <1>1, EditorInvariant, PTL DEF UndoOverwritesOwnOnly, EditorSpec

\* With pre-images, an editor that is alone can undo and redo all it has saved: none of
\* these calls is a conflict.
THEOREM UndoIsPossible == EditorSpec => []UndoNeedsNobody
<1>1. EditorInv => UndoNeedsNobody
  BY DEF EditorInv
<1>2. QED
  BY <1>1, EditorInvariant, PTL


-----------------------------------------------------------------------------
(***************************************************************************)
(* ChatThreads: what was said is stored whole and once.                    *)
(***************************************************************************)

\* What streams is a turn of some chat, and stopping it leaves it the turn it is.
LEMMA StreamFacts ==
  ASSUME stream \in Streams, stream # NoStream
  PROVE  /\ stream.turn \in Turns /\ stream.chat \in Nat /\ stream.conn \in Conns
         /\ stream.stopped \in BOOLEAN /\ stream.received \in BOOLEAN
         /\ Stopped \in Streams /\ Stopped # NoStream
         /\ Stopped.turn = stream.turn /\ Stopped.stopped /\ Stopped.chat = stream.chat
         /\ [stream EXCEPT !.received = TRUE] \in Streams
         /\ [stream EXCEPT !.received = TRUE] # NoStream
         /\ [stream EXCEPT !.received = TRUE].turn = stream.turn
         /\ [stream EXCEPT !.received = TRUE].chat = stream.chat
         /\ [stream EXCEPT !.received = TRUE].stopped = stream.stopped
<1> DEFINE Shape ==
      [turn : Turns, chat : Nat, conn : Conns, stopped : BOOLEAN, received : BOOLEAN]
<1>1. stream \in Shape
  BY Zenon DEF Streams
<1>2. ASSUME NEW s \in Shape PROVE s # NoStream
  <2>1. s.turn \in Turns /\ NoStream.turn = NoThread
    BY DEF NoStream
  <2>2. NoThread \notin Turns
    BY ChatAssumption DEF NoThread, Turns
  <2>3. QED
    BY <2>1, <2>2
<1>3. Stopped = [stream EXCEPT !.stopped = TRUE]
  BY Zenon DEF Stopped
<1>4. [stream EXCEPT !.stopped = TRUE] \in Shape /\ [stream EXCEPT !.received = TRUE] \in Shape
  BY <1>1
<1>5. Shape \subseteq Streams
  BY Zenon DEF Streams
<1>6. Stopped \in Streams /\ Stopped # NoStream
  BY <1>2, <1>3, <1>4, <1>5
<1>7. [stream EXCEPT !.received = TRUE] \in Streams /\ [stream EXCEPT !.received = TRUE] # NoStream
  BY <1>2, <1>4, <1>5
<1>8. /\ Stopped.turn = stream.turn /\ Stopped.stopped /\ Stopped.chat = stream.chat
      /\ [stream EXCEPT !.received = TRUE].turn = stream.turn
      /\ [stream EXCEPT !.received = TRUE].chat = stream.chat
      /\ [stream EXCEPT !.received = TRUE].stopped = stream.stopped
  BY <1>1, <1>3
<1>9. QED
  BY <1>1, <1>6, <1>7, <1>8

\* A turn that begins is the latest, of the chat on display.
LEMMA TurnBegins ==
  ASSUME ChatTypeOK, TurnStreams, NEW c \in Conns, StartTurn(c)
  PROVE  /\ turns' \in 0..MaxTurns /\ messages' \in 0..turns' /\ stream' \in Streams
         /\ turns' = turns + 1
         /\ stream' # NoStream /\ stream'.turn = turns' /\ turns' \notin finished
         /\ stream'.chat = chat
<1> DEFINE new == [turn |-> turns + 1, chat |-> chat, conn |-> c,
                   stopped |-> FALSE, received |-> FALSE]
<1>1. /\ turns' = turns + 1 /\ turns < MaxTurns /\ messages' = messages + 1 /\ stream' = new
  BY Zenon DEF StartTurn
<1>2. turns + 1 \in Turns /\ turns' \in 0..MaxTurns /\ messages' \in 0..turns' /\ chat \in Nat
  BY <1>1, ChatAssumption DEF ChatTypeOK, Turns
<1>3. new \in [turn : Turns, chat : Nat, conn : Conns, stopped : BOOLEAN, received : BOOLEAN]
  BY <1>2, Zenon
<1>4. stream' \in Streams
  BY <1>1, <1>3, Zenon DEF Streams
<1>5. new.turn = turns + 1 /\ new.chat = chat
  BY Zenon
<1>6. NoThread \notin Turns /\ NoStream.turn = NoThread
  BY ChatAssumption DEF NoThread, Turns, NoStream
<1>7. stream' # NoStream
  BY <1>1, <1>2, <1>5, <1>6
<1>8. turns' \notin finished
  BY <1>1 DEF TurnStreams, ChatTypeOK
<1>9. QED
  BY <1>1, <1>2, <1>4, <1>5, <1>7, <1>8

\* What is stored and on its way to the server stays so while neither changes.
LEMMA StoreKept ==
  ASSUME ChatInv, convs' = convs, appends' = appends, finished' = finished,
         chats' \in Nat, chats <= chats'
  PROVE  /\ SentOnce' /\ StoredOnce' /\ Uncreated'
         /\ appends' \subseteq Requests /\ convs' \in [0..MaxTurns -> Conversations]
         /\ finished' \subseteq Turns
<1>1. Kept' = Kept /\ \A c : Stored(c)' = Stored(c)
  BY Zenon DEF Kept, Stored
<1>2. SentOnce'
  BY <1>1, Zenon DEF SentOnce, ChatInv
<1>3. StoredOnce'
  BY <1>1, Zenon DEF StoredOnce, ChatInv
<1>4. Uncreated'
  <2>1. ASSUME NEW n \in 0..chats PROVE n \in 0..chats'
    BY DEF ChatInv, ChatTypeOK
  <2>2. QED
    BY <1>1, <2>1, Zenon DEF Uncreated, ChatInv
<1>5. QED
  BY <1>2, <1>3, <1>4, Zenon DEF ChatInv, ChatTypeOK

LEMMA OneThreadKept ==
  ASSUME ChatInv, convs' = convs, appends' = appends, disturbed' = disturbed
  PROVE  UndisturbedChatIsOneThread'
BY Zenon DEF ChatInv, UndisturbedChatIsOneThread, Kept

\* The display's chat and thread are the ones of the requests while none of them changes.
LEMMA ThreadKept ==
  ASSUME ChatInv, convs' = convs, appends' = appends, finished' = finished,
         disturbed' = disturbed, thread' = thread, chat' = chat,
         ~disturbed => stream' = NoStream \/ stream'.stopped \/ stream'.chat = chat
  PROVE  OneThread'
<1>1. Kept' = Kept
  BY Zenon DEF Kept
<1>2. QED
  BY <1>1, Zenon DEF OneThread, ChatInv

\* A step of the panel that neither stores nor sends, in the chat on display.
LEMMA PanelStep ==
  ASSUME ChatInv,
         convs' = convs, appends' = appends, finished' = finished, disturbed' = disturbed,
         thread' = thread, chat' = chat, chats' = chats,
         \/ stream' = stream /\ turns' = turns
         \/ stream' = NoStream /\ turns' = turns
         \/ stream' = Stopped /\ turns' = turns
         \/ stream' = [stream EXCEPT !.received = TRUE] /\ stream # NoStream /\ turns' = turns
         \/ stream = NoStream /\ \E c \in Conns : StartTurn(c)
  PROVE  /\ SentOnce' /\ StoredOnce' /\ Uncreated' /\ OneThread' /\ TurnStreams'
         /\ UndisturbedChatIsOneThread'
         /\ turns' \in 0..MaxTurns /\ thread' \in 0..NoThread /\ stream' \in Streams
         /\ appends' \subseteq Requests
         /\ convs' \in [0..MaxTurns -> Conversations]
         /\ chats' \in 1..MaxChats /\ chat' \in 0..chats'
         /\ finished' \subseteq Turns /\ disturbed' \in BOOLEAN
<1>1. /\ stream \in Streams /\ NoStream \in Streams /\ turns \in 0..MaxTurns
      /\ thread \in 0..NoThread /\ chats \in 1..MaxChats /\ chat \in 0..chats
      /\ disturbed \in BOOLEAN
      /\ ~disturbed => stream = NoStream \/ stream.stopped \/ stream.chat = chat
  BY Zenon DEF ChatInv, ChatTypeOK, Streams, OneThread
<1>2. chats' \in Nat /\ chats <= chats'
  BY <1>1
<1>3. SentOnce' /\ StoredOnce' /\ Uncreated' /\ UndisturbedChatIsOneThread'
      /\ appends' \subseteq Requests /\ convs' \in [0..MaxTurns -> Conversations]
      /\ finished' \subseteq Turns
  BY <1>2, StoreKept, OneThreadKept, Zenon
<1>4. /\ stream' \in Streams /\ turns' \in 0..MaxTurns /\ TurnStreams'
      /\ ~disturbed => stream' = NoStream \/ stream'.stopped \/ stream'.chat = chat
  <2>1. TurnStreams /\ finished \subseteq 1..turns
    BY Zenon DEF ChatInv, TurnStreams
  <2>2. CASE stream' = stream /\ turns' = turns
    BY <1>1, <2>1, <2>2, Zenon DEF TurnStreams
  <2>3. CASE stream' = NoStream /\ turns' = turns
    BY <1>1, <2>1, <2>3, Zenon DEF TurnStreams
  <2>4. CASE stream' = Stopped /\ turns' = turns
    <3>1. CASE stream = NoStream
      BY <1>1, <2>1, <2>4, <3>1, Zenon DEF TurnStreams, Stopped
    <3>2. CASE stream # NoStream
      BY <1>1, <2>1, <2>4, <3>2, StreamFacts, Zenon DEF TurnStreams
    <3>3. QED
      BY <3>1, <3>2
  <2>5. CASE stream' = [stream EXCEPT !.received = TRUE] /\ stream # NoStream /\ turns' = turns
    <3>1. /\ stream' \in Streams /\ stream'.turn = stream.turn /\ stream'.chat = stream.chat
          /\ stream'.stopped = stream.stopped
      BY <1>1, <2>5, StreamFacts, Zenon
    <3>2. QED
      BY <1>1, <2>1, <2>5, <3>1, Zenon DEF TurnStreams
  <2>6. ASSUME stream = NoStream, NEW c \in Conns, StartTurn(c)
        PROVE  <1>4
    <3>1. ChatTypeOK
      BY Zenon DEF ChatInv
    <3>2. /\ turns' \in 0..MaxTurns /\ stream' \in Streams /\ turns' = turns + 1
          /\ stream'.turn = turns' /\ turns' \notin finished /\ stream'.chat = chat
      BY <2>1, <2>6, <3>1, TurnBegins, Zenon
    <3>3. 1..turns \subseteq 1..turns' /\ chat \in 0..chats /\ chats' = chats
      BY <1>1, <3>2
    <3>4. QED
      BY <2>1, <3>2, <3>3, Zenon DEF TurnStreams
  <2>7. QED
    BY <2>2, <2>3, <2>4, <2>5, <2>6, Zenon
<1>5. OneThread'
  BY <1>4, ThreadKept, Zenon
<1>6. QED
  BY <1>1, <1>3, <1>4, <1>5, Zenon

\* The steps of the panel that keep its chat and its thread.
LEMMA PanelSteps ==
  ASSUME ChatInv,
         \/ PressSend \/ HandIn \/ Delta \/ TurnFailed \/ RunQuery \/ Stop
         \/ \E r \in queries : QueryAnswered(r)
         \/ \E c \in 0..MaxTurns : LoadConversation(c) \/ Resume(c)
         \/ \E c \in Conns : SwitchConnection(c)
  PROVE  ChatInv'
<1>1. /\ conn \in Conns /\ turns \in 0..MaxTurns /\ messages \in 0..turns
      /\ loads \subseteq 0..MaxTurns /\ queries \subseteq Conns /\ resumed \subseteq Conns
      /\ autoRuns \in 0..MaxAutoRuns /\ stream \in Streams /\ ChatTypeOK /\ TurnStreams
  BY Zenon DEF ChatInv, ChatTypeOK
<1> DEFINE Stays ==
      /\ convs' = convs /\ appends' = appends /\ finished' = finished
      /\ disturbed' = disturbed /\ thread' = thread /\ chat' = chat /\ chats' = chats
<1> DEFINE Streamed ==
      \/ stream' = stream /\ turns' = turns
      \/ stream' = NoStream /\ turns' = turns
      \/ stream' = Stopped /\ turns' = turns
      \/ stream' = [stream EXCEPT !.received = TRUE] /\ stream # NoStream /\ turns' = turns
      \/ stream = NoStream /\ \E c \in Conns : StartTurn(c)
<1> DEFINE Types ==
      /\ conn' \in Conns /\ messages' \in 0..turns' /\ loads' \subseteq 0..MaxTurns
      /\ queries' \subseteq Conns /\ resumed' \subseteq Conns /\ autoRuns' \in 0..MaxAutoRuns
<1>2. ASSUME Stays, Streamed, Types PROVE ChatInv'
  BY <1>2, PanelStep, Zenon DEF ChatInv, ChatTypeOK
<1>3. ASSUME NEW c \in Conns, StartTurn(c) PROVE messages' \in 0..turns'
  BY <1>1, <1>3, TurnBegins, Zenon
<1>4. 0 \in 0..MaxAutoRuns
  BY ChatAssumption
<1> HIDE DEF Types
<1>5. CASE PressSend
  <2>1. Stays
    BY <1>5, Zenon DEF PressSend, history
  <2>2. Streamed
    BY <1>5, <1>1, Zenon DEF PressSend
  <2>3. messages' \in 0..turns'
    BY <1>5, <1>1, <1>3, Zenon DEF PressSend
  <2>4. Types
    BY <1>5, <1>1, <1>4, <2>3, Zenon DEF PressSend, Types
  <2>5. QED
    BY <2>1, <2>2, <2>4, <1>2, Zenon
<1>6. CASE HandIn
  <2>1. Stays
    BY <1>6, Zenon DEF HandIn, history
  <2>2. Streamed
    BY <1>6, <1>1, Zenon DEF HandIn
  <2>3. Types
    BY <1>6, <1>1, <1>3, Zenon DEF HandIn, Types
  <2>4. QED
    BY <2>1, <2>2, <2>3, <1>2, Zenon
<1>7. CASE Delta
  <2>1. Stays /\ Streamed
    BY <1>7, Zenon DEF Delta, history, panel
  <2>2. Types
    BY <1>7, <1>1, Zenon DEF Delta, panel, Types
  <2>3. QED
    BY <2>1, <2>2, <1>2, Zenon
<1>8. CASE TurnFailed
  <2>1. Stays /\ Streamed
    BY <1>8, Zenon DEF TurnFailed, history
  <2>2. messages' \in 0..turns'
    <3>1. turns' = turns /\ (messages' = messages \/ (messages > 0 /\ messages' = messages - 1))
      BY <1>8, Zenon DEF TurnFailed
    <3>2. QED
      BY <3>1, <1>1
  <2>3. Types
    BY <1>8, <1>1, <2>2, Zenon DEF TurnFailed, Types
  <2>4. QED
    BY <2>1, <2>3, <1>2, Zenon
<1>9. CASE RunQuery
  <2>1. Stays /\ Streamed
    BY <1>9, Zenon DEF RunQuery, history, panel
  <2>2. {conn} \subseteq Conns
    BY <1>1, Zenon
  <2>3. Types
    BY <1>9, <1>1, <2>2, Zenon DEF RunQuery, panel, Types
  <2>4. QED
    BY <2>1, <2>3, <1>2, Zenon
<1>10. CASE Stop
  <2>1. Stays /\ Streamed
    BY <1>10, Zenon DEF Stop, history, panel
  <2>2. Types
    BY <1>10, <1>1, Zenon DEF Stop, panel, Types
  <2>3. QED
    BY <2>1, <2>2, <1>2, Zenon
<1>11. ASSUME NEW r \in queries, QueryAnswered(r) PROVE ChatInv'
  <2>1. Stays
    BY <1>11, Zenon DEF QueryAnswered, history
  <2>2. r \in Conns
    BY <1>1
  <2>3. Streamed
    BY <1>11, <2>2, Zenon DEF QueryAnswered
  <2>4. messages' \in 0..turns'
    BY <1>11, <1>1, <1>3, <2>2, Zenon DEF QueryAnswered
  <2>5. Types
    BY <1>11, <1>1, <2>4, Zenon DEF QueryAnswered, Types
  <2>6. QED
    BY <2>1, <2>3, <2>5, <1>2, Zenon
<1>12. ASSUME NEW c \in 0..MaxTurns, LoadConversation(c) \/ Resume(c) PROVE ChatInv'
  <2>1. Stays /\ Streamed
    BY <1>12, Zenon DEF LoadConversation, Resume, Load, history, panel
  <2>2. {c} \subseteq 0..MaxTurns /\ {conn} \subseteq Conns
    BY <1>1, Zenon
  <2>3. Types
    BY <1>12, <1>1, <2>2, Zenon DEF LoadConversation, Resume, Load, panel, Types
  <2>4. QED
    BY <2>1, <2>3, <1>2, Zenon
<1>13. ASSUME NEW c \in Conns, SwitchConnection(c) PROVE ChatInv'
  <2>1. Stays /\ Streamed
    BY <1>13, Zenon DEF SwitchConnection, history, panel
  <2>2. Types
    BY <1>13, <1>1, Zenon DEF SwitchConnection, panel, Types
  <2>3. QED
    BY <2>1, <2>2, <1>2, Zenon
<1>14. QED
  BY <1>5, <1>6, <1>7, <1>8, <1>9, <1>10, <1>11, <1>12, <1>13, Zenon

\* A conversation holds no more exchanges than there were turns.
LEMMA NoMoreThanTurns ==
  ASSUME ChatInv, NEW c \in 0..MaxTurns
  PROVE  Len(convs[c].items) \in 0..turns
<1>1. /\ Stored(c) \subseteq 1..turns /\ Cardinality(Stored(c)) = Len(convs[c].items)
      /\ turns \in 0..MaxTurns
  BY Zenon DEF ChatInv, ChatTypeOK, StoredOnce, TurnStreams
<1>2. IsFiniteSet(1..turns) /\ Cardinality(1..turns) = turns
  <2>1. turns \in Nat /\ 1 \in Int /\ turns \in Int /\ turns - 1 + 1 = turns
    BY <1>1
  <2>2. /\ IsFiniteSet(1..turns)
        /\ Cardinality(1..turns) = IF 1 > turns THEN 0 ELSE turns - 1 + 1
    BY <2>1, FS_Interval, Zenon
  <2>3. QED
    BY <2>1, <2>2
<1>3. IsFiniteSet(Stored(c)) /\ Cardinality(Stored(c)) <= Cardinality(1..turns)
  BY <1>1, <1>2, FS_Subset, Zenon
<1>4. Cardinality(Stored(c)) \in Nat
  BY <1>3, FS_CardinalityType
<1>5. QED
  BY <1>1, <1>2, <1>3, <1>4

\* The panel is left for a new chat: it is kept nowhere, and no request belongs to it.
LEMMA NewChatStep ==
  ASSUME ChatInv, NewChat
  PROVE  ChatInv'
<1>1. /\ stream' = Stopped /\ messages' = 0 /\ thread' = NoThread /\ turns' = turns
      /\ chats' = chats + 1 /\ chat' = chats + 1 /\ chats < MaxChats
      /\ disturbed' = (disturbed \/ appends # {})
      /\ conn' = conn /\ appends' = appends /\ loads' = loads /\ queries' = queries
      /\ autoRuns' = autoRuns /\ resumed' = resumed /\ convs' = convs /\ finished' = finished
  BY Zenon DEF NewChat, Clear, Disturb
<1>2. ChatTypeOK /\ TurnStreams /\ Uncreated /\ UndisturbedChatIsOneThread
  BY Zenon DEF ChatInv
<1>3. chats \in 1..MaxChats /\ chats' \in 1..MaxChats /\ chat' \in 0..chats' /\ chats' \in Nat
      /\ 0..chats \subseteq 0..chats' /\ chats <= chats'
      /\ MaxTurns \in Nat /\ turns \in 0..MaxTurns
  BY <1>1, <1>2, ChatAssumption DEF ChatTypeOK
<1>4. SentOnce' /\ StoredOnce' /\ Uncreated' /\ appends' \subseteq Requests
      /\ convs' \in [0..MaxTurns -> Conversations] /\ finished' \subseteq Turns
  BY <1>1, <1>3, StoreKept, Zenon
<1>5. stream' \in Streams /\ TurnStreams' /\ (stream' = NoStream \/ stream'.stopped)
  <2>1. CASE stream = NoStream
    BY <1>1, <1>2, <2>1, Zenon DEF TurnStreams, Stopped, Streams
  <2>2. CASE stream # NoStream
    <3>1. stream \in Streams
      BY <1>2, Zenon DEF ChatTypeOK
    <3>2. QED
      BY <1>1, <1>2, <1>3, <2>2, <3>1, StreamFacts, Zenon DEF TurnStreams
  <2>3. QED
    BY <2>1, <2>2, Zenon
<1>6. Kept' = Kept
  BY <1>1, Zenon DEF Kept
<1>7. UndisturbedChatIsOneThread'
  BY <1>1, <1>2, <1>6, Zenon DEF UndisturbedChatIsOneThread
<1>8. OneThread'
  <2>1. NoThread \notin Kept /\ NoThread \in 0..NoThread
    BY <1>3 DEF NoThread, Kept
  <2>2. \A c \in Kept : convs[c].chat # chats + 1
    BY <1>2, <1>3 DEF Uncreated
  <2>3. QED
    BY <1>1, <1>5, <1>6, <2>1, <2>2, Zenon DEF OneThread
<1>9. NoThread \in 0..NoThread /\ 0 \in 0..turns /\ disturbed' \in BOOLEAN
  BY <1>1, <1>3 DEF NoThread
<1>10. ChatTypeOK'
  BY <1>1, <1>2, <1>3, <1>4, <1>5, <1>9, Zenon DEF ChatTypeOK
<1>11. QED
  BY <1>4, <1>5, <1>7, <1>8, <1>10, Zenon DEF ChatInv

\* A conversation arrives: the panel shows its chat in its thread.
LEMMA LoadedStep ==
  ASSUME ChatInv, NEW c \in 0..MaxTurns, Loaded(c)
  PROVE  ChatInv'
<1>1. /\ loads' = {} /\ conn' = conn /\ stream' = stream /\ turns' = turns
      /\ appends' = appends /\ queries' = queries /\ autoRuns' = autoRuns
      /\ resumed' = resumed /\ convs' = convs /\ chats' = chats /\ finished' = finished
      /\ \/ /\ c \in Kept /\ messages' = Len(convs[c].items) /\ thread' = c
            /\ chat' = convs[c].chat
            /\ disturbed' = (disturbed \/ (appends # {} \/ (stream # NoStream /\ ~stream.stopped)))
         \/ UNCHANGED <<messages, thread, chat, disturbed>>
  BY Zenon DEF Loaded, Disturb
<1>2. ChatTypeOK /\ TurnStreams /\ Uncreated /\ UndisturbedChatIsOneThread /\ OneThread
  BY Zenon DEF ChatInv
<1>3. chats \in Nat /\ chats <= chats /\ MaxTurns \in Nat
  BY <1>2, ChatAssumption DEF ChatTypeOK
<1>4. SentOnce' /\ StoredOnce' /\ Uncreated' /\ appends' \subseteq Requests
      /\ convs' \in [0..MaxTurns -> Conversations] /\ finished' \subseteq Turns
  BY <1>1, <1>3, StoreKept, Zenon
<1>5. Kept' = Kept /\ TurnStreams'
  BY <1>1, <1>2, Zenon DEF Kept, TurnStreams
<1>6. c \in 0..NoThread /\ c # NoThread
  BY <1>3 DEF NoThread
<1>7. Len(convs[c].items) \in 0..turns
  BY NoMoreThanTurns, Zenon
<1>8. OneThread' /\ UndisturbedChatIsOneThread'
  <2>1. CASE UNCHANGED <<messages, thread, chat, disturbed>>
    BY <1>1, <1>2, <1>5, <2>1, Zenon DEF OneThread, UndisturbedChatIsOneThread
  <2>2. CASE ~ UNCHANGED <<messages, thread, chat, disturbed>>
    BY <1>1, <1>2, <1>5, <1>6, <2>2, Zenon DEF OneThread, UndisturbedChatIsOneThread
  <2>3. QED
    BY <2>1, <2>2, Zenon
<1>9. /\ messages' \in 0..turns /\ thread' \in 0..NoThread /\ chat' \in 0..chats
      /\ disturbed' \in BOOLEAN
  BY <1>1, <1>2, <1>6, <1>7, Zenon DEF ChatTypeOK, Uncreated
<1>10. ChatTypeOK'
  BY <1>1, <1>2, <1>4, <1>9, Zenon DEF ChatTypeOK
<1>11. QED
  BY <1>4, <1>5, <1>8, <1>10, Zenon DEF ChatInv

\* A conversation is deleted: the others keep their exchanges, and if it was on display
\* the panel is left for a new chat.
LEMMA DeleteStep ==
  ASSUME ChatInv, NEW c \in 0..MaxTurns, Delete(c)
  PROVE  ChatInv'
<1> DEFINE gone == [NoConv EXCEPT !.chat = convs[c].chat]
<1>1. /\ c \in Kept /\ convs' = [convs EXCEPT ![c] = gone]
      /\ conn' = conn /\ turns' = turns /\ appends' = appends /\ loads' = loads
      /\ queries' = queries /\ autoRuns' = autoRuns /\ resumed' = resumed
      /\ finished' = finished
      /\ \/ /\ thread = c /\ stream' = Stopped /\ messages' = 0 /\ thread' = NoThread
            /\ chats' = chats + 1 /\ chat' = chats + 1 /\ chats < MaxChats
            /\ disturbed' = (disturbed \/ appends # {})
         \/ /\ thread # c /\ stream' = stream /\ messages' = messages /\ thread' = thread
            /\ chats' = chats /\ chat' = chat /\ disturbed' = disturbed
  BY Zenon DEF Delete, Clear, Disturb, panel
<1>2. /\ ChatTypeOK /\ TurnStreams /\ SentOnce /\ StoredOnce /\ Uncreated
      /\ UndisturbedChatIsOneThread /\ OneThread
  BY Zenon DEF ChatInv
<1>3. /\ convs \in [0..MaxTurns -> Conversations] /\ convs[c] \in Conversations
      /\ chats \in 1..MaxChats /\ chats' \in 1..MaxChats /\ chats <= chats'
      /\ chat \in 0..chats /\ chat' \in 0..chats' /\ MaxTurns \in Nat /\ turns \in 0..MaxTurns
      /\ messages \in 0..turns /\ messages' \in 0..turns
  <2>1. /\ convs \in [0..MaxTurns -> Conversations] /\ chats \in 1..MaxChats
        /\ chat \in 0..chats /\ turns \in 0..MaxTurns /\ messages \in 0..turns
    BY <1>2, Zenon DEF ChatTypeOK
  <2>2. /\ chats' \in 1..MaxChats /\ chats <= chats' /\ chat' \in 0..chats'
        /\ messages' \in 0..turns
    <3>1. \/ messages' = 0 /\ chats' = chats + 1 /\ chat' = chats + 1 /\ chats < MaxChats
          \/ messages' = messages /\ chats' = chats /\ chat' = chat
      BY <1>1, Zenon
    <3>2. QED
      BY <2>1, <3>1, ChatAssumption
  <2>3. QED
    BY <2>1, <2>2, ChatAssumption, Zenon
<1>4. NoConv \in Conversations /\ NoConv.items = <<>> /\ NoConv.kept = FALSE
  <2>1. <<>> \in Seq(Turns) /\ 0 \in Nat
    OBVIOUS
  <2>2. QED
    BY <2>1, ChatAssumption, Zenon DEF NoConv, Conversations
<1>5. gone \in Conversations /\ gone.items = <<>> /\ gone.kept = FALSE
  <2>1. convs[c].chat \in Nat
    BY <1>3, Zenon DEF Conversations
  <2>2. ASSUME NEW n \in Nat, NEW v \in Conversations
        PROVE  LET w == [v EXCEPT !.chat = n] IN
                 w \in Conversations /\ w.items = v.items /\ w.kept = v.kept
    BY DEF Conversations
  <2>3. QED
    BY <1>4, <2>1, <2>2
<1>6. /\ convs' \in [0..MaxTurns -> Conversations] /\ convs'[c] = gone
      /\ \A d \in 0..MaxTurns \ {c} : convs'[d] = convs[d]
  BY <1>1, <1>3, <1>5
<1> HIDE DEF gone
<1>7. /\ Kept' = Kept \ {c} /\ Kept \subseteq 0..MaxTurns
  BY <1>1, <1>5, <1>6 DEF Kept
<1>8. /\ Stored(c)' = {} /\ Len(convs'[c].items) = 0
      /\ \A d \in 0..MaxTurns \ {c} : Stored(d)' = Stored(d)
  BY <1>5, <1>6 DEF Stored
<1>9. SentOnce'
  <2>1. \A d \in 0..MaxTurns : Stored(d)' \subseteq Stored(d)
    <3>1. ASSUME NEW d \in 0..MaxTurns PROVE Stored(d)' \subseteq Stored(d)
      <4>1. CASE d = c
        BY <1>8, <4>1
      <4>2. CASE d # c
        BY <1>8, <4>2
      <4>3. QED
        BY <4>1, <4>2
    <3>2. QED
      BY <3>1, Zenon
  <2>2. ASSUME NEW a \in appends'
        PROVE  /\ a.turn \in finished'
               /\ a.at # "stored" => \A d \in 0..MaxTurns : a.turn \notin Stored(d)'
    <3>1. /\ a.turn \in finished
          /\ a.at # "stored" => \A d \in 0..MaxTurns : a.turn \notin Stored(d)
      BY <1>1, <1>2, Zenon DEF SentOnce
    <3>2. QED
      BY <1>1, <2>1, <3>1, Zenon
  <2>3. \A a, b \in appends' : a.turn = b.turn => a = b
    BY <1>1, <1>2, Zenon DEF SentOnce
  <2>4. QED
    BY <2>2, <2>3, Zenon DEF SentOnce
<1>10. StoredOnce'
  <2>1. Cardinality({}) = 0
    BY FS_EmptySet
  <2>2. ASSUME NEW d \in 0..MaxTurns
        PROVE  Stored(d)' \subseteq finished' /\ Cardinality(Stored(d)') = Len(convs'[d].items)
    BY <1>1, <1>2, <1>6, <1>8, <2>1, Zenon DEF StoredOnce
  <2>3. ASSUME NEW d \in 0..MaxTurns, NEW e \in 0..MaxTurns, d # e
        PROVE  Stored(d)' \cap Stored(e)' = {}
    <3>1. Stored(d) \cap Stored(e) = {}
      BY <1>2, <2>3, Zenon DEF StoredOnce
    <3>2. Stored(d)' \subseteq Stored(d) /\ Stored(e)' \subseteq Stored(e)
      BY <1>8, Zenon
    <3>3. QED
      BY <3>1, <3>2
  <2>4. QED
    BY <2>2, <2>3, Zenon DEF StoredOnce
<1>11. \A n \in 0..chats : n \in 0..chats'
  BY <1>3
<1>12. \A d \in Kept' : d \in Kept /\ d # c /\ convs'[d] = convs[d]
  BY <1>6, <1>7
<1>13. Uncreated'
  BY <1>1, <1>2, <1>11, <1>12, Zenon DEF Uncreated
<1>14. UndisturbedChatIsOneThread'
  <2>1. SUFFICES ASSUME ~disturbed' PROVE UndisturbedChatIsOneThread'
    BY Zenon DEF UndisturbedChatIsOneThread
  <2>2. ~disturbed
    BY <1>1, <2>1, Zenon
  <2>3. ASSUME NEW d \in Kept'
        PROVE  \A i, j \in 1..Len(convs'[d].items) :
                 i < j => convs'[d].items[i] < convs'[d].items[j]
    <3>1. d \in Kept /\ convs'[d] = convs[d]
      BY <1>12, Zenon
    <3>2. QED
      BY <1>2, <2>2, <3>1, Zenon DEF UndisturbedChatIsOneThread
  <2>4. ASSUME NEW a \in appends', a.to \in Kept' PROVE convs'[a.to].chat = a.chat
    <3>1. a \in appends /\ a.to \in Kept /\ convs'[a.to] = convs[a.to]
      BY <1>1, <1>12, <2>4, Zenon
    <3>2. QED
      BY <1>2, <2>2, <3>1, Zenon DEF UndisturbedChatIsOneThread
  <2>5. ASSUME NEW d \in Kept', NEW e \in Kept', d # e
        PROVE  convs'[d].chat # convs'[e].chat
    <3>1. d \in Kept /\ convs'[d] = convs[d] /\ e \in Kept /\ convs'[e] = convs[e]
      BY <1>12, Zenon
    <3>2. QED
      BY <1>2, <2>2, <2>5, <3>1, Zenon DEF UndisturbedChatIsOneThread
  <2>6. QED
    BY <2>3, <2>4, <2>5, Zenon DEF UndisturbedChatIsOneThread
<1>15. CASE thread # c
  <2>1. /\ stream' = stream /\ messages' = messages /\ thread' = thread
        /\ chats' = chats /\ chat' = chat /\ disturbed' = disturbed
    BY <1>1, <1>15, Zenon
  <2>2. OneThread'
    BY <1>1, <1>2, <1>12, <2>1, Zenon DEF OneThread
  <2>3. TurnStreams'
    BY <1>1, <1>2, <2>1, Zenon DEF TurnStreams
  <2>4. ChatTypeOK'
    BY <1>1, <1>2, <1>6, <2>1, Zenon DEF ChatTypeOK
  <2>5. QED
    BY <1>9, <1>10, <1>13, <1>14, <2>2, <2>3, <2>4, Zenon DEF ChatInv
<1>16. CASE thread = c
  <2>1. /\ stream' = Stopped /\ messages' = 0 /\ thread' = NoThread
        /\ chats' = chats + 1 /\ chat' = chats + 1
        /\ disturbed' = (disturbed \/ appends # {})
    BY <1>1, <1>16, Zenon
  <2>2. stream' \in Streams /\ TurnStreams' /\ (stream' = NoStream \/ stream'.stopped)
    <3>1. CASE stream = NoStream
      BY <1>1, <1>2, <2>1, <3>1, Zenon DEF TurnStreams, Stopped, Streams
    <3>2. CASE stream # NoStream
      <4>1. stream \in Streams
        BY <1>2, Zenon DEF ChatTypeOK
      <4>2. QED
        BY <1>1, <1>2, <1>11, <2>1, <3>2, <4>1, StreamFacts, Zenon DEF TurnStreams
    <3>3. QED
      BY <3>1, <3>2, Zenon
  <2>3. NoThread \notin Kept /\ NoThread \in 0..NoThread
    BY <1>3, <1>7 DEF NoThread
  <2>4. \A d \in Kept : convs[d].chat # chats + 1
    BY <1>2, <1>3 DEF Uncreated
  <2>5. OneThread'
    BY <1>1, <1>12, <2>1, <2>2, <2>3, <2>4, Zenon DEF OneThread
  <2>6. disturbed' \in BOOLEAN
    BY <2>1
  <2>7. ChatTypeOK'
    BY <1>1, <1>2, <1>3, <1>6, <2>1, <2>2, <2>3, <2>6, Zenon DEF ChatTypeOK
  <2>8. QED
    BY <1>9, <1>10, <1>13, <1>14, <2>2, <2>5, <2>7, Zenon DEF ChatInv
<1>17. QED
  BY <1>15, <1>16, Zenon

\* What the records of requests are made of.
LEMMA RequestFacts ==
  ASSUME NEW a \in Requests
  PROVE  /\ a.turn \in Turns /\ a.chat \in Nat /\ a.to \in 0..NoThread /\ a.conn \in Conns
         /\ a.at \in {"sent", "touched", "stored"} /\ a.latest \in BOOLEAN
         /\ \A s \in {"sent", "touched", "stored"} :
              /\ [a EXCEPT !.at = s] \in Requests
              /\ [a EXCEPT !.at = s].turn = a.turn /\ [a EXCEPT !.at = s].to = a.to
              /\ [a EXCEPT !.at = s].at = s /\ [a EXCEPT !.at = s].chat = a.chat
              /\ [a EXCEPT !.at = s].latest = a.latest
         /\ \A c \in 0..NoThread : LET b == [a EXCEPT !.at = "touched", !.to = c] IN
              /\ b \in Requests
              /\ b.turn = a.turn /\ b.to = c /\ b.at = "touched" /\ b.chat = a.chat
              /\ b.latest = a.latest
         /\ LET b == [a EXCEPT !.latest = FALSE] IN
              b \in Requests /\ b.turn = a.turn /\ b.to = a.to /\ b.at = a.at /\ b.chat = a.chat
BY DEF Requests

\* The requests after a new one: the earlier ones are what they were but for the observer.
LEMMA LatestFacts ==
  ASSUME appends \subseteq Requests, NEW call \in Requests
  PROVE  /\ Latest(appends, call) \subseteq Requests /\ call \in Latest(appends, call)
         /\ \A b \in Latest(appends, call) :
              \/ b = call
              \/ \E a \in appends : /\ b = [a EXCEPT !.latest = FALSE]
                                    /\ b.turn = a.turn /\ b.to = a.to /\ b.at = a.at /\ b.chat = a.chat
<1>1. \A b \in Latest(appends, call) :
        b = call \/ \E a \in appends : b = [a EXCEPT !.latest = FALSE]
  BY Zenon DEF Latest
<1>2. ASSUME NEW a \in appends
      PROVE  LET b == [a EXCEPT !.latest = FALSE] IN
               b \in Requests /\ b.turn = a.turn /\ b.to = a.to /\ b.at = a.at /\ b.chat = a.chat
  <2>1. a \in Requests
    OBVIOUS
  <2>2. QED
    BY <2>1, RequestFacts, Zenon
<1>3. call \in Latest(appends, call)
  BY Zenon DEF Latest
<1>4. ASSUME NEW b \in Latest(appends, call)
      PROVE  /\ b \in Requests
             /\ \/ b = call
                \/ \E a \in appends : /\ b = [a EXCEPT !.latest = FALSE]
                                      /\ b.turn = a.turn /\ b.to = a.to /\ b.at = a.at /\ b.chat = a.chat
  <2>1. CASE b = call
    BY <2>1, Zenon
  <2>2. ASSUME NEW a \in appends, b = [a EXCEPT !.latest = FALSE]
        PROVE  /\ b \in Requests
               /\ b = [a EXCEPT !.latest = FALSE] /\ b.turn = a.turn /\ b.to = a.to /\ b.at = a.at /\ b.chat = a.chat
    BY <1>2, <2>2
  <2>3. QED
    BY <1>1, <2>1, <2>2, Zenon
<1>5. QED
  BY <1>3, <1>4, Zenon

\* A complete answer sends its exchange to the thread of the moment.
LEMMA TurnDoneStep ==
  ASSUME ChatInv, TurnDone
  PROVE  ChatInv'
<1> DEFINE call == [turn |-> stream.turn, chat |-> stream.chat, asked |-> stream.conn,
                    conn |-> conn, to |-> thread, at |-> "sent", latest |-> TRUE]
<1>1. /\ ChatTypeOK /\ TurnStreams /\ SentOnce /\ StoredOnce /\ Uncreated
      /\ UndisturbedChatIsOneThread /\ OneThread
  BY Zenon DEF ChatInv
<1>2. /\ stream # NoStream /\ ~stream.stopped /\ stream' = NoStream
      /\ conn' = conn /\ messages' = messages /\ thread' = thread /\ chat' = chat
      /\ chats' = chats /\ turns' = turns /\ loads' = loads /\ resumed' = resumed
      /\ convs' = convs
      /\ \/ /\ appends' = appends /\ queries' = queries /\ autoRuns' = autoRuns
            /\ finished' = finished /\ disturbed' = disturbed
         \/ /\ appends' = Latest(appends, call) /\ finished' = finished \cup {stream.turn}
            /\ disturbed' = (disturbed \/ appends # {})
            /\ \/ queries' = queries /\ autoRuns' = autoRuns
               \/ /\ autoRuns < MaxAutoRuns /\ autoRuns' = autoRuns + 1
                  /\ queries' \in {queries, {stream.conn}}
  BY Zenon DEF TurnDone, Disturb, panel, history
<1>3. /\ conn \in Conns /\ messages \in 0..turns /\ loads \subseteq 0..MaxTurns
      /\ queries \subseteq Conns /\ resumed \subseteq Conns /\ autoRuns \in 0..MaxAutoRuns
      /\ stream \in Streams /\ thread \in 0..NoThread /\ turns \in 0..MaxTurns
      /\ appends \subseteq Requests /\ convs \in [0..MaxTurns -> Conversations]
      /\ finished \subseteq Turns /\ NoStream \in Streams
  BY <1>1, Zenon DEF ChatTypeOK, Streams
<1>4. /\ stream.turn \in Turns /\ stream.chat \in Nat /\ stream.conn \in Conns
      /\ stream.turn = turns /\ turns \notin finished /\ stream.chat \in 0..chats
  BY <1>1, <1>2, <1>3, StreamFacts, Zenon DEF TurnStreams
<1>5. CASE /\ appends' = appends /\ queries' = queries /\ autoRuns' = autoRuns
           /\ finished' = finished /\ disturbed' = disturbed
  BY <1>2, <1>3, <1>5, PanelStep, Zenon DEF ChatInv, ChatTypeOK
<1>6. CASE /\ appends' = Latest(appends, call) /\ finished' = finished \cup {stream.turn}
           /\ disturbed' = (disturbed \/ appends # {})
           /\ \/ queries' = queries /\ autoRuns' = autoRuns
              \/ /\ autoRuns < MaxAutoRuns /\ autoRuns' = autoRuns + 1
                 /\ queries' \in {queries, {stream.conn}}
  <2>1. call \in Requests
    BY <1>3, <1>4, Zenon DEF Requests
  <2>2. /\ call.turn = turns /\ call.to = thread /\ call.at = "sent" /\ call.latest
        /\ call.chat = stream.chat
    BY <1>4, Zenon
  <2> HIDE DEF call
  <2>3. /\ appends' \subseteq Requests /\ call \in appends'
        /\ \A b \in appends' :
             \/ b = call
             \/ \E a \in appends : /\ b = [a EXCEPT !.latest = FALSE]
                                   /\ b.turn = a.turn /\ b.to = a.to /\ b.at = a.at /\ b.chat = a.chat
    BY <1>3, <1>6, <2>1, LatestFacts, Zenon
  <2>4. finished' = finished \cup {turns}
    BY <1>4, <1>6, Zenon
  <2>5. Kept' = Kept /\ \A c : Stored(c)' = Stored(c)
    BY <1>2, Zenon DEF Kept, Stored
  <2>6. \A a \in appends : a.turn \in finished /\ a.turn # turns
    BY <1>1, <1>4, Zenon DEF SentOnce
  <2>7. SentOnce'
    <3>1. ASSUME NEW b \in appends'
          PROVE  /\ b.turn \in finished'
                 /\ b.at # "stored" => \A c \in 0..MaxTurns : b.turn \notin Stored(c)'
      <4>1. CASE b = call
        BY <1>1, <1>4, <2>2, <2>4, <2>5, <4>1, Zenon DEF StoredOnce
      <4>2. CASE b # call
        BY <1>1, <2>3, <2>4, <2>5, <2>6, <4>2, Zenon DEF SentOnce
      <4>3. QED
        BY <4>1, <4>2, Zenon
    <3>2. ASSUME NEW b \in appends', NEW d \in appends', b.turn = d.turn
          PROVE  b = d
      <4>1. CASE b = call
        <5>1. ~ \E a \in appends : d.turn = a.turn
          BY <2>2, <2>6, <3>2, <4>1, Zenon
        <5>2. QED
          BY <2>3, <4>1, <5>1, Zenon
      <4>2. CASE d = call
        <5>1. ~ \E a \in appends : b.turn = a.turn
          BY <2>2, <2>6, <3>2, <4>2, Zenon
        <5>2. QED
          BY <2>3, <4>2, <5>1, Zenon
      <4>3. CASE b # call /\ d # call
        <5>1. PICK a \in appends : b = [a EXCEPT !.latest = FALSE] /\ b.turn = a.turn
          BY <2>3, <4>3, Zenon
        <5>2. PICK e \in appends : d = [e EXCEPT !.latest = FALSE] /\ d.turn = e.turn
          BY <2>3, <4>3, Zenon
        <5>3. a = e
          BY <1>1, <3>2, <5>1, <5>2, Zenon DEF SentOnce
        <5>4. QED
          BY <5>1, <5>2, <5>3, Zenon
      <4>4. QED
        BY <4>1, <4>2, <4>3, Zenon
    <3>3. QED
      BY <3>1, <3>2, Zenon DEF SentOnce
  <2>8. StoredOnce'
    BY <1>1, <1>2, <2>4, <2>5, Zenon DEF StoredOnce
  <2>9. Uncreated'
    <3>1. turns \notin Kept
      BY <1>1, <1>4, <1>3, ChatAssumption DEF Uncreated, Turns
    <3>2. ASSUME NEW b \in appends'
          PROVE  b.chat \in 0..chats' /\ (b.at = "sent" => b.turn \notin Kept')
      <4>1. CASE b = call
        BY <1>2, <1>4, <2>2, <2>5, <3>1, <4>1, Zenon
      <4>2. CASE b # call
        <5>1. PICK a \in appends : b.turn = a.turn /\ b.at = a.at /\ b.chat = a.chat
          BY <2>3, <4>2, Zenon
        <5>2. a.chat \in 0..chats /\ (a.at = "sent" => a.turn \notin Kept)
          BY <1>1, Zenon DEF Uncreated
        <5>3. QED
          BY <1>2, <2>5, <5>1, <5>2, Zenon
      <4>3. QED
        BY <4>1, <4>2
    <3>3. ASSUME NEW c \in Kept' PROVE c \in finished' \cup {0} /\ convs'[c].chat \in 0..chats'
      BY <1>1, <1>2, <2>4, <2>5, Zenon DEF Uncreated
    <3>4. QED
      BY <3>2, <3>3, Zenon DEF Uncreated
  <2>10. UndisturbedChatIsOneThread'
    <3>1. ASSUME ~disturbed' PROVE \A a \in appends' : a.to \in Kept => convs[a.to].chat = a.chat
      <4>1. ~disturbed /\ appends = {} /\ appends' = {call}
        BY <1>6, <2>3, <3>1, Zenon
      <4>2. stream.chat = chat /\ (thread \in Kept => convs[thread].chat = chat)
        BY <1>1, <1>2, <4>1, Zenon DEF OneThread
      <4>3. QED
        BY <2>2, <4>1, <4>2, Zenon
    <3>2. ~disturbed' => ~disturbed
      BY <1>6, Zenon
    <3>3. QED
      BY <1>1, <1>2, <2>5, <3>1, <3>2, Zenon DEF UndisturbedChatIsOneThread
  <2>11. OneThread'
    <3>1. SUFFICES ASSUME ~disturbed' PROVE OneThread'
      BY Zenon DEF OneThread
    <3>2. ~disturbed /\ appends = {} /\ appends' = {call}
      BY <1>6, <2>3, <3>1, Zenon
    <3>3. /\ stream.chat = chat /\ (thread \in Kept => convs[thread].chat = chat)
          /\ thread = NoThread => \A c \in Kept : convs[c].chat # chat
      BY <1>1, <1>2, <3>2, Zenon DEF OneThread
    <3>4. \A t \in finished' : t <= turns
      BY <1>1, <1>3, <2>4 DEF TurnStreams
    <3>5. QED
      BY <1>2, <2>2, <2>5, <3>2, <3>3, <3>4, Zenon DEF OneThread
  <2>12. TurnStreams'
    <3>1. turns \in 1..turns
      BY <1>3, <1>4 DEF Turns
    <3>2. QED
      BY <1>1, <1>2, <2>4, <3>1, Zenon DEF TurnStreams
  <2>13. /\ autoRuns' \in 0..MaxAutoRuns /\ queries' \subseteq Conns
         /\ finished' \subseteq Turns /\ disturbed' \in BOOLEAN
    <3>1. autoRuns' \in 0..MaxAutoRuns
      BY <1>3, <1>6, ChatAssumption
    <3>2. queries' \subseteq Conns
      BY <1>3, <1>4, <1>6, Zenon
    <3>3. QED
      BY <1>3, <1>4, <1>6, <3>1, <3>2, Zenon
  <2>14. ChatTypeOK'
    BY <1>1, <1>2, <1>3, <2>3, <2>13, Zenon DEF ChatTypeOK
  <2>15. QED
    BY <2>7, <2>8, <2>9, <2>10, <2>11, <2>12, <2>14, Zenon DEF ChatInv
<1>7. QED
  BY <1>2, <1>5, <1>6, Zenon

\* A request goes on as the request of the same turn.
LEMMA RequestGoesOn ==
  ASSUME SentOnce, NEW a \in appends, NEW b, b.turn = a.turn
  PROVE  \A p, q \in (appends \ {a}) \cup {b} : p.turn = q.turn => p = q
BY Zenon DEF SentOnce

\* The server creates the conversation of a chat that has none.
LEMMA AppendTouchStep ==
  ASSUME ChatInv, NEW a \in appends, AppendTouch(a)
  PROVE  ChatInv'
<1> DEFINE c == IF a.to = NoThread THEN a.turn ELSE a.to
           b == [a EXCEPT !.at = "touched", !.to = c]
           new == [conn |-> a.conn, chat |-> a.chat, items |-> <<>>, kept |-> TRUE]
<1>1. /\ ChatTypeOK /\ TurnStreams /\ SentOnce /\ StoredOnce /\ Uncreated
      /\ UndisturbedChatIsOneThread /\ OneThread
  BY Zenon DEF ChatInv
<1>2. /\ a.at = "sent" /\ (a.to = NoThread \/ a.to \in Kept)
      /\ appends' = (appends \ {a}) \cup {b}
      /\ convs' = IF a.to = NoThread THEN [convs EXCEPT ![c] = new] ELSE convs
      /\ conn' = conn /\ messages' = messages /\ thread' = thread /\ chat' = chat
      /\ chats' = chats /\ stream' = stream /\ turns' = turns /\ loads' = loads
      /\ queries' = queries /\ autoRuns' = autoRuns /\ resumed' = resumed
      /\ finished' = finished /\ disturbed' = disturbed
  BY Zenon DEF AppendTouch, panel, history
<1>3. /\ a \in Requests /\ appends \subseteq Requests /\ finished \subseteq Turns
      /\ convs \in [0..MaxTurns -> Conversations] /\ MaxTurns \in Nat
      /\ chat \in 0..chats /\ chats \in 1..MaxChats
  BY <1>1, ChatAssumption, Zenon DEF ChatTypeOK
<1>4. /\ a.turn \in Turns /\ a.chat \in Nat /\ a.to \in 0..NoThread /\ a.conn \in Conns
      /\ a.turn \in finished /\ a.turn \notin Kept
  BY <1>1, <1>2, <1>3, RequestFacts, Zenon DEF SentOnce, Uncreated
<1>5. /\ Kept \subseteq 0..MaxTurns /\ NoThread \notin 0..MaxTurns
      /\ a.turn \in 0..MaxTurns /\ c \in 0..MaxTurns /\ c \in 0..NoThread /\ c # NoThread
      /\ a.turn # NoThread
  <2>1. /\ Kept \subseteq 0..MaxTurns /\ NoThread \notin 0..MaxTurns /\ Turns \subseteq 0..MaxTurns
        /\ 0..MaxTurns \subseteq 0..NoThread
    BY <1>3 DEF Kept, NoThread, Turns
  <2>2. QED
    BY <1>2, <1>4, <2>1
<1>6. /\ b \in Requests /\ b.turn = a.turn /\ b.to = c /\ b.at = "touched"
      /\ b.chat = a.chat /\ b.latest = a.latest
  <2>1. /\ b \in Requests /\ b.turn = a.turn /\ b.to = c /\ b.at = "touched"
        /\ b.chat = a.chat /\ b.latest = a.latest
    <3>1. \A n \in 0..NoThread : LET r == [a EXCEPT !.at = "touched", !.to = n] IN
            /\ r \in Requests /\ r.turn = a.turn /\ r.to = n /\ r.at = "touched"
            /\ r.chat = a.chat /\ r.latest = a.latest
      BY <1>3 DEF Requests
    <3> HIDE DEF c
    <3>2. QED
      BY <1>5, <3>1, Zenon
  <2>2. QED
    BY <2>1
<1>7. new \in Conversations /\ new.items = <<>> /\ new.kept = TRUE /\ new.chat = a.chat
  <2>1. <<>> \in Seq(Turns)
    OBVIOUS
  <2>2. QED
    BY <1>4, <2>1, Zenon DEF Conversations
<1> HIDE DEF b, new
<1>8. /\ convs' \in [0..MaxTurns -> Conversations]
      /\ \A d \in 0..MaxTurns :
           \/ convs'[d] = convs[d]
           \/ a.to = NoThread /\ d = a.turn /\ convs'[d] = new
      /\ a.to = NoThread => convs'[a.turn] = new
  BY <1>2, <1>3, <1>5, <1>7
<1>9. \A d \in 0..MaxTurns : d \in Kept' <=> convs'[d].kept
  BY DEF Kept
<1>10. /\ Kept' \subseteq 0..MaxTurns /\ Kept \subseteq Kept'
       /\ \A d \in Kept : convs'[d] = convs[d]
       /\ \A d \in Kept' : \/ d \in Kept
                           \/ /\ a.to = NoThread /\ d = a.turn /\ convs'[d].chat = a.chat
                              /\ convs'[d].items = <<>>
  BY <1>4, <1>5, <1>7, <1>8, <1>9 DEF Kept
<1>11. Stored(a.turn) = Stored(a.turn) /\ \A d \in 0..MaxTurns :
         /\ Stored(d)' \subseteq Stored(d) /\ Cardinality(Stored(d)') = Len(convs'[d].items)
  <2>1. ASSUME NEW d \in 0..MaxTurns, convs'[d] = convs[d]
        PROVE  Stored(d)' = Stored(d) /\ Cardinality(Stored(d)') = Len(convs'[d].items)
    BY <1>1, <2>1, Zenon DEF Stored, StoredOnce
  <2>2. ASSUME NEW d \in 0..MaxTurns, convs'[d] = new
        PROVE  Stored(d)' = {} /\ Cardinality(Stored(d)') = Len(convs'[d].items)
    <3>1. Cardinality({}) = 0
      BY FS_EmptySet
    <3>2. Stored(d)' = {} /\ Len(convs'[d].items) = 0
      BY <1>7, <2>2 DEF Stored
    <3>3. QED
      BY <3>1, <3>2, Zenon
  <2>3. QED
    BY <1>8, <2>1, <2>2, Zenon
<1>12. SentOnce'
  <2>1. \A p, q \in appends' : p.turn = q.turn => p = q
    <3>1. \A p, q \in (appends \ {a}) \cup {b} : p.turn = q.turn => p = q
      BY <1>1, <1>6, RequestGoesOn
    <3>2. QED
      BY <1>2, <3>1, Zenon
  <2>2. ASSUME NEW p \in appends'
        PROVE  /\ p.turn \in finished'
               /\ p.at # "stored" => \A d \in 0..MaxTurns : p.turn \notin Stored(d)'
    <3>1. PICK q \in appends : p.turn = q.turn /\ (p.at # "stored" => q.at # "stored")
      BY <1>2, <1>6, Zenon
    <3>2. QED
      BY <1>1, <1>2, <1>11, <3>1, Zenon DEF SentOnce
  <2>3. QED
    BY <2>1, <2>2, Zenon DEF SentOnce
<1>13. StoredOnce'
  <2>1. ASSUME NEW d \in 0..MaxTurns, NEW e \in 0..MaxTurns, d # e
        PROVE  Stored(d)' \cap Stored(e)' = {}
    <3>1. Stored(d) \cap Stored(e) = {} /\ Stored(d)' \subseteq Stored(d) /\ Stored(e)' \subseteq Stored(e)
      BY <1>1, <1>11, <2>1, Zenon DEF StoredOnce
    <3>2. QED
      BY <3>1
  <2>2. QED
    BY <1>1, <1>2, <1>11, <2>1, Zenon DEF StoredOnce
<1>14. Uncreated'
  <2>1. ASSUME NEW d \in Kept' PROVE d \in finished' \cup {0} /\ convs'[d].chat \in 0..chats'
    <3>1. CASE d \in Kept
      BY <1>1, <1>2, <1>10, <3>1, Zenon DEF Uncreated
    <3>2. CASE d \notin Kept
      <4>1. d = a.turn /\ convs'[d].chat = a.chat
        BY <1>10, <3>2, Zenon
      <4>2. QED
        BY <1>1, <1>2, <1>4, <4>1, Zenon DEF Uncreated
    <3>3. QED
      BY <3>1, <3>2, Zenon
  <2>2. ASSUME NEW p \in appends', p.at = "sent" PROVE p.turn \notin Kept'
    <3>1. p \in appends /\ p # a
      BY <1>2, <1>6, <2>2
    <3>2. p.turn # a.turn /\ p.turn \notin Kept
      BY <1>1, <2>2, <3>1, Zenon DEF SentOnce, Uncreated
    <3>3. QED
      BY <1>10, <3>2, Zenon
  <2>3. ASSUME NEW p \in appends' PROVE p.chat \in 0..chats'
    BY <1>1, <1>2, <1>6, <2>3, Zenon DEF Uncreated
  <2>4. QED
    BY <2>1, <2>2, <2>3, Zenon DEF Uncreated
<1>15. ASSUME ~disturbed
       PROVE  /\ appends' = {b} /\ a.chat = chat /\ a.latest /\ a.to = thread
              /\ a.to = NoThread => \A d \in Kept : convs[d].chat # chat
              /\ thread \in Kept => convs[thread].chat = chat
              /\ \A t \in finished : t <= a.turn
              /\ stream # NoStream /\ ~stream.stopped => stream.chat = chat
  BY <1>1, <1>2, <1>15, Zenon DEF OneThread
<1>16. ~disturbed => convs'[c].chat = chat
  BY <1>2, <1>7, <1>8, <1>10, <1>15, Zenon
<1>17. UndisturbedChatIsOneThread'
  <2>1. ASSUME ~disturbed, NEW d \in Kept'
        PROVE  \A i, j \in 1..Len(convs'[d].items) :
                 i < j => convs'[d].items[i] < convs'[d].items[j]
    <3>1. CASE d \in Kept
      BY <1>1, <1>10, <2>1, <3>1, Zenon DEF UndisturbedChatIsOneThread
    <3>2. CASE d \notin Kept
      <4>1. convs'[d].items = <<>>
        BY <1>10, <3>2, Zenon
      <4>2. QED
        BY <4>1
    <3>3. QED
      BY <3>1, <3>2, Zenon
  <2>2. ASSUME ~disturbed PROVE \A p \in appends' : p.to \in Kept' => convs'[p.to].chat = p.chat
    BY <1>6, <1>15, <1>16, <2>2, Zenon
  <2>3. ASSUME ~disturbed, NEW d \in Kept', NEW e \in Kept', d # e
        PROVE  convs'[d].chat # convs'[e].chat
    <3>1. ASSUME NEW k \in Kept
          PROVE  convs'[k] = convs[k] /\ (a.to = NoThread => convs'[k].chat # a.chat)
      <4>1. convs'[k] = convs[k]
        BY <1>10, Zenon
      <4>2. QED
        BY <1>15, <2>3, <4>1, Zenon
    <3>2. ASSUME NEW k \in Kept', k \notin Kept
          PROVE  a.to = NoThread /\ k = a.turn /\ convs'[k].chat = a.chat
      BY <1>10, <3>2, Zenon
    <3>3. CASE d \in Kept /\ e \in Kept
      <4>1. convs[d].chat # convs[e].chat
        BY <1>1, <2>3, <3>3, Zenon DEF UndisturbedChatIsOneThread
      <4>2. QED
        BY <3>1, <3>3, <4>1, Zenon
    <3>4. CASE d \in Kept /\ e \notin Kept
      BY <3>1, <3>2, <3>4, Zenon
    <3>5. CASE d \notin Kept /\ e \in Kept
      BY <3>1, <3>2, <3>5, Zenon
    <3>6. CASE d \notin Kept /\ e \notin Kept
      BY <2>3, <3>2, <3>6, Zenon
    <3>7. QED
      BY <3>3, <3>4, <3>5, <3>6, Zenon
  <2>4. QED
    BY <1>2, <2>1, <2>2, <2>3, Zenon DEF UndisturbedChatIsOneThread
<1>18. OneThread'
  <2>1. SUFFICES ASSUME ~disturbed PROVE OneThread'
    BY <1>2, Zenon DEF OneThread
  <2>2. thread \in Kept' => convs'[thread].chat = chat
    BY <1>5, <1>10, <1>15, <2>1, Zenon
  <2>3. QED
    BY <1>2, <1>5, <1>6, <1>15, <2>1, <2>2, Zenon DEF OneThread
<1>19. TurnStreams'
  BY <1>1, <1>2, Zenon DEF TurnStreams
<1>20. appends' \subseteq Requests
  BY <1>2, <1>3, <1>6, Zenon
<1>21. ChatTypeOK'
  BY <1>1, <1>2, <1>8, <1>20, Zenon DEF ChatTypeOK
<1>22. QED
  BY <1>12, <1>13, <1>14, <1>17, <1>18, <1>19, <1>21, Zenon DEF ChatInv

\* The server stores an exchange: it is later than all that its conversation has.
LEMMA AppendStoreStep ==
  ASSUME ChatInv, NEW a \in appends, AppendStore(a)
  PROVE  ChatInv'
<1> DEFINE b == [a EXCEPT !.at = "stored"]
           items == convs[a.to].items
           more == [convs[a.to] EXCEPT !.items = Append(items, a.turn)]
<1>1. /\ ChatTypeOK /\ TurnStreams /\ SentOnce /\ StoredOnce /\ Uncreated
      /\ UndisturbedChatIsOneThread /\ OneThread
  BY Zenon DEF ChatInv
<1>2. /\ a.at = "touched" /\ a.to \in Kept /\ appends' = (appends \ {a}) \cup {b}
      /\ conn' = conn /\ messages' = messages /\ thread' = thread /\ chat' = chat
      /\ chats' = chats /\ stream' = stream /\ turns' = turns /\ loads' = loads
      /\ queries' = queries /\ autoRuns' = autoRuns /\ resumed' = resumed
      /\ finished' = finished /\ disturbed' = disturbed
  BY Zenon DEF AppendStore, panel, history
<1>3. convs' = [convs EXCEPT ![a.to] = more]
  BY DEF AppendStore
<1>4. /\ a \in Requests /\ appends \subseteq Requests /\ finished \subseteq Turns
      /\ convs \in [0..MaxTurns -> Conversations] /\ Kept \subseteq 0..MaxTurns
      /\ \A d \in 0..MaxTurns : d \in Kept <=> convs[d].kept
  BY <1>1, Zenon DEF ChatTypeOK, Kept
<1>5. /\ b \in Requests /\ b.turn = a.turn /\ b.to = a.to /\ b.at = "stored"
      /\ b.chat = a.chat /\ b.latest = a.latest
  BY <1>4, RequestFacts, Zenon
<1>6. /\ a.turn \in finished /\ a.turn \in Turns /\ a.to \in 0..MaxTurns
      /\ \A d \in 0..MaxTurns : a.turn \notin Stored(d)
  BY <1>1, <1>2, <1>4, Zenon DEF SentOnce
<1>7. items \in Seq(Turns)
  <2>1. convs[a.to] \in Conversations
    BY <1>4, <1>6, Zenon
  <2>2. QED
    BY <2>1, Zenon DEF Conversations
<1>8. /\ Append(items, a.turn) \in Seq(Turns) /\ Len(Append(items, a.turn)) = Len(items) + 1
      /\ Len(items) \in Nat
      /\ \A i \in 1..Len(items) : Append(items, a.turn)[i] = items[i]
      /\ Append(items, a.turn)[Len(items) + 1] = a.turn
  <2> HIDE DEF items, more, b
  <2> QED  BY <1>6, <1>7, AppendFacts
<1>9. /\ more \in Conversations /\ more.items = Append(items, a.turn)
      /\ more.kept = convs[a.to].kept /\ more.chat = convs[a.to].chat
  <2>1. convs[a.to] \in Conversations
    BY <1>4, <1>6, Zenon
  <2>2. ASSUME NEW v \in Conversations, NEW w \in Seq(Turns)
        PROVE  LET u == [v EXCEPT !.items = w] IN
                 u \in Conversations /\ u.items = w /\ u.kept = v.kept /\ u.chat = v.chat
    BY DEF Conversations
  <2>3. QED
    BY <1>8, <2>1, <2>2
<1> HIDE DEF b, more
<1>10. /\ convs' \in [0..MaxTurns -> Conversations] /\ convs'[a.to] = more
       /\ \A d \in 0..MaxTurns \ {a.to} : convs'[d] = convs[d]
  BY <1>3, <1>4, <1>6, <1>9
<1>11. /\ Kept' = Kept
       /\ \A d \in Kept : convs'[d].chat = convs[d].chat
  <2>1. \A d \in 0..MaxTurns : convs'[d].kept = convs[d].kept /\ convs'[d].chat = convs[d].chat
    BY <1>9, <1>10
  <2>2. QED
    BY <2>1, Zenon DEF Kept
<1>12. /\ Stored(a.to)' = Stored(a.to) \cup {a.turn}
       /\ \A d \in 0..MaxTurns \ {a.to} : Stored(d)' = Stored(d)
  <2>1. Stored(a.to) = {items[i] : i \in 1..Len(items)}
    BY Zenon DEF Stored
  <2>2. Stored(a.to)' = {Append(items, a.turn)[i] : i \in 1..Len(items) + 1}
    BY <1>8, <1>9, <1>10, Zenon DEF Stored
  <2>3. 1..Len(items) + 1 = 1..Len(items) \cup {Len(items) + 1}
    BY <1>8, IntervalFacts, Zenon
  <2>4. Stored(a.to)' = Stored(a.to) \cup {a.turn}
    <3> DEFINE longer == Append(items, a.turn)
               new == Len(items) + 1
    <3>1. Stored(a.to)' = {longer[i] : i \in 1..Len(items) \cup {new}}
      BY <2>2, <2>3, Zenon
    <3>2. Stored(a.to) = {longer[i] : i \in 1..Len(items)} /\ longer[new] = a.turn
      BY <1>8, <2>1, Zenon
    <3> HIDE DEF longer, new
    <3>3. {longer[i] : i \in 1..Len(items) \cup {new}}
            = {longer[i] : i \in 1..Len(items)} \cup {longer[new]}
      BY Zenon
    <3>4. QED
      BY <3>1, <3>2, <3>3, Zenon
  <2>5. QED
    BY <1>10, <2>4, Zenon DEF Stored
<1>13. \A d \in 0..MaxTurns :
         Stored(d)' \subseteq finished /\ Cardinality(Stored(d)') = Len(convs'[d].items)
  <2>1. Stored(a.to) \subseteq 1..turns /\ Cardinality(Stored(a.to)) = Len(items)
        /\ Stored(a.to) \subseteq finished
    BY <1>1, <1>6, Zenon DEF StoredOnce, TurnStreams
  <2>2. IsFiniteSet(1..turns)
    <3>1. 1 \in Int /\ turns \in Int
      BY <1>1 DEF ChatTypeOK
    <3>2. QED
      BY <3>1, FS_Interval, Zenon
  <2>3. IsFiniteSet(Stored(a.to))
    BY <2>1, <2>2, FS_Subset, Zenon
  <2>4. Cardinality(Stored(a.to) \cup {a.turn}) = Len(items) + 1
    BY <1>6, <2>1, <2>3, FS_AddElement, Zenon
  <2>5. QED
    <3>1. Stored(a.to)' \subseteq finished /\ Cardinality(Stored(a.to)') = Len(convs'[a.to].items)
      BY <1>6, <1>8, <1>9, <1>10, <1>12, <2>1, <2>4, Zenon
    <3>2. ASSUME NEW d \in 0..MaxTurns, d # a.to
          PROVE  Stored(d)' \subseteq finished /\ Cardinality(Stored(d)') = Len(convs'[d].items)
      <4>1. Stored(d)' = Stored(d) /\ convs'[d] = convs[d]
        BY <1>10, <1>12, <3>2
      <4>2. QED
        BY <1>1, <4>1, Zenon DEF StoredOnce
    <3>3. QED
      BY <3>1, <3>2, Zenon
<1>14. SentOnce'
  <2>1. \A p, q \in appends' : p.turn = q.turn => p = q
    <3>1. \A p, q \in (appends \ {a}) \cup {b} : p.turn = q.turn => p = q
      BY <1>1, <1>5, RequestGoesOn
    <3>2. QED
      BY <1>2, <3>1, Zenon
  <2>2. ASSUME NEW p \in appends'
        PROVE  /\ p.turn \in finished'
               /\ p.at # "stored" => \A d \in 0..MaxTurns : p.turn \notin Stored(d)'
    <3>1. CASE p = b
      BY <1>2, <1>5, <1>6, <3>1, Zenon
    <3>2. CASE p # b
      <4>1. p \in appends /\ p # a
        BY <1>2, <3>2, Zenon
      <4>2. p.turn # a.turn
        BY <1>1, <4>1, Zenon DEF SentOnce
      <4>3. QED
        <5>1. p.turn \in finished'
          BY <1>1, <1>2, <4>1, Zenon DEF SentOnce
        <5>2. ASSUME p.at # "stored", NEW d \in 0..MaxTurns PROVE p.turn \notin Stored(d)'
          <6>1. p.turn \notin Stored(d)
            BY <1>1, <4>1, <5>2, Zenon DEF SentOnce
          <6>2. Stored(d)' \subseteq Stored(d) \cup {a.turn}
            BY <1>12, Zenon
          <6>3. QED
            BY <4>2, <6>1, <6>2
        <5>3. QED
          BY <5>1, <5>2, Zenon
    <3>3. QED
      BY <3>1, <3>2, Zenon
  <2>3. QED
    BY <2>1, <2>2, Zenon DEF SentOnce
<1>15. StoredOnce'
  <2>1. ASSUME NEW d \in 0..MaxTurns, NEW e \in 0..MaxTurns, d # e
        PROVE  Stored(d)' \cap Stored(e)' = {}
    <3>1. /\ Stored(d) \cap Stored(e) = {} /\ a.turn \notin Stored(d) /\ a.turn \notin Stored(e)
      BY <1>1, <1>6, <2>1, Zenon DEF StoredOnce
    <3>2. /\ d # a.to => Stored(d)' = Stored(d)
          /\ d = a.to => Stored(d)' = Stored(d) \cup {a.turn}
          /\ e # a.to => Stored(e)' = Stored(e)
          /\ e = a.to => Stored(e)' = Stored(e) \cup {a.turn}
      BY <1>12, Zenon
    <3>3. QED
      BY <2>1, <3>1, <3>2
  <2>2. QED
    BY <1>2, <1>13, <2>1, Zenon DEF StoredOnce
<1>16. Uncreated'
  <2>1. ASSUME NEW p \in appends' PROVE p.chat \in 0..chats' /\ (p.at = "sent" => p.turn \notin Kept')
    <3>1. CASE p = b
      BY <1>1, <1>2, <1>5, <3>1 DEF Uncreated
    <3>2. CASE p # b
      BY <1>1, <1>2, <1>11, <3>2, Zenon DEF Uncreated
    <3>3. QED
      BY <3>1, <3>2, Zenon
  <2>2. QED
    BY <1>1, <1>2, <1>11, <2>1, Zenon DEF Uncreated
<1>17. ASSUME ~disturbed
       PROVE  /\ appends' = {b} /\ a.chat = chat /\ a.latest /\ a.to # NoThread
              /\ \A t \in finished : t <= a.turn
              /\ thread \in Kept => convs[thread].chat = chat
              /\ stream # NoStream /\ ~stream.stopped => stream.chat = chat
  BY <1>1, <1>2, <1>17 DEF OneThread
<1>18. UndisturbedChatIsOneThread'
  <2>1. ASSUME ~disturbed, NEW d \in Kept'
        PROVE  \A i, j \in 1..Len(convs'[d].items) :
                 i < j => convs'[d].items[i] < convs'[d].items[j]
    <3>1. CASE d # a.to
      BY <1>1, <1>4, <1>10, <1>11, <2>1, <3>1, Zenon DEF UndisturbedChatIsOneThread
    <3>2. CASE d = a.to
      <4>1. \A i, j \in 1..Len(items) : i < j => items[i] < items[j]
        BY <1>1, <1>2, <2>1, Zenon DEF UndisturbedChatIsOneThread
      <4>2. \A i \in 1..Len(items) : items[i] < a.turn
        <5>1. ASSUME NEW i \in 1..Len(items) PROVE items[i] < a.turn
          <6>1. items[i] \in Stored(a.to)
            BY Zenon DEF Stored
          <6>2. items[i] \in finished /\ items[i] # a.turn
            BY <1>1, <1>6, <6>1, Zenon DEF StoredOnce
          <6>3. items[i] <= a.turn /\ items[i] \in Turns
            BY <1>4, <1>17, <2>1, <6>2, Zenon
          <6>4. QED
            BY <1>6, <6>2, <6>3 DEF Turns
        <5>2. QED
          BY <5>1, Zenon
      <4>3. convs'[d].items = Append(items, a.turn)
        BY <1>9, <1>10, <3>2, Zenon
      <4>4. ASSUME NEW i \in 1..Len(items) + 1, NEW j \in 1..Len(items) + 1, i < j
            PROVE  Append(items, a.turn)[i] < Append(items, a.turn)[j]
        <5> DEFINE n == Len(items)
        <5>1. n \in Nat /\ i \in 1..n+1 /\ j \in 1..n+1
          BY <1>8, Zenon
        <5> HIDE DEF n
        <5>2. i \in 1..n /\ (j \in 1..n \/ j = n + 1)
          BY <4>4, <5>1
        <5>3. i \in 1..Len(items) /\ (j \in 1..Len(items) \/ j = Len(items) + 1)
          BY <5>2, Zenon DEF n
        <5>4. QED
          BY <1>8, <4>1, <4>2, <4>4, <5>3, Zenon
      <4>5. QED
        BY <1>8, <4>3, <4>4, Zenon
    <3>3. QED
      BY <3>1, <3>2, Zenon
  <2>2. ASSUME ~disturbed PROVE \A p \in appends' : p.to \in Kept' => convs'[p.to].chat = p.chat
    <3>1. convs[a.to].chat = a.chat
      BY <1>1, <1>2, <2>2, Zenon DEF UndisturbedChatIsOneThread
    <3>2. convs'[b.to].chat = b.chat
      BY <1>2, <1>5, <1>11, <3>1, Zenon
    <3>3. QED
      BY <1>17, <2>2, <3>2, Zenon
  <2>3. ASSUME ~disturbed, NEW d \in Kept', NEW e \in Kept', d # e
        PROVE  convs'[d].chat # convs'[e].chat
    <3>1. convs[d].chat # convs[e].chat
      BY <1>1, <1>11, <2>3, Zenon DEF UndisturbedChatIsOneThread
    <3>2. QED
      BY <1>11, <3>1, Zenon
  <2>4. QED
    BY <1>2, <2>1, <2>2, <2>3, Zenon DEF UndisturbedChatIsOneThread
<1>19. OneThread'
  <2>1. SUFFICES ASSUME ~disturbed PROVE OneThread'
    BY <1>2, Zenon DEF OneThread
  <2>2. thread \in Kept' => convs'[thread].chat = chat
    BY <1>11, <1>17, <2>1, Zenon
  <2>3. b.at # "sent"
    BY <1>5
  <2>4. QED
    BY <1>2, <1>5, <1>17, <2>1, <2>2, <2>3, Zenon DEF OneThread
<1>20. TurnStreams'
  BY <1>1, <1>2, Zenon DEF TurnStreams
<1>21. appends' \subseteq Requests
  BY <1>2, <1>4, <1>5, Zenon
<1>22. ChatTypeOK'
  BY <1>1, <1>2, <1>10, <1>21, Zenon DEF ChatTypeOK
<1>23. QED
  BY <1>14, <1>15, <1>16, <1>18, <1>19, <1>20, <1>22, Zenon DEF ChatInv

\* A request is over, answered or lost: the answer of the latest names the thread.
LEMMA RequestOverStep ==
  ASSUME ChatInv, NEW a \in appends, Appended(a) \/ AppendLost(a)
  PROVE  ChatInv'
<1>1. /\ ChatTypeOK /\ TurnStreams /\ SentOnce /\ StoredOnce /\ Uncreated
      /\ UndisturbedChatIsOneThread /\ OneThread
  BY Zenon DEF ChatInv
<1>2. /\ appends' = appends \ {a}
      /\ conn' = conn /\ messages' = messages /\ stream' = stream /\ turns' = turns
      /\ loads' = loads /\ queries' = queries /\ autoRuns' = autoRuns /\ resumed' = resumed
      /\ convs' = convs /\ chat' = chat /\ chats' = chats /\ finished' = finished
      /\ \/ /\ a.at = "stored" /\ thread' = IF a.latest THEN a.to ELSE thread
            /\ disturbed' = disturbed
         \/ /\ thread' = thread /\ disturbed' = (disturbed \/ a.at # "sent")
  BY Zenon DEF Appended, AppendLost, Disturb, panel, history
<1>3. /\ a \in Requests /\ appends' \subseteq Requests /\ thread' \in 0..NoThread
      /\ disturbed' \in BOOLEAN /\ appends' \subseteq appends
  <2>1. a \in Requests /\ appends \subseteq Requests /\ thread \in 0..NoThread /\ disturbed \in BOOLEAN
    BY <1>1, Zenon DEF ChatTypeOK
  <2>2. a.to \in 0..NoThread
    BY <2>1, RequestFacts, Zenon
  <2>3. QED
    BY <1>2, <2>1, <2>2, Zenon
<1>4. Kept' = Kept /\ \A c : Stored(c)' = Stored(c)
  BY <1>2, Zenon DEF Kept, Stored
<1>5. SentOnce'
  BY <1>1, <1>2, <1>3, <1>4, Zenon DEF SentOnce
<1>6. StoredOnce'
  BY <1>1, <1>2, <1>4, Zenon DEF StoredOnce
<1>7. Uncreated'
  BY <1>1, <1>2, <1>3, <1>4, Zenon DEF Uncreated
<1>8. TurnStreams'
  BY <1>1, <1>2, Zenon DEF TurnStreams
<1>9. ~disturbed' => ~disturbed
  BY <1>2, Zenon
<1>10. UndisturbedChatIsOneThread'
  BY <1>1, <1>2, <1>3, <1>4, <1>9, Zenon DEF UndisturbedChatIsOneThread
<1>11. OneThread'
  <2>1. SUFFICES ASSUME ~disturbed' PROVE OneThread'
    BY Zenon DEF OneThread
  <2>2. /\ appends' = {} /\ a.chat = chat /\ a.latest
        /\ IF a.at = "sent" THEN a.to = thread ELSE a.to # NoThread
        /\ a.at = "sent" /\ a.to = NoThread => \A c \in Kept : convs[c].chat # chat
        /\ stream # NoStream /\ ~stream.stopped => stream.chat = chat
        /\ thread \in Kept => convs[thread].chat = chat
        /\ a.to \in Kept => convs[a.to].chat = chat
    BY <1>1, <1>2, <1>9, <2>1, Zenon DEF OneThread, UndisturbedChatIsOneThread
  <2>3. /\ thread' \in Kept => convs[thread'].chat = chat
        /\ thread' = NoThread => \A c \in Kept : convs[c].chat # chat
    <3>1. CASE a.at = "stored" /\ thread' = a.to
      <4>1. a.at # "sent"
        BY <3>1
      <4>2. QED
        BY <2>2, <3>1, <4>1, Zenon
    <3>2. CASE thread' = thread /\ a.at = "sent"
      BY <2>2, <3>2, Zenon
    <3>3. QED
      BY <1>2, <2>1, <2>2, <3>1, <3>2, Zenon
  <2>4. QED
    BY <1>2, <1>4, <2>2, <2>3, Zenon DEF OneThread
<1>12. ChatTypeOK'
  BY <1>1, <1>2, <1>3, Zenon DEF ChatTypeOK
<1>13. QED
  BY <1>5, <1>6, <1>7, <1>8, <1>10, <1>11, <1>12, Zenon DEF ChatInv

\* At the start there is one empty conversation, of no chat that is on display.
LEMMA ChatInvInit == ChatInit => ChatInv
<1> SUFFICES ASSUME ChatInit PROVE ChatInv
  OBVIOUS
<1>1. /\ conn = FirstConn /\ messages = 0 /\ thread = NoThread /\ stream = NoStream
      /\ turns = 0 /\ appends = {} /\ loads = {} /\ queries = {} /\ autoRuns = 0
      /\ resumed = {} /\ convs = [c \in 0..MaxTurns |-> [NoConv EXCEPT !.kept = (c = 0)]]
      /\ chat = 1 /\ chats = 1 /\ finished = {} /\ disturbed = FALSE
  BY Zenon DEF ChatInit
<1>2. NoConv \in Conversations /\ NoConv.items = <<>> /\ NoConv.chat = 0
  <2>1. <<>> \in Seq(Turns) /\ 0 \in Nat
    OBVIOUS
  <2>2. QED
    BY <2>1, ChatAssumption, Zenon DEF NoConv, Conversations
<1>3. \A k \in BOOLEAN : LET v == [NoConv EXCEPT !.kept = k] IN
        v \in Conversations /\ v.items = <<>> /\ v.chat = 0 /\ v.kept = k
  BY <1>2 DEF Conversations
<1>4. \A c \in 0..MaxTurns :
        /\ convs[c] \in Conversations /\ convs[c].items = <<>> /\ convs[c].chat = 0
        /\ convs[c].kept = (c = 0)
  BY <1>1, <1>3
<1>5. convs \in [0..MaxTurns -> Conversations]
  BY <1>1, <1>4, Zenon
<1>6. \A c \in Kept : c = 0 /\ convs[c].chat = 0 /\ convs[c].items = <<>>
  BY <1>4, Zenon DEF Kept
<1>7. \A c \in 0..MaxTurns : Stored(c) = {} /\ Len(convs[c].items) = 0
  BY <1>4 DEF Stored
<1>8. ChatTypeOK
  <2>1. /\ 0 \in 0..MaxTurns /\ 0 \in 0..0 /\ NoThread \in 0..NoThread /\ 0 \in 0..MaxAutoRuns
        /\ 1 \in 1..MaxChats /\ 1 \in 0..1
    BY ChatAssumption DEF NoThread
  <2>2. NoStream \in Streams
    BY Zenon DEF Streams
  <2>3. QED
    BY <1>1, <1>5, <2>1, <2>2, ChatAssumption, Zenon DEF ChatTypeOK
<1>9. TurnStreams /\ SentOnce
  BY <1>1, Zenon DEF TurnStreams, SentOnce
<1>10. StoredOnce
  <2>1. Cardinality({}) = 0
    BY FS_EmptySet
  <2>2. QED
    BY <1>7, <2>1, Zenon DEF StoredOnce
<1>11. Uncreated
  <2>1. 0 \in 0..chats
    BY <1>1
  <2>2. QED
    BY <1>1, <1>6, <2>1, Zenon DEF Uncreated
<1>12. OneThread
  <2>1. NoThread \notin 0..MaxTurns
    BY ChatAssumption DEF NoThread
  <2>2. thread \notin Kept
    BY <1>1, <2>1, Zenon DEF Kept
  <2>3. \A c \in Kept : convs[c].chat # chat
    <3>1. chat # 0
      BY <1>1
    <3>2. QED
      BY <1>6, <3>1, Zenon
  <2>4. QED
    BY <1>1, <2>2, <2>3, Zenon DEF OneThread
<1>13. UndisturbedChatIsOneThread
  <2>1. \A c \in Kept : \A i, j \in 1..Len(convs[c].items) : convs[c].items[i] < convs[c].items[j]
    BY <1>6
  <2>2. \A c, d \in Kept : c = d
    BY <1>6, Zenon
  <2>3. \A a \in appends : a.to \in Kept => convs[a.to].chat = a.chat
    BY <1>1
  <2>4. QED
    BY <2>1, <2>2, <2>3, Zenon DEF UndisturbedChatIsOneThread
<1>14. QED
  BY <1>8, <1>9, <1>10, <1>11, <1>12, <1>13, Zenon DEF ChatInv

LEMMA ChatInvStep == ChatInv /\ [ChatNext]_chatVars => ChatInv'
<1> SUFFICES ASSUME ChatInv, [ChatNext]_chatVars PROVE ChatInv'
  OBVIOUS
<1>1. CASE PressSend \/ HandIn \/ Delta \/ TurnFailed \/ RunQuery \/ Stop
  BY <1>1, PanelSteps, Zenon
<1>2. CASE TurnDone
  BY <1>2, TurnDoneStep, Zenon
<1>3. CASE NewChat
  BY <1>3, NewChatStep, Zenon
<1>4. CASE \E r \in queries : QueryAnswered(r)
  BY <1>4, PanelSteps, Zenon
<1>5. ASSUME NEW c \in 0..MaxTurns,
             LoadConversation(c) \/ Resume(c) \/ Loaded(c) \/ Delete(c)
      PROVE  ChatInv'
  BY <1>5, PanelSteps, LoadedStep, DeleteStep, Zenon
<1>6. CASE \E c \in Conns : SwitchConnection(c)
  BY <1>6, PanelSteps, Zenon
<1>7. ASSUME NEW a \in appends,
             AppendTouch(a) \/ AppendStore(a) \/ Appended(a) \/ AppendLost(a)
      PROVE  ChatInv'
  BY <1>7, AppendTouchStep, AppendStoreStep, RequestOverStep, Zenon
<1>8. CASE UNCHANGED chatVars
  <2>1. /\ conn' = conn /\ messages' = messages /\ thread' = thread /\ stream' = stream
        /\ turns' = turns /\ appends' = appends /\ loads' = loads /\ queries' = queries
        /\ autoRuns' = autoRuns /\ resumed' = resumed /\ convs' = convs /\ chat' = chat
        /\ chats' = chats /\ finished' = finished /\ disturbed' = disturbed
    BY <1>8, Zenon DEF chatVars
  <2>2. ChatTypeOK'
    BY <2>1, Zenon DEF ChatInv, ChatTypeOK
  <2>3. QED
    BY <2>1, <2>2, PanelStep, Zenon DEF ChatInv
<1>9. QED
  BY <1>1, <1>2, <1>3, <1>4, <1>5, <1>6, <1>7, <1>8, Zenon DEF ChatNext

\* The chat's inductive invariant: types, the turn that streams, each exchange in one
\* request and stored once, and one conversation for a chat that was not disturbed.
THEOREM ChatInvariant == ChatSpec => []ChatInv
<1>1. ChatInit => ChatInv
  BY ChatInvInit
<1>2. ChatInv /\ [ChatNext]_chatVars => ChatInv'
  BY ChatInvStep
<1>3. QED
  BY <1>1, <1>2, PTL DEF ChatSpec

\* What was said is stored whole and once, and a chat that was not disturbed is kept in
\* one conversation, in order (ChatPanel's append and ConversationService).
THEOREM ChatsAreStoredAsSaid == ChatSpec => []StoredAsSaid
<1>1. ChatInv => StoredAsSaid
  <2>1. Kept \subseteq 0..MaxTurns
    BY Zenon DEF Kept
  <2>2. ASSUME ChatInv PROVE WholeExchangesStoredOnce
    BY <2>1, <2>2, Zenon DEF ChatInv, StoredOnce, WholeExchangesStoredOnce
  <2>3. QED
    BY <2>2, Zenon DEF ChatInv, StoredAsSaid
<1>2. QED
  BY <1>1, ChatInvariant, PTL
=============================================================================
