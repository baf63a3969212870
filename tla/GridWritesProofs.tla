-------------------------- MODULE GridWritesProofs --------------------------
(***************************************************************************)
(* Proofs about GridWrites: for any rows, columns, values and requests,    *)
(* the write endpoints are as atomic as AtomicGrid.                        *)
(***************************************************************************)
EXTENDS GridWrites, TLAPS

\* A write of a record by an edit is a record, one version later.
LEMMA ResultType ==
  ASSUME NEW kind \in WriteKinds, NEW edit \in RowEdits, NEW row \in Record
  PROVE  RowAfter(kind, edit, row) \in Record
<1>1. edit.patch \in RowPatches
  BY DEF RowEdits
<1>2. \A c \in DOMAIN edit.patch : edit.patch[c] \in GridValues
  BY <1>1 DEF RowPatches
<1>3. [c \in GridColumns |-> IF kind = "delete" THEN Default
                         ELSE IF c \in DOMAIN edit.patch THEN edit.patch[c] ELSE row.cells[c]]
        \in [GridColumns -> GridValues]
  BY <1>2, DefaultAssumption DEF Record
<1>4. row.version + 1 \in Nat
  BY DEF Record
<1>5. QED
  BY <1>3, <1>4 DEF Record, RowAfter

LEMMA InitInv == GridInit => GridInv
<1> SUFFICES ASSUME GridInit PROVE GridInv
  OBVIOUS
<1>1. \A f : f = <<>> => DOMAIN f = {}
  OBVIOUS
<1>2. table \in [Rows -> Record]
  BY DEF GridInit, Fresh, Record
<1>3. \A r \in Requests : IsJob(job[r])
  <2>1. \A r \in Requests : job[r] = [kind |-> "delete", edits |-> <<>>]
    BY DEF GridInit
  <2>2. IsJob([kind |-> "delete", edits |-> <<>>])
    BY <1>1 DEF IsJob, WriteKinds
  <2>3. QED
    BY <2>1, <2>2
<1>4. GridTypeOK
  BY <1>1, <1>2, <1>3 DEF GridInit, GridTypeOK
<1>5. \A r \in Requests : DOMAIN writes[r] = {}
  BY <1>1 DEF GridInit
<1>6. QED
  BY <1>4, <1>5 DEF GridInv, Exclusive, GuardsStillHold

\* A request that arrives holds nothing, and leaves the others alone.
LEMMA BeginStep ==
  ASSUME GridInv, NEW r \in Requests, NEW kind \in WriteKinds, NEW S \in SUBSET Rows,
         NEW patches \in [S -> Asked \cup {<<>>}], BeginRequest(r, kind, S, patches)
  PROVE  GridInv'
<1>1. <<>> \in RowPatches
  <2>1. <<>> \in [{} -> GridValues]
    OBVIOUS
  <2>2. QED
    BY <2>1 DEF RowPatches
<1>2. [row \in S |-> [patch |-> patches[row], seen |-> table[row]]] \in [S -> RowEdits]
  BY <1>1, AskedAssumption DEF GridInv, GridTypeOK, RowEdits
<1>3. IsJob(job'[r])
  BY <1>2 DEF BeginRequest, GridInv, GridTypeOK, IsJob
<1>4. DOMAIN writes[r] = {}
  BY DEF BeginRequest, GridInv, GridTypeOK
<1>5. GridTypeOK'
  BY <1>3, <1>4 DEF BeginRequest, GridInv, GridTypeOK
<1>6. \A q \in Requests : q # r => job'[q] = job[q]
  BY DEF BeginRequest, GridInv, GridTypeOK
<1>7. QED
  BY <1>4, <1>5, <1>6 DEF BeginRequest, GridInv, Exclusive, GuardsStillHold, Accepted

\* A statement adds a row nobody else has written.
LEMMA StatementStep ==
  ASSUME GridInv, NEW r \in Requests, NEW row \in Rows, WriteRow(r, row)
  PROVE  GridInv'
<1> DEFINE D == DOMAIN writes[r] \cup {row}
<1>1. /\ row \in DOMAIN job[r].edits
      /\ RowAfter(job[r].kind, job[r].edits[row], table[row]) \in Record
  BY ResultType DEF WriteRow, Left, GridInv, GridTypeOK, IsJob
<1>2. /\ DOMAIN writes'[r] = D
      /\ writes'[r][row] = RowAfter(job[r].kind, job[r].edits[row], table[row])
      /\ \A x \in D : x # row => writes'[r][x] = writes[r][x]
  BY DEF WriteRow, GridInv, GridTypeOK
<1>3. \A q \in Requests : q # r => writes'[q] = writes[q]
  BY DEF WriteRow, GridInv, GridTypeOK
<1>4. DOMAIN writes' = Requests /\ UNCHANGED <<table, job, answer>>
  BY DEF WriteRow, GridInv, GridTypeOK
<1>5. GridTypeOK'
  BY <1>1, <1>2, <1>3, <1>4 DEF GridInv, GridTypeOK, WriteRow, Running
<1>6. Exclusive'
  BY <1>2, <1>3 DEF WriteRow, Blocked, GridInv, Exclusive
<1>7. GuardsStillHold'
  BY <1>2, <1>3, <1>4 DEF WriteRow, GridInv, GuardsStillHold, Accepted
<1>8. QED
  BY <1>5, <1>6, <1>7 DEF GridInv

\* Without COMMIT nothing changes but the request's own rows, which are free.
LEMMA RollbackStep ==
  ASSUME GridInv, NEW r \in Requests, NEW a \in {"refused", "failed"}, Ends(r, a), UNCHANGED table
  PROVE  GridInv'
<1>1. DOMAIN writes'[r] = {} /\ \A q \in Requests : q # r => writes'[q] = writes[q]
  BY DEF Ends, GridInv, GridTypeOK
<1>2. GridTypeOK'
  BY <1>1 DEF Ends, GridInv, GridTypeOK
<1>3. QED
  BY <1>1, <1>2 DEF Ends, GridInv, Exclusive, GuardsStillHold, Accepted

\* A commit changes no row that another transaction has written.
LEMMA CommitStep ==
  ASSUME GridInv, NEW r \in Requests, NEW a \in {"saved", "failed"}, Ends(r, a), Publish(r)
  PROVE  GridInv'
<1>1. DOMAIN writes'[r] = {} /\ \A q \in Requests : q # r => writes'[q] = writes[q]
  BY DEF Ends, GridInv, GridTypeOK
<1>2. table' \in [Rows -> Record]
  BY DEF Publish, GridInv, GridTypeOK
<1>3. GridTypeOK'
  BY <1>1, <1>2 DEF Ends, GridInv, GridTypeOK
<1>4. \A q \in Requests : \A row \in DOMAIN writes'[q] : row \in Rows /\ table'[row] = table[row]
  <2> SUFFICES ASSUME NEW q \in Requests, NEW row \in DOMAIN writes'[q]
               PROVE  row \in Rows /\ table'[row] = table[row]
    OBVIOUS
  <2>1. q # r /\ row \in DOMAIN writes[q]
    BY <1>1
  <2>2. row \in Rows
    BY <2>1 DEF GridInv, GridTypeOK, IsJob
  <2>3. row \notin DOMAIN writes[r]
    BY <2>1 DEF GridInv, Exclusive
  <2>4. QED
    BY <2>2, <2>3 DEF Publish
<1>5. Exclusive'
  BY <1>1 DEF GridInv, Exclusive
<1>6. GuardsStillHold'
  BY <1>1, <1>4 DEF Ends, GridInv, GuardsStillHold, Accepted
<1>7. QED
  BY <1>3, <1>5, <1>6 DEF GridInv

LEMMA NextInv == GridInv /\ [GridNext]_gridVars => GridInv'
<1> SUFFICES ASSUME GridInv, [GridNext]_gridVars PROVE GridInv'
  OBVIOUS
<1>1. ASSUME NEW r \in Requests, NEW kind \in WriteKinds, NEW S \in SUBSET Rows,
             NEW patches \in [S -> Asked \cup {<<>>}], BeginRequest(r, kind, S, patches)
      PROVE  GridInv'
  BY <1>1, BeginStep
<1>2. ASSUME NEW r \in Requests, NEW row \in Rows, WriteRow(r, row) PROVE GridInv'
  BY <1>2, StatementStep
<1>3. ASSUME NEW r \in Requests, NEW row \in Rows, Refused(r, row) PROVE GridInv'
  BY <1>3, RollbackStep DEF Refused
<1>4. ASSUME NEW r \in Requests, Fails(r) PROVE GridInv'
  BY <1>4, RollbackStep DEF Fails
<1>5. ASSUME NEW r \in Requests, CommitRequest(r) \/ CommitUnanswered(r) PROVE GridInv'
  BY <1>5, CommitStep DEF CommitRequest, CommitUnanswered
<1>6. CASE UNCHANGED gridVars
  BY <1>6 DEF gridVars, GridInv, GridTypeOK, Exclusive, GuardsStillHold, Accepted
<1>7. QED
  BY <1>1, <1>2, <1>3, <1>4, <1>5, <1>6 DEF GridNext

\* The inductive invariant: open transactions have written different rows, each
\* still as its guard found it.
THEOREM GridInvariant == GridSpec => []GridInv
  BY InitInv, NextInv, PTL DEF GridSpec

\* Every variable of the write endpoints keeps its type, and a request that is
\* answered has left no transaction open.
THEOREM GridTypeCorrect == GridSpec => []GridTypeOK
<1>1. GridInv => GridTypeOK
  BY DEF GridInv
<1>2. QED
  BY GridInvariant, <1>1, PTL

\* What has been checked before COMMIT is still true at COMMIT.
THEOREM GuardsHoldUntilCommit == GridSpec => []GuardsStillHold
<1>1. GridInv => GuardsStillHold
  BY DEF GridInv
<1>2. QED
  BY GridInvariant, <1>1, PTL

-----------------------------------------------------------------------------

\* Publishing all of a request's rows is the atomic change of those rows.
LEMMA PublishApplies ==
  ASSUME GridInv, NEW r \in Requests, Left(r) = {}, Running(r), Publish(r)
  PROVE  Atomic!Apply(r)
<1>1. DOMAIN writes[r] = DOMAIN job[r].edits
  BY DEF Left, Running, GridInv, GridTypeOK
<1>2. \A row \in DOMAIN job[r].edits :
        /\ Accepted(r, row)
        /\ writes[r][row] = RowAfter(job[r].kind, job[r].edits[row], table[row])
  BY <1>1 DEF GridInv, GuardsStillHold
<1>3. table' = [row \in Rows |-> IF row \in DOMAIN job[r].edits
                                 THEN RowAfter(job[r].kind, job[r].edits[row], table[row])
                                 ELSE table[row]]
  BY <1>1, <1>2 DEF Publish
<1>4. QED
  BY <1>2, <1>3 DEF Atomic!Apply, Atomic!Accepted, Atomic!Accepts, Atomic!Unchanged, Atomic!RowAfter,
                    Accepted, Accepts, Unchanged, RowAfter

\* Every step of the endpoints is a step of AtomicGrid or none.
LEMMA StepRefines ==
  ASSUME GridInv, GridInv', [GridNext]_gridVars
  PROVE  [Atomic!Next]_<<table, job, answer>>
<1>1. ASSUME NEW r \in Requests, NEW kind \in WriteKinds, NEW S \in SUBSET Rows,
             NEW patches \in [S -> Asked \cup {<<>>}], BeginRequest(r, kind, S, patches)
      PROVE  Atomic!Ask(r)
  <2>1. Atomic!IsJob(job'[r])
    <3>1. IsJob(job'[r])
      BY DEF GridInv, GridTypeOK
    <3>2. QED
      BY <3>1 DEF IsJob, WriteKinds, RowEdits, RowPatches, Record, Atomic!IsJob, Atomic!WriteKinds, Atomic!RowEdits,
                  Atomic!RowPatches, Atomic!Record
  <2>2. job' = [job EXCEPT ![r] = job'[r]]
    BY <1>1 DEF BeginRequest, GridInv, GridTypeOK
  <2>3. job'[r].edits = [row \in S |-> [patch |-> patches[row], seen |-> table[row]]]
    BY <1>1 DEF BeginRequest, GridInv, GridTypeOK
  <2>4. \A row \in DOMAIN job'[r].edits : job'[r].edits[row].seen = table[row]
    BY <2>3
  <2>5. QED
    BY <1>1, <2>1, <2>2, <2>4 DEF BeginRequest, Atomic!Ask
<1>2. ASSUME NEW r \in Requests, NEW row \in Rows, Refused(r, row)
      PROVE  Atomic!Refuse(r)
  BY <1>2 DEF Refused, Ends, Left, Running, Accepted, Accepts, Unchanged, Atomic!Refuse,
              Atomic!Answers, Atomic!Accepted, Atomic!Accepts, Atomic!Unchanged
<1>3. ASSUME NEW r \in Requests, Fails(r) PROVE Atomic!Fail(r)
  BY <1>3 DEF Fails, Ends, Running, Atomic!Fail, Atomic!Answers
<1>4. ASSUME NEW r \in Requests, CommitRequest(r) PROVE Atomic!Save(r)
  <2>1. Atomic!Apply(r)
    BY <1>4, PublishApplies DEF CommitRequest, Ends
  <2>2. QED
    BY <1>4, <2>1 DEF CommitRequest, Ends, Running, Atomic!Save, Atomic!Answers
<1>5. ASSUME NEW r \in Requests, CommitUnanswered(r) PROVE Atomic!Fail(r)
  <2>1. Atomic!Apply(r)
    BY <1>5, PublishApplies DEF CommitUnanswered, Ends
  <2>2. QED
    BY <1>5, <2>1 DEF CommitUnanswered, Ends, Running, Atomic!Fail, Atomic!Answers
<1>6. ASSUME NEW r \in Requests, NEW row \in Rows, WriteRow(r, row)
      PROVE  UNCHANGED <<table, job, answer>>
  BY <1>6 DEF WriteRow
<1>7. CASE UNCHANGED gridVars
  BY <1>7 DEF gridVars
<1>8. QED
  BY <1>1, <1>2, <1>3, <1>4, <1>5, <1>6, <1>7 DEF GridNext, Atomic!Next

\* The write endpoints implement AtomicGrid: a request changes all its rows at
\* once, each as its guard demands it, or none.
THEOREM EndpointsAreAtomic == GridSpec => AtomicSpec
<1>1. GridInit => Atomic!Init
  BY DEF GridInit, Fresh, Atomic!Init, Atomic!Fresh
<1>2. GridInv /\ GridInv' /\ [GridNext]_gridVars => [Atomic!Next]_<<table, job, answer>>
  BY StepRefines
<1>3. QED
  BY <1>1, <1>2, GridInvariant, PTL DEF GridSpec, AtomicSpec, Atomic!Spec
=============================================================================
