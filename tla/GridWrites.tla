----------------------------- MODULE GridWrites -----------------------------
(***************************************************************************)
(* The write endpoints of GridService on one table: bulkUpdate, updateCell,*)
(* insertRow and deleteRow, each in a transaction of the driver            *)
(* (withTransaction; a delete is a transaction of one statement).          *)
(*                                                                         *)
(* The database is external: a statement waits while another transaction   *)
(* has written its row, and a transaction's writes become visible when it  *)
(* commits.  A statement of a bulk update that affects no row makes the    *)
(* service throw, and the driver roll back.                                *)
(***************************************************************************)
EXTENDS GridPatches

CONSTANT Requests

VARIABLES table, job, answer,
  writes  \* rows written by the open transaction of a request

gridVars == <<table, job, answer, writes>>

GridTypeOK ==
  /\ table \in [Rows -> Record]
  /\ DOMAIN job = Requests /\ \A r \in Requests : IsJob(job[r])
  /\ answer \in [Requests -> {"none", "running", "saved", "refused", "failed"}]
  /\ DOMAIN writes = Requests
  /\ \A r \in Requests :
       /\ DOMAIN writes[r] \subseteq IF answer[r] = "running" THEN DOMAIN job[r].edits ELSE {}
       /\ \A row \in DOMAIN writes[r] : writes[r][row] \in Record

GridInit ==
  /\ table \in [Rows -> Fresh]
  /\ job = [r \in Requests |-> [kind |-> "delete", edits |-> <<>>]]
  /\ answer = [r \in Requests |-> "none"]
  /\ writes = [r \in Requests |-> <<>>]

-----------------------------------------------------------------------------

\* A request arrives.  A bulk update has edits of one or more rows; the others
\* name one row.
BeginRequest(r, kind, S, patches) ==
  /\ answer[r] = "none"
  /\ kind \notin Bulk => \E row \in S : S = {row}
  /\ kind = "delete" => \A row \in S : patches[row] = <<>>
  /\ kind \in Bulk \cup {"cell"} => \A row \in S : patches[row] # <<>>
  /\ job' = [job EXCEPT ![r] =
       [kind |-> kind, edits |-> [row \in S |-> [patch |-> patches[row], seen |-> table[row]]]]]
  /\ answer' = [answer EXCEPT ![r] = "running"]
  /\ UNCHANGED <<table, writes>>

Running(r) == answer[r] = "running"
Left(r) == DOMAIN job[r].edits \ DOMAIN writes[r]
Accepted(r, row) == Accepts(job[r].kind, job[r].edits[row], table[row])

\* Another transaction has written the row.
Blocked(r, row) == \E q \in Requests \ {r} : row \in DOMAIN writes[q]

\* The next statement affects its row.
WriteRow(r, row) ==
  /\ Running(r)
  /\ row \in Left(r)
  /\ ~Blocked(r, row)
  /\ Accepted(r, row)
  /\ writes' = [writes EXCEPT ![r] =
       [x \in DOMAIN writes[r] \cup {row} |->
          IF x = row THEN RowAfter(job[r].kind, job[r].edits[row], table[row]) ELSE writes[r][x]]]
  /\ UNCHANGED <<table, job, answer>>

\* The transaction ends and the request is answered.
Ends(r, a) ==
  /\ Running(r)
  /\ writes' = [writes EXCEPT ![r] = <<>>]
  /\ answer' = [answer EXCEPT ![r] = a]
  /\ UNCHANGED job

\* The next statement affects no row: ConflictException or NotFoundException,
\* and ROLLBACK.  Only an insert has to wait to know that its row is taken.
Refused(r, row) ==
  /\ row \in Left(r)
  /\ job[r].kind = "insert" => ~Blocked(r, row)
  /\ ~Accepted(r, row)
  /\ Ends(r, "refused")
  /\ UNCHANGED table

\* Mutant of Fails: a statement waits for its row without a timeout.
FailsUnblocked(r) ==
  /\ \A row \in Left(r) : ~Blocked(r, row)
  /\ Ends(r, "failed")
  /\ UNCHANGED table

\* A statement is rejected by the database, gives up waiting or loses its
\* connection: ROLLBACK.
Fails(r) == Ends(r, "failed") /\ UNCHANGED table

Publish(r) ==
  table' = [row \in Rows |-> IF row \in DOMAIN writes[r] THEN writes[r][row] ELSE table[row]]

\* Mutant of CommitRequest: a statement that affects no row is taken for a success.
CommitRequestPartly(r) == DOMAIN writes[r] # {} /\ Ends(r, "saved") /\ Publish(r)

\* COMMIT, after the last statement.
CommitRequest(r) == Left(r) = {} /\ Ends(r, "saved") /\ Publish(r)

\* The connection is lost during COMMIT, which has taken place.
CommitUnanswered(r) == Left(r) = {} /\ Ends(r, "failed") /\ Publish(r)

-----------------------------------------------------------------------------

GridNext ==
  \E r \in Requests :
    \/ \E kind \in WriteKinds, S \in SUBSET Rows \ {{}} :
         \E patches \in [S -> Asked \cup {<<>>}] : BeginRequest(r, kind, S, patches)
    \/ \E row \in Rows : WriteRow(r, row) \/ Refused(r, row)
    \/ Fails(r) \/ CommitRequest(r) \/ CommitUnanswered(r)

GridSpec == GridInit /\ [][GridNext]_gridVars

\* Statements return, and one that waits for a row gives up after the statement
\* timeout, when the row has not become free before.
GridFairness ==
  \A r \in Requests :
    WF_gridVars(\/ \E row \in Rows :
                     \/ WriteRow(r, row) \/ Refused(r, row)
                     \/ row \in Left(r) /\ Blocked(r, row) /\ Fails(r)
                \/ CommitRequest(r))

GridFairSpec == GridSpec /\ GridFairness

-----------------------------------------------------------------------------
(* Properties. *)

\* The endpoints are as atomic as AtomicGrid: what bulkUpdate commits was
\* guarded by what is committed, row by row, when all of it is published.
Atomic == INSTANCE AtomicGrid
AtomicSpec == Atomic!Spec

\* What an open transaction has written still follows from what is committed:
\* no guard that has been passed is outdated before COMMIT.
GuardsStillHold ==
  \A r \in Requests : \A row \in DOMAIN writes[r] :
    /\ Accepted(r, row)
    /\ writes[r][row] = RowAfter(job[r].kind, job[r].edits[row], table[row])

\* Every request is answered, even when transactions wait for each other.
Answered == \A r \in Requests : Running(r) ~> ~Running(r)

-----------------------------------------------------------------------------
(* The inductive strengthening behind the invariants above. *)

\* No two open transactions have written the same row.
Exclusive ==
  \A q, r \in Requests : q # r => DOMAIN writes[q] \cap DOMAIN writes[r] = {}

GridInv == GridTypeOK /\ Exclusive /\ GuardsStillHold
=============================================================================
