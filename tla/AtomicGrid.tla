----------------------------- MODULE AtomicGrid -----------------------------
(***************************************************************************)
(* What the grid's write endpoints promise: a request changes all the rows *)
(* it names at once, and then only rows that still are as their editor     *)
(* loaded them, or it changes none.                                        *)
(***************************************************************************)
EXTENDS GridRows

CONSTANTS Requests

VARIABLES
  table,  \* the committed rows
  job,    \* what a request asks for, once it is made
  answer  \* what it was answered

Init ==
  /\ table \in [Rows -> Fresh]
  /\ job = [r \in Requests |-> [kind |-> "delete", edits |-> <<>>]]
  /\ answer = [r \in Requests |-> "none"]

\* A request for edits of rows as they are now.
Ask(r) ==
  /\ answer[r] = "none"
  /\ answer' = [answer EXCEPT ![r] = "running"]
  /\ IsJob(job'[r])
  /\ job' = [job EXCEPT ![r] = job'[r]]
  /\ \A row \in DOMAIN job'[r].edits : job'[r].edits[row].seen = table[row]
  /\ UNCHANGED table

Accepted(r, row) == Accepts(job[r].kind, job[r].edits[row], table[row])

Apply(r) ==
  /\ \A row \in DOMAIN job[r].edits : Accepted(r, row)
  /\ table' = [row \in Rows |-> IF row \in DOMAIN job[r].edits
                                THEN RowAfter(job[r].kind, job[r].edits[row], table[row])
                                ELSE table[row]]

Answers(r, a) ==
  /\ answer[r] = "running"
  /\ answer' = [answer EXCEPT ![r] = a]
  /\ UNCHANGED job

Save(r) == Answers(r, "saved") /\ Apply(r)

\* 409, or 404: one of the rows is not as it was.
Refuse(r) ==
  /\ Answers(r, "refused")
  /\ \E row \in DOMAIN job[r].edits : ~Accepted(r, row)
  /\ UNCHANGED table

\* An error says nothing about the rows: the answer to COMMIT may be lost.
Fail(r) == Answers(r, "failed") /\ (UNCHANGED table \/ Apply(r))

Next == \E r \in Requests : Ask(r) \/ Save(r) \/ Refuse(r) \/ Fail(r)

Spec == Init /\ [][Next]_<<table, job, answer>>
=============================================================================
