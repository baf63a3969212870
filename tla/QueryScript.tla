---------------------------- MODULE QueryScript ----------------------------
(***************************************************************************)
(* QueryService.execute (apps/api/src/query/query.service.ts): SQL scripts *)
(* that run statement by statement, each statement on whatever client the  *)
(* pool has free (autocommit), or all of them on one client between BEGIN  *)
(* and COMMIT (transactional, over the drivers' withSession), and what the *)
(* audit trail then says of their writes.                                  *)
(*                                                                         *)
(* A step is one command and its answer, or the loss of its connection.    *)
(* What a statement computes is left out, and so are the statements the    *)
(* service adds to describe result columns (see TargetClients).  The pool  *)
(* may hand out any free client: which one depends on the driver and on    *)
(* who else is running.                                                    *)
(***************************************************************************)
EXTENDS ScriptTexts

VARIABLES
  engine,    \* the engine of the connection
  text,      \* [Scripts -> Texts]
  atOnce,    \* scripts to run as one transaction
  readOnly,  \* the connection's read-only flag
  stage,     \* where a script is
  at,        \* the statement it runs next
  errors,    \* those of its statements that were answered by an error
  held,      \* the client a transactional script holds
  session,   \* the server's session behind a client
  committed  \* writes the database has made durable

scripts == <<text, atOnce, readOnly>>
vars == <<engine, scripts, stage, at, errors, held, session, committed>>

Holding == {"outer", "begin", "run", "rollback", "outerCommit", "unwind"}
Ended == {"refused", "answered", "thrown"}
Stage == {"new", "each", "connect"} \cup Holding \cup Ended

Write == Scripts \X (Nat \ {0})

\* "failed": PostgreSQL refuses every command until the transaction ends.
Session == [txn : {"none", "open", "failed", "lost"}, pend : SUBSET Write]
Clean == [txn |-> "none", pend |-> {}]
LostSession == [txn |-> "lost", pend |-> {}]
Open(P) == [txn |-> "open", pend |-> P]

TypeOK ==
  /\ engine \in {"pg", "mysql", "sqlite"}
  /\ text \in [Scripts -> Texts]
  /\ atOnce \subseteq Scripts
  /\ readOnly \in BOOLEAN
  /\ stage \in [Scripts -> Stage]
  /\ at \in [Scripts -> Nat \ {0}]
  /\ \A s \in Scripts : at[s] <= Len(text[s]) + 1
  /\ \A s \in Scripts : errors[s] \subseteq 1..(at[s] - 1)
  /\ errors \in [Scripts -> SUBSET Nat]
  /\ held \in [Scripts -> Clients \cup {NoClient}]
  /\ session \in [Clients -> Session]
  /\ committed \subseteq Write

Init ==
  /\ engine \in {"pg", "mysql", "sqlite"}
  /\ text \in [Scripts -> Texts]
  /\ atOnce \in SUBSET Scripts
  /\ readOnly \in BOOLEAN
  /\ stage = [s \in Scripts |-> "new"]
  /\ at = [s \in Scripts |-> 1]
  /\ errors = [s \in Scripts |-> {}]
  /\ held = [s \in Scripts |-> NoClient]
  /\ session = [c \in Clients |-> Clean]
  /\ committed = {}

-----------------------------------------------------------------------------
(* What a server does with one command of kind k in session v; w is the    *)
(* write it stands for.                                                    *)

Done(v, kept) == [ok |-> TRUE, ses |-> v, kept |-> kept]
Error(v) == [ok |-> FALSE, ses |-> v, kept |-> {}]

Begins(v) ==
  CASE v.txn = "failed" -> {Error(v)}
    [] engine = "mysql" -> {Done(Open({}), v.pend)}
    [] engine = "sqlite" /\ v.txn = "open" -> {Error(v)}
    [] OTHER -> {Done(Open(v.pend), {})}

\* PostgreSQL may find a deferred constraint violated and roll back.
Commits(v) ==
  CASE v.txn = "failed" -> {Done(Clean, {})}
    [] engine = "sqlite" /\ v.txn = "none" -> {Error(v)}
    [] OTHER -> {Done(Clean, v.pend)}
                  \cup IF engine = "pg" THEN {Error(Clean)} ELSE {}

RollsBack(v) ==
  IF engine = "sqlite" /\ v.txn = "none" THEN {Error(v)} ELSE {Done(Clean, {})}

\* A statement that succeeds with the writes W.
Takes(v, W) == IF v.txn = "open" THEN Done(Open(v.pend \cup W), {}) ELSE Done(v, W)

\* A statement that fails has no effect, but fails PostgreSQL's transaction.
Breaks(v) ==
  IF engine = "pg" /\ v.txn = "open" THEN Error([txn |-> "failed", pend |-> v.pend]) ELSE Error(v)

Runs(v, W) == IF v.txn = "failed" THEN {Error(v)} ELSE {Takes(v, W), Breaks(v)}

\* MySQL's DDL commits first, unless it is not even parsed.
MysqlDdl(v, w) ==
  {Done(Clean, v.pend \cup {w}), Error(v), [ok |-> FALSE, ses |-> Clean, kept |-> v.pend]}

Answers(v, k, w) ==
  CASE k = "begin" -> Begins(v)
    [] k = "commit" -> Commits(v)
    [] k = "rollback" -> RollsBack(v)
    [] k = "read" -> Runs(v, {})
    [] k = "ddl" /\ engine = "mysql" -> MysqlDdl(v, w)
    [] OTHER -> Runs(v, {w})

\* The connection breaks before or after the command has been done.
Loses(v, k, w) ==
  IF engine = "sqlite" THEN {}
  ELSE {[ok |-> FALSE, ses |-> LostSession, kept |-> K] :
          K \in {{}} \cup {a.kept : a \in Answers(v, k, w)}}

Outcomes(v, k, w) ==
  IF v.txn = "lost" THEN {Error(v)} ELSE Answers(v, k, w) \cup Loses(v, k, w)

\* The pool replaces a client whose connection is lost.
Renewed(v) == IF v.txn = "lost" THEN Clean ELSE v

-----------------------------------------------------------------------------
(* Before the first statement. *)

\* classifyStatement: only what is provably a read is not a write.
IsWrite(k) == k # "read"

Statements(s) == 1..Len(text[s])

Writes(s) == {i \in Statements(s) : IsWrite(text[s][i])}

\* The guardrail: a script with a write is refused as a whole.
Admit(s) ==
  /\ stage[s] = "new"
  /\ stage' = [stage EXCEPT ![s] =
                 IF readOnly /\ Writes(s) # {} THEN "refused"
                 ELSE IF s \in atOnce THEN "connect" ELSE "each"]
  /\ UNCHANGED <<engine, scripts, at, errors, held, session, committed>>

Free ==
  IF engine = "sqlite" THEN {Handle} ELSE {c \in Clients : \A s \in Scripts : held[s] # c}

Result(s, a) ==
  /\ at' = [at EXCEPT ![s] = @ + 1]
  /\ errors' = IF a.ok THEN errors ELSE [errors EXCEPT ![s] = @ \cup {at[s]}]

-----------------------------------------------------------------------------
(* executeAutocommit: every statement on its own, whatever became of the   *)
(* ones before it.                                                         *)

Each(s) ==
  /\ stage[s] = "each"
  /\ at[s] <= Len(text[s])
  /\ \E c \in Free : \E a \in Outcomes(session[c], text[s][at[s]], <<s, at[s]>>) :
       /\ session' = [session EXCEPT ![c] = Renewed(a.ses)]
       /\ committed' = committed \cup a.kept
       /\ Result(s, a)
  /\ UNCHANGED <<engine, scripts, stage, held>>

EachEnds(s) ==
  /\ stage[s] = "each"
  /\ at[s] > Len(text[s])
  /\ stage' = [stage EXCEPT ![s] = "answered"]
  /\ UNCHANGED <<engine, scripts, at, errors, held, session, committed>>

-----------------------------------------------------------------------------
(* executeTransactional, on the client that withSession holds.  The        *)
(* PostgreSQL driver wraps a transaction of its own around the service's.  *)

Connect(s) ==
  /\ stage[s] = "connect"
  /\ engine # "sqlite"
  /\ \E c \in Free : held' = [held EXCEPT ![s] = c]
  /\ stage' = [stage EXCEPT ![s] = IF engine = "pg" THEN "outer" ELSE "begin"]
  /\ UNCHANGED <<engine, scripts, at, errors, session, committed>>

\* SQLite's withSession has begun a transaction when the service's BEGIN asks
\* for another: it fails, and all is rolled back before anybody else runs.
\* When a transaction is open already, the first BEGIN fails.
SqliteThrows(s) ==
  /\ stage[s] = "connect"
  /\ engine = "sqlite"
  /\ stage' = [stage EXCEPT ![s] = "thrown"]
  /\ UNCHANGED <<engine, scripts, at, errors, held, session, committed>>

\* The outcome a of a command of s, which is then at stage st and gives its
\* client back if it has ended.
Step(s, a, st) ==
  /\ stage' = [stage EXCEPT ![s] = st]
  /\ held' = IF st \in Ended THEN [held EXCEPT ![s] = NoClient] ELSE held
  /\ session' = [session EXCEPT ![held[s]] = IF st \in Ended THEN Renewed(a.ses) ELSE a.ses]
  /\ committed' = committed \cup a.kept

\* s sends command k, which stands for no write: stage yes or no comes next.
Control(s, k, yes, no) ==
  /\ \E a \in Outcomes(session[held[s]], k, <<s, at[s]>>) :
       Step(s, a, IF a.ok THEN yes ELSE no)
  /\ UNCHANGED <<engine, scripts, at, errors>>

\* Where withSession goes when its callback returns, and when it throws.
Returned == IF engine = "pg" THEN "outerCommit" ELSE "answered"
Failed == IF engine = "pg" THEN "unwind" ELSE "thrown"

OuterBegin(s) == stage[s] = "outer" /\ Control(s, "begin", "begin", "unwind")

Begin(s) == stage[s] = "begin" /\ Control(s, "begin", "run", Failed)

\* Mutant of Statement: an error is reported, but nothing is rolled back.
StatementLeavesOpen(s) ==
  /\ stage[s] = "run"
  /\ at[s] <= Len(text[s])
  /\ \E a \in Outcomes(session[held[s]], text[s][at[s]], <<s, at[s]>>) :
       Step(s, a, IF a.ok THEN "run" ELSE Returned) /\ Result(s, a)
  /\ UNCHANGED <<engine, scripts>>

\* Mutant of Statement: goes on after an error, and commits in the end.
StatementGoesOn(s) ==
  /\ stage[s] = "run"
  /\ at[s] <= Len(text[s])
  /\ \E a \in Outcomes(session[held[s]], text[s][at[s]], <<s, at[s]>>) :
       Step(s, a, "run") /\ Result(s, a)
  /\ UNCHANGED <<engine, scripts>>

Statement(s) ==
  /\ stage[s] = "run"
  /\ at[s] <= Len(text[s])
  /\ \E a \in Outcomes(session[held[s]], text[s][at[s]], <<s, at[s]>>) :
       Step(s, a, IF a.ok THEN "run" ELSE "rollback") /\ Result(s, a)
  /\ UNCHANGED <<engine, scripts>>

Commit(s) ==
  /\ stage[s] = "run"
  /\ at[s] > Len(text[s])
  /\ Control(s, "commit", Returned, Failed)

Rollback(s) == stage[s] = "rollback" /\ Control(s, "rollback", Returned, Failed)

OuterCommit(s) == stage[s] = "outerCommit" /\ Control(s, "commit", "answered", "unwind")

Unwind(s) == stage[s] = "unwind" /\ Control(s, "rollback", "thrown", "thrown")

-----------------------------------------------------------------------------
Execute(s) ==
  \/ Admit(s) \/ Each(s) \/ EachEnds(s)
  \/ Connect(s) \/ SqliteThrows(s)
  \/ OuterBegin(s) \/ Begin(s) \/ Statement(s) \/ Commit(s)
  \/ Rollback(s) \/ OuterCommit(s) \/ Unwind(s)

\* The owner of the connection changes the flag.
SwitchReadOnly ==
  /\ readOnly' = ~readOnly
  /\ UNCHANGED <<engine, text, atOnce, stage, at, errors, held, session, committed>>

Next == SwitchReadOnly \/ \E s \in Scripts : Execute(s)

Spec == Init /\ [][Next]_vars

\* The database answers every command, or its connection breaks.
Fairness == \A s \in Scripts : WF_vars(Execute(s))

FairSpec == Spec /\ Fairness

-----------------------------------------------------------------------------
(* What auditMutations and the guardrail write into the audit trail. *)

RolledBack(s) == s \in atOnce /\ errors[s] # {}

Attempted(s) == {i \in Writes(s) : i < at[s]}

\* Mutant of AuditedSuccess: forgets that the others were rolled back.
AuditedSuccessOfEach(s) ==
  IF stage[s] = "answered" THEN Attempted(s) \ errors[s] ELSE {}

AuditedSuccess(s) ==
  IF stage[s] = "answered" /\ ~RolledBack(s) THEN Attempted(s) \ errors[s] ELSE {}

AuditedFailure(s) ==
  CASE stage[s] = "refused" -> Writes(s)
    [] stage[s] = "answered" /\ RolledBack(s) -> Writes(s)
    [] stage[s] = "answered" /\ ~RolledBack(s) -> Attempted(s) \cap errors[s]
    [] OTHER -> {}

-----------------------------------------------------------------------------
(* Properties. *)

\* A script that leaves transactions to the service.
Plain(s) ==
  \A i \in Statements(s) :
    /\ text[s][i] \in {"read", "write", "ddl"}
    /\ text[s][i] = "ddl" => engine # "mysql"

WritesOf(s) == {<<s, i>> : i \in Writes(s)}

Kept(s) == WritesOf(s) \cap committed

\* Everything s has written sits in transactions that are still open.
Pending(s) == {w \in WritesOf(s) : \E c \in Clients : w \in session[c].pend}

\* A transactional script that leaves transactions to the service is committed
\* as a whole or not at all, whatever other scripts have left on its client,
\* and whichever command fails or loses its connection.
AllOrNothing ==
  \A s \in atOnce : Plain(s) => Kept(s) \in {{}, WritesOf(s)}

\* A write of such a script that the audit trail calls a failure (refused, or
\* rolled back) has left no trace and never will: it is neither committed nor
\* in a transaction somebody else might commit.
FailureLeavesNothing ==
  \A s \in atOnce : Plain(s) =>
    \A i \in AuditedFailure(s) : <<s, i>> \notin committed \cup Pending(s)

\* A write the audit trail calls a success is durable: always for such a
\* transactional script, and for a script run statement by statement as long
\* as no script opens transactions by itself.
SuccessIsDurable ==
  \A s \in Scripts :
    (Plain(s) /\ (s \in atOnce \/ \A t \in Scripts : Plain(t))) =>
      \A i \in AuditedSuccess(s) : <<s, i>> \in committed

\* As long as no script opens transactions by itself, every client that the
\* pool can hand out is outside of any transaction.
FreeClientsAreClean ==
  (\A s \in Scripts : Plain(s)) => \A c \in Free : session[c] = Clean

\* Every script is answered, although it may have to wait for a client and
\* the connection of its own may break at any command.
EveryScriptEnds == \A s \in Scripts : <>(stage[s] \in Ended)
=============================================================================
