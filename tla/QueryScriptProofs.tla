------------------------- MODULE QueryScriptProofs -------------------------
(***************************************************************************)
(* Theorems about QueryScript, for any scripts on any number of clients.   *)
(***************************************************************************)
EXTENDS QueryScript, TLAPS

(* The inductive invariant. *)

\* Who holds a client holds it alone, and inside withSession only.
HeldInside ==
  \A s \in Scripts :
    /\ stage[s] \in Holding => s \in atOnce /\ held[s] \in Clients /\ engine # "sqlite"
    /\ stage[s] \notin Holding => held[s] = NoClient
    /\ stage[s] = "each" => s \notin atOnce
    /\ stage[s] = "connect" => s \in atOnce

HeldAlone ==
  \A s, t \in Scripts : held[s] # NoClient /\ held[s] = held[t] => s = t

SessionsFit ==
  \A c \in Clients :
    /\ session[c].txn \in {"none", "lost"} => session[c].pend = {}
    /\ session[c].txn = "failed" => engine = "pg"

\* Nothing is written before its turn.
WrittenInTurn ==
  \A s \in Scripts : \A i \in Nat \ {0} :
    i >= at[s] =>
      /\ <<s, i>> \notin committed
      /\ \A c \in Clients : <<s, i>> \notin session[c].pend

NothingOf(s, W) == \A i \in Nat \ {0} : <<s, i>> \notin W

AllOf(s, W) == WritesOf(s) \subseteq W

\* Only the client a script holds has uncommitted writes of it.
Confined(s) == \A c \in Clients : c # held[s] => NothingOf(s, session[c].pend)

Fresh(s) ==
  stage[s] \in {"new", "connect", "refused", "outer", "begin"} => at[s] = 1 /\ errors[s] = {}

Running(s) ==
  stage[s] = "run" =>
    /\ session[held[s]].txn = "open"
    /\ errors[s] = {}
    /\ NothingOf(s, committed)
    /\ \A i \in Writes(s) : i < at[s] => <<s, i>> \in session[held[s]].pend

RollingBack(s) == stage[s] = "rollback" => errors[s] # {} /\ NothingOf(s, committed)

Settled(s) ==
  stage[s] \in {"outerCommit", "unwind", "answered", "thrown"} =>
    /\ \A c \in Clients : NothingOf(s, session[c].pend)
    /\ AllOf(s, committed) \/ NothingOf(s, committed)

Reported(s) ==
  stage[s] \in {"outerCommit", "answered"} =>
    IF errors[s] = {} THEN AllOf(s, committed) ELSE NothingOf(s, committed)

Transaction(s) ==
  Confined(s) /\ Fresh(s) /\ Running(s) /\ RollingBack(s) /\ Settled(s) /\ Reported(s)

ScriptInv ==
  /\ TypeOK
  /\ HeldInside
  /\ HeldAlone
  /\ SessionsFit
  /\ WrittenInTurn
  /\ \A s \in atOnce : Plain(s) => Transaction(s)

\* Of the statements run one by one.
EachInv ==
  (\A s \in Scripts : Plain(s)) =>
    /\ \A c \in Free : session[c] = Clean
    /\ \A s \in Scripts \ atOnce :
         \A i \in Attempted(s) : i \notin errors[s] => <<s, i>> \in committed

-----------------------------------------------------------------------------
(* What a command may do. *)

Outcome == [ok : BOOLEAN, ses : Session, kept : SUBSET Write]

\* The outcome of a command as a record of its own.
LEMMA OutcomeForms ==
  ASSUME NEW x \in Session, NEW K \in SUBSET Write
  PROVE  /\ Done(x, K) \in Outcome /\ Done(x, K).ok
         /\ Done(x, K).ses = x /\ Done(x, K).kept = K
         /\ Error(x) \in Outcome /\ ~Error(x).ok
         /\ Error(x).ses = x /\ Error(x).kept = {}
BY DEF Done, Error, Outcome

LEMMA SessionForms ==
  /\ Clean \in Session /\ Clean.txn = "none" /\ Clean.pend = {}
  /\ LostSession \in Session /\ LostSession.txn = "lost" /\ LostSession.pend = {}
  /\ \A P \in SUBSET Write : Open(P) \in Session /\ Open(P).txn = "open" /\ Open(P).pend = P
BY DEF Clean, LostSession, Open, Session

LEMMA FailedForm ==
  ASSUME NEW v \in Session
  PROVE  LET f == [txn |-> "failed", pend |-> v.pend]
         IN  f \in Session /\ f.txn = "failed" /\ f.pend = v.pend
BY DEF Session

LEMMA PendType == \A v \in Session : v.pend \in SUBSET Write
BY DEF Session

\* No command keeps or leaves pending anything but what was pending and its
\* own write.
LEMMA AnswersBounded ==
  ASSUME NEW v \in Session, NEW k \in Kind, NEW w \in Write,
         NEW a \in Answers(v, k, w)
  PROVE  /\ a \in Outcome
         /\ a.kept \subseteq v.pend \cup {w}
         /\ a.ses.pend \subseteq v.pend \cup {w}
         /\ k \in {"begin", "commit", "rollback"} =>
              a.kept \subseteq v.pend /\ a.ses.pend \subseteq v.pend
<1> v.pend \in SUBSET Write /\ {} \in SUBSET Write
  BY PendType
<1>1. CASE k = "begin"
  <2>1. a = Error(v) \/ a = Done(Open({}), v.pend) \/ a = Done(Open(v.pend), {})
    <3>1. a \in Begins(v)
      BY <1>1 DEF Answers
    <3> QED
      BY <3>1 DEF Begins
  <2> QED
    BY <1>1, <2>1, OutcomeForms, SessionForms
<1>2. CASE k = "commit"
  <2>1. \/ a = Done(Clean, {}) \/ a = Done(Clean, v.pend)
        \/ a = Error(v) \/ a = Error(Clean)
    <3>1. a \in Commits(v)
      BY <1>2 DEF Answers
    <3> QED
      BY <3>1 DEF Commits
  <2>2. CASE a = Done(Clean, {}) \/ a = Done(Clean, v.pend)
    BY <1>2, <2>2, OutcomeForms, SessionForms
  <2>3. CASE a = Error(v) \/ a = Error(Clean)
    BY <1>2, <2>3, OutcomeForms, SessionForms
  <2> QED
    BY <2>1, <2>2, <2>3
<1>3. CASE k = "rollback"
  <2>1. a = Error(v) \/ a = Done(Clean, {})
    <3>1. a \in RollsBack(v)
      BY <1>3 DEF Answers
    <3> QED
      BY <3>1 DEF RollsBack
  <2> QED
    BY <1>3, <2>1, OutcomeForms, SessionForms
<1>4. CASE k \in {"read", "write", "ddl"} /\ ~(k = "ddl" /\ engine = "mysql")
  <2>1. PICK W \in SUBSET {w} : a \in Runs(v, W)
    BY <1>4 DEF Answers
  <2>2. \/ a = Done(Open(v.pend \cup W), {}) \/ a = Done(v, W)
        \/ a = Error(v) \/ a = Error([txn |-> "failed", pend |-> v.pend])
    BY <2>1 DEF Runs, Takes, Breaks
  <2>3. W \in SUBSET Write /\ v.pend \cup W \in SUBSET Write
    OBVIOUS
  <2> QED
    BY <1>4, <2>2, <2>3, OutcomeForms, SessionForms, FailedForm
<1>5. CASE k = "ddl" /\ engine = "mysql"
  <2>1. v.pend \cup {w} \in SUBSET Write
    OBVIOUS
  <2>2. \/ a \in {Done(Clean, v.pend \cup {w}), Error(v)}
        \/ a = [ok |-> FALSE, ses |-> Clean, kept |-> v.pend]
    <3>1. a \in MysqlDdl(v, w)
      BY <1>5 DEF Answers
    <3> QED
      BY <3>1 DEF MysqlDdl
  <2>3. CASE a = [ok |-> FALSE, ses |-> Clean, kept |-> v.pend]
    BY <1>5, <2>3, SessionForms DEF Outcome
  <2>4. CASE a = Done(Clean, v.pend \cup {w})
    BY <1>5, <2>1, <2>4, OutcomeForms, SessionForms
  <2>5. CASE a = Error(v)
    BY <1>5, <2>1, <2>5, OutcomeForms
  <2> QED
    BY <2>2, <2>3, <2>4, <2>5
<1> QED
  BY <1>1, <1>2, <1>3, <1>4, <1>5 DEF Kind

LEMMA OutcomesBounded ==
  ASSUME NEW v \in Session, NEW k \in Kind, NEW w \in Write,
         NEW a \in Outcomes(v, k, w)
  PROVE  /\ a \in Outcome
         /\ a.kept \subseteq v.pend \cup {w}
         /\ a.ses.pend \subseteq v.pend \cup {w}
         /\ k \in {"begin", "commit", "rollback"} =>
              a.kept \subseteq v.pend /\ a.ses.pend \subseteq v.pend
<1>1. CASE a = Error(v)
  BY <1>1, OutcomeForms, PendType
<1>2. CASE a \in Answers(v, k, w)
  BY <1>2, AnswersBounded
<1>3. CASE a \in Loses(v, k, w)
  <2>1. PICK K \in {{}} \cup {b.kept : b \in Answers(v, k, w)} :
          a = [ok |-> FALSE, ses |-> LostSession, kept |-> K]
    BY <1>3 DEF Loses
  <2>2. a.ok = FALSE /\ a.ses = LostSession /\ a.kept = K
    BY <2>1
  <2>3. /\ K \in SUBSET Write
        /\ K \subseteq v.pend \cup {w}
        /\ k \in {"begin", "commit", "rollback"} => K \subseteq v.pend
    BY <2>1, AnswersBounded DEF Outcome
  <2>4. a \in Outcome
    BY <2>1, <2>3, SessionForms DEF Outcome
  <2> QED
    BY <2>2, <2>3, <2>4, SessionForms
<1> QED
  BY <1>1, <1>2, <1>3 DEF Outcomes

\* A statement inside an open transaction keeps nothing yet; if it succeeds
\* its write, too, is pending there.
LEMMA StatementOutcome ==
  ASSUME NEW v \in Session, NEW k \in {"read", "write", "ddl"}, NEW w \in Write,
         NEW a \in Outcomes(v, k, w),
         v.txn = "open", k = "ddl" => engine # "mysql"
  PROVE  /\ a.kept = {}
         /\ a.ok => /\ a.ses.txn = "open" /\ v.pend \subseteq a.ses.pend
                    /\ IsWrite(k) => w \in a.ses.pend
<1> DEFINE W == IF k = "read" THEN {} ELSE {w}
<1>1. \A b \in Answers(v, k, w) : b \in Runs(v, W)
  BY DEF Answers
<1>2. \A b \in Runs(v, W) :
        b = Done(Open(v.pend \cup W), {}) \/ b = Error(v)
          \/ b = Error([txn |-> "failed", pend |-> v.pend])
  BY DEF Runs, Takes, Breaks
<1>3. v.pend \cup W \in SUBSET Write
  BY PendType
<1>4. \A b \in Answers(v, k, w) :
        /\ b.kept = {}
        /\ b.ok => b.ses = Open(v.pend \cup W)
  <2> SUFFICES ASSUME NEW b \in Answers(v, k, w)
               PROVE  b.kept = {} /\ (b.ok => b.ses = Open(v.pend \cup W))
    OBVIOUS
  <2>1. CASE b = Done(Open(v.pend \cup W), {})
    BY <2>1 DEF Done
  <2>2. CASE b = Error(v) \/ b = Error([txn |-> "failed", pend |-> v.pend])
    BY <2>2 DEF Error
  <2> QED
    BY <1>1, <1>2, <2>1, <2>2
<1>5. CASE a \in Answers(v, k, w)
  BY <1>3, <1>4, <1>5, SessionForms DEF IsWrite
<1>6. CASE a \in Loses(v, k, w)
  <2>1. PICK K \in {{}} \cup {b.kept : b \in Answers(v, k, w)} :
          a = [ok |-> FALSE, ses |-> LostSession, kept |-> K]
    BY <1>6 DEF Loses
  <2>2. a.ok = FALSE /\ a.kept = K
    BY <2>1
  <2> QED
    BY <1>4, <2>1, <2>2
<1> QED
  BY <1>5, <1>6 DEF Outcomes

\* COMMIT of an open transaction: nothing is pending any more, and all or
\* none of what was is durable; all of it when the answer is a success.
LEMMA CommitOutcome ==
  ASSUME NEW v \in Session, NEW w \in Write,
         NEW a \in Outcomes(v, "commit", w), v.txn = "open"
  PROVE  /\ a.ses.pend = {}
         /\ a.kept \in {{}, v.pend}
         /\ a.ok => a.kept = v.pend
<1>1. \A b \in Answers(v, "commit", w) : b = Done(Clean, v.pend) \/ b = Error(Clean)
  <2>1. Answers(v, "commit", w) = Commits(v)
    BY DEF Answers
  <2> QED
    BY <2>1 DEF Commits
<1>2. \A b \in Answers(v, "commit", w) :
        b.ses.pend = {} /\ b.kept \in {{}, v.pend} /\ (b.ok => b.kept = v.pend)
  BY <1>1, OutcomeForms, SessionForms, PendType
<1>3. CASE a \in Loses(v, "commit", w)
  <2>1. PICK K \in {{}} \cup {b.kept : b \in Answers(v, "commit", w)} :
          a = [ok |-> FALSE, ses |-> LostSession, kept |-> K]
    BY <1>3 DEF Loses
  <2>2. a.ok = FALSE /\ a.ses = LostSession /\ a.kept = K
    BY <2>1
  <2> QED
    BY <1>2, <2>1, <2>2, SessionForms
<1> QED
  BY <1>2, <1>3 DEF Outcomes

\* ROLLBACK keeps nothing and leaves nothing pending.
LEMMA RollbackOutcome ==
  ASSUME NEW v \in Session, NEW w \in Write,
         NEW a \in Outcomes(v, "rollback", w), engine # "sqlite",
         v.txn = "lost" => v.pend = {}
  PROVE  /\ a.kept = {}
         /\ a.ses.pend = {}
         /\ Renewed(a.ses) = Clean
<1>1. \A b \in Answers(v, "rollback", w) : b = Done(Clean, {})
  <2>1. Answers(v, "rollback", w) = RollsBack(v)
    BY DEF Answers
  <2> QED
    BY <2>1 DEF RollsBack
<1>2. CASE a \in Answers(v, "rollback", w)
  BY <1>1, <1>2, OutcomeForms, SessionForms DEF Renewed
<1>3. CASE a \in Loses(v, "rollback", w)
  <2>1. PICK K \in {{}} \cup {b.kept : b \in Answers(v, "rollback", w)} :
          a = [ok |-> FALSE, ses |-> LostSession, kept |-> K]
    BY <1>3 DEF Loses
  <2>2. a.ses = LostSession /\ a.kept = K
    BY <2>1
  <2>3. K = {}
    BY <1>1, <2>1, OutcomeForms, SessionForms
  <2> QED
    BY <2>2, <2>3, SessionForms DEF Renewed
<1>4. CASE v.txn = "lost" /\ a = Error(v)
  BY <1>4, OutcomeForms DEF Renewed
<1> QED
  BY <1>2, <1>3, <1>4 DEF Outcomes

\* A BEGIN that succeeds leaves an open transaction.
LEMMA BeginOutcome ==
  ASSUME NEW v \in Session, NEW w \in Write,
         NEW a \in Outcomes(v, "begin", w), a.ok
  PROVE  a.ses.txn = "open"
<1>1. a # Error(v)
  BY OutcomeForms
<1>2. a \notin Loses(v, "begin", w)
  BY DEF Loses
<1>3. a \in Begins(v)
  <2>1. Answers(v, "begin", w) = Begins(v)
    BY DEF Answers
  <2> QED
    BY <1>1, <1>2, <2>1 DEF Outcomes
<1>4. a = Done(Open({}), v.pend) \/ a = Done(Open(v.pend), {})
  BY <1>1, <1>3 DEF Begins
<1> QED
  BY <1>4, OutcomeForms, SessionForms, PendType

\* Of a session that fits, a command makes one that fits.
Fits(v) ==
  /\ v.txn \in {"none", "lost"} => v.pend = {}
  /\ v.txn = "failed" => engine = "pg"

LEMMA OutcomesFit ==
  ASSUME NEW v \in Session, NEW k \in Kind, NEW w \in Write,
         NEW a \in Outcomes(v, k, w), Fits(v)
  PROVE  Fits(a.ses)
<1>1. Fits(Clean) /\ Fits(LostSession) /\ (\A P \in SUBSET Write : Fits(Open(P)))
  BY SessionForms DEF Fits
<1>2. \A x \in Session : x = v \/ x = Clean \/ x = LostSession
                           \/ (\E P \in SUBSET Write : x = Open(P)) => Fits(x)
  BY <1>1
<1>3. ASSUME NEW b \in Answers(v, k, w) PROVE Fits(b.ses)
  <2>1. CASE k = "begin"
    <3>1. b \in Begins(v)
      BY <2>1, <1>3 DEF Answers
    <3>2. b = Error(v) \/ b = Done(Open({}), v.pend) \/ b = Done(Open(v.pend), {})
      BY <3>1 DEF Begins
    <3> QED
      BY <3>2, <1>1, OutcomeForms, SessionForms, PendType
  <2>2. CASE k = "commit"
    <3>1. b \in Commits(v)
      BY <2>2, <1>3 DEF Answers
    <3>2. \/ b = Done(Clean, {}) \/ b = Done(Clean, v.pend)
          \/ b = Error(v) \/ b = Error(Clean)
      BY <3>1 DEF Commits
    <3>3. b.ses = Clean \/ b.ses = v
      BY <3>2, OutcomeForms, SessionForms, PendType
    <3> QED
      BY <3>3, <1>1
  <2>3. CASE k = "rollback"
    <3>1. b \in RollsBack(v)
      BY <2>3, <1>3 DEF Answers
    <3>2. b.ses = Clean \/ b.ses = v
      BY <3>1, OutcomeForms, SessionForms DEF RollsBack
    <3> QED
      BY <3>2, <1>1
  <2>4. CASE k \in {"read", "write", "ddl"} /\ ~(k = "ddl" /\ engine = "mysql")
    <3>1. PICK W \in SUBSET {w} : b \in Runs(v, W)
      BY <2>4, <1>3 DEF Answers
    <3>2. v.pend \cup W \in SUBSET Write
      BY PendType
    <3>3. \/ b = Done(Open(v.pend \cup W), {}) \/ b = Done(v, W) \/ b = Error(v)
          \/ b = Error([txn |-> "failed", pend |-> v.pend]) /\ engine = "pg"
      BY <3>1 DEF Runs, Takes, Breaks
    <3>4. CASE b = Error([txn |-> "failed", pend |-> v.pend]) /\ engine = "pg"
      BY <3>4 DEF Fits, Error
    <3>5. CASE b = Done(Open(v.pend \cup W), {})
      BY <3>2, <3>5, <1>1 DEF Done
    <3>6. CASE b = Done(v, W) \/ b = Error(v)
      BY <3>6 DEF Done, Error
    <3> QED
      BY <3>3, <3>4, <3>5, <3>6
  <2>5. CASE k = "ddl" /\ engine = "mysql"
    <3>1. b \in MysqlDdl(v, w)
      BY <2>5, <1>3 DEF Answers
    <3>2. b.ses = Clean \/ b.ses = v
      BY <3>1 DEF MysqlDdl, Done, Error
    <3> QED
      BY <3>2, <1>1
  <2> QED
    BY <2>1, <2>2, <2>3, <2>4, <2>5 DEF Kind
<1>4. CASE a \in Loses(v, k, w)
  <2>1. PICK K : a = [ok |-> FALSE, ses |-> LostSession, kept |-> K]
    BY <1>4 DEF Loses
  <2>2. a.ses = LostSession
    BY <2>1
  <2> QED
    BY <2>2, <1>1
<1>5. CASE a = Error(v)
  BY <1>5 DEF Error
<1> QED
  BY <1>3, <1>4, <1>5 DEF Outcomes

LEMMA RenewedFits ==
  ASSUME NEW v \in Session, Fits(v)
  PROVE  /\ Renewed(v) \in Session /\ Fits(Renewed(v))
         /\ Renewed(v).pend \subseteq v.pend
BY SessionForms DEF Renewed, Fits

-----------------------------------------------------------------------------
(* What a command of one script leaves of the others'. *)

\* A command on a client that s does not hold says nothing of s.
LEMMA OthersUntouched ==
  ASSUME ScriptInv, NEW t \in Scripts, NEW c \in Clients, NEW v \in Session,
         NEW K \in SUBSET Write,
         c = held[t] \/ c \in Free,
         K \subseteq session[c].pend \cup {<<t, at[t]>>},
         v.pend \subseteq session[c].pend \cup {<<t, at[t]>>},
         session' = [session EXCEPT ![c] = v], committed' = committed \cup K,
         NEW s \in atOnce, s # t, Plain(s),
         UNCHANGED <<engine, text, atOnce>>,
         stage'[s] = stage[s], at'[s] = at[s], errors'[s] = errors[s], held'[s] = held[s]
  PROVE  Transaction(s)'
<1> s \in Scripts /\ Transaction(s) /\ TypeOK
  BY DEF ScriptInv, TypeOK
<1>1. c # held[s]
  <2>1. CASE c = held[t]
    BY <2>1, ClientsAssumption DEF ScriptInv, HeldAlone
  <2>2. CASE c \in Free /\ engine # "sqlite"
    BY <2>2 DEF Free
  <2>3. CASE engine = "sqlite"
    BY <2>3, ClientsAssumption DEF ScriptInv, HeldInside
  <2> QED
    BY <2>1, <2>2, <2>3
<1>2. NothingOf(s, session[c].pend)
  BY <1>1 DEF Transaction, Confined
<1>3. NothingOf(s, K) /\ NothingOf(s, v.pend)
  BY <1>2 DEF NothingOf
<1>4. \A d \in Clients : session'[d] = IF d = c THEN v ELSE session[d]
  BY DEF TypeOK
<1>5. held[s] \in Clients => session'[held[s]] = session[held[s]]
  BY <1>1, <1>4
<1>6. NothingOf(s, committed) => NothingOf(s, committed')
  BY <1>3 DEF NothingOf
<1>7. Writes(s)' = Writes(s) /\ WritesOf(s)' = WritesOf(s)
  BY DEF WritesOf, Writes, Statements
<1>8. AllOf(s, committed) => AllOf(s, committed)'
  BY <1>7 DEF AllOf
<1>9. Confined(s)'
  BY <1>3, <1>4 DEF Confined, Transaction, NothingOf
<1>10. Fresh(s)'
  BY DEF Fresh, Transaction
<1>11. Running(s)'
  <2> SUFFICES ASSUME stage[s] = "run" PROVE Running(s)'
    BY DEF Running
  <2>1. held[s] \in Clients
    BY DEF ScriptInv, HeldInside, Holding
  <2> QED
    BY <2>1, <1>5, <1>6, <1>7 DEF Running, Transaction, NothingOf
<1>12. RollingBack(s)'
  BY <1>6 DEF RollingBack, Transaction, NothingOf
<1>13. Settled(s)'
  BY <1>3, <1>4, <1>6, <1>8 DEF Settled, Transaction, NothingOf
<1>14. Reported(s)'
  BY <1>6, <1>8 DEF Reported, Transaction, NothingOf
<1> QED
  BY <1>9, <1>10, <1>11, <1>12, <1>13, <1>14 DEF Transaction

\* What a command writes, it writes in turn.
LEMMA InTurn ==
  ASSUME TypeOK, WrittenInTurn, NEW t \in Scripts, NEW c \in Clients, NEW v \in Session,
         NEW K \in SUBSET Write, NEW W \in SUBSET {<<t, at[t]>>},
         K \subseteq session[c].pend \cup W, v.pend \subseteq session[c].pend \cup W,
         session' = [session EXCEPT ![c] = v], committed' = committed \cup K,
         at' = [at EXCEPT ![t] = @ + 1] \/ (at' = at /\ W = {})
  PROVE  WrittenInTurn'
<1> SUFFICES ASSUME NEW s \in Scripts, NEW i \in Nat \ {0}, i >= at'[s]
             PROVE  /\ <<s, i>> \notin committed'
                    /\ \A d \in Clients : <<s, i>> \notin session'[d].pend
  BY DEF WrittenInTurn
<1>1. at[t] \in Nat /\ at[s] \in Nat
  BY DEF TypeOK
<1>2. i >= at[s] /\ <<s, i>> \notin W
  <2>1. CASE at' = at /\ W = {}
    BY <2>1
  <2>2. CASE at' = [at EXCEPT ![t] = @ + 1]
    <3>1. at'[s] = IF s = t THEN at[s] + 1 ELSE at[s]
      BY <2>2 DEF TypeOK
    <3> QED
      BY <3>1, <1>1
  <2> QED
    BY <2>1, <2>2
<1>3. <<s, i>> \notin committed /\ \A d \in Clients : <<s, i>> \notin session[d].pend
  BY <1>2 DEF WrittenInTurn
<1>4. \A d \in Clients : session'[d] = IF d = c THEN v ELSE session[d]
  BY DEF TypeOK
<1> QED
  BY <1>2, <1>3, <1>4

\* The result of a statement is well typed.
LEMMA ResultTyped ==
  ASSUME TypeOK, NEW t \in Scripts, NEW a, at[t] <= Len(text[t]), Result(t, a),
         text' = text
  PROVE  /\ at' \in [Scripts -> Nat \ {0}]
         /\ \A s \in Scripts : at'[s] <= Len(text'[s]) + 1
         /\ \A s \in Scripts : errors'[s] \subseteq 1..(at'[s] - 1)
         /\ errors' \in [Scripts -> SUBSET Nat]
         /\ \A s \in Scripts : s # t => at'[s] = at[s] /\ errors'[s] = errors[s]
         /\ at'[t] = at[t] + 1
         /\ errors'[t] = IF a.ok THEN errors[t] ELSE errors[t] \cup {at[t]}
<1>1. \A s \in Scripts : Len(text[s]) \in Nat /\ at[s] \in Nat \ {0}
  BY TextsAssumption DEF TypeOK
<1>2. \A s \in Scripts : at'[s] = IF s = t THEN at[s] + 1 ELSE at[s]
  BY DEF Result, TypeOK
<1>3. \A s \in Scripts : errors'[s] = IF s = t /\ ~a.ok THEN errors[s] \cup {at[s]} ELSE errors[s]
  BY DEF Result, TypeOK
<1>4. at' \in [Scripts -> Nat \ {0}]
  BY <1>1 DEF Result, TypeOK
<1>5. errors' \in [Scripts -> SUBSET Nat]
  BY <1>1 DEF Result, TypeOK
<1>6. ASSUME NEW s \in Scripts PROVE at'[s] <= Len(text'[s]) + 1
  <2>1. at[s] <= Len(text[s]) + 1
    BY DEF TypeOK
  <2>2. CASE s = t
    BY <1>1, <1>2, <2>2
  <2>3. CASE s # t
    BY <1>2, <2>1, <2>3
  <2> QED
    BY <2>2, <2>3
<1>7. ASSUME NEW s \in Scripts PROVE errors'[s] \subseteq 1..(at'[s] - 1)
  <2>1. errors[s] \subseteq 1..(at[s] - 1)
    BY DEF TypeOK
  <2>2. CASE s # t
    BY <1>2, <1>3, <2>1, <2>2
  <2>3. CASE s = t
    <3>1. at'[s] = at[s] + 1 /\ at[s] \in Nat \ {0}
      BY <1>1, <1>2, <2>3
    <3>2. errors'[s] \subseteq errors[s] \cup {at[s]}
      BY <1>3
    <3>3. 1..(at[s] - 1) \subseteq 1..(at'[s] - 1) /\ at[s] \in 1..(at'[s] - 1)
      BY <3>1
    <3> QED
      BY <2>1, <3>2, <3>3
  <2> QED
    BY <2>2, <2>3
<1> QED
  BY <1>2, <1>3, <1>4, <1>5, <1>6, <1>7

\* What a command of a transactional script keeps of the invariant, but for
\* that script's own transaction.
Rest(t) ==
  /\ TypeOK /\ HeldInside /\ HeldAlone /\ SessionsFit /\ WrittenInTurn
  /\ \A s \in atOnce : s # t /\ Plain(s) => Transaction(s)

LEMMA StepKeepsRest ==
  ASSUME ScriptInv, NEW t \in Scripts, stage[t] \in Holding,
         NEW k \in Kind, NEW a \in Outcomes(session[held[t]], k, <<t, at[t]>>),
         NEW st \in Holding \cup {"answered", "thrown"},
         Step(t, a, st), UNCHANGED <<engine, scripts>>,
         \/ UNCHANGED <<at, errors>> /\ k \in {"begin", "commit", "rollback"}
         \/ at[t] <= Len(text[t]) /\ Result(t, a)
  PROVE  /\ Rest(t)'
         /\ a \in Outcome
         /\ session' \in [Clients -> Session]
         /\ session'[held[t]].pend \subseteq a.ses.pend
         /\ st \in Holding => session'[held[t]] = a.ses
         /\ \A d \in Clients : d # held[t] => session'[d] = session[d]
<1> DEFINE c == held[t]
           v == IF st \in Ended THEN Renewed(a.ses) ELSE a.ses
           W == IF k \in {"begin", "commit", "rollback"} THEN {} ELSE {<<t, at[t]>>}
<1>1. c \in Clients /\ engine # "sqlite" /\ t \in atOnce /\ TypeOK
  BY DEF ScriptInv, HeldInside
<1>2. session[c] \in Session /\ Fits(session[c]) /\ <<t, at[t]>> \in Write
  BY <1>1 DEF ScriptInv, SessionsFit, Fits, TypeOK, Write
<1>3. a \in Outcome /\ Fits(a.ses)
  BY <1>2, OutcomesBounded, OutcomesFit
<1>4. /\ v \in Session /\ Fits(v) /\ v.pend \subseteq a.ses.pend
      /\ a.kept \in SUBSET Write
  BY <1>3, RenewedFits DEF Outcome
<1>5. /\ a.kept \subseteq session[c].pend \cup W
      /\ a.ses.pend \subseteq session[c].pend \cup W
      /\ W \in SUBSET {<<t, at[t]>>}
  BY <1>2, OutcomesBounded
<1>6. /\ session' = [session EXCEPT ![c] = v]
      /\ committed' = committed \cup a.kept
      /\ stage' = [stage EXCEPT ![t] = st]
      /\ held' = IF st \in Ended THEN [held EXCEPT ![t] = NoClient] ELSE held
  BY DEF Step
<1>7. \A d \in Clients : session'[d] = IF d = c THEN v ELSE session[d]
  BY <1>1, <1>6 DEF TypeOK
<1>8. /\ at' \in [Scripts -> Nat \ {0}]
      /\ \A s \in Scripts : at'[s] <= Len(text'[s]) + 1
      /\ \A s \in Scripts : errors'[s] \subseteq 1..(at'[s] - 1)
      /\ errors' \in [Scripts -> SUBSET Nat]
      /\ \A s \in Scripts : s # t => at'[s] = at[s] /\ errors'[s] = errors[s]
  <2>1. CASE UNCHANGED <<at, errors>>
    BY <1>1, <2>1 DEF TypeOK, scripts
  <2>2. CASE at[t] <= Len(text[t]) /\ Result(t, a)
    BY <1>1, <2>2, ResultTyped DEF scripts
  <2> QED
    BY <2>1, <2>2
<1>9. TypeOK'
  <2>1. stage' \in [Scripts -> Stage]
    BY <1>1, <1>6 DEF TypeOK, Stage, Ended
  <2>2. held' \in [Scripts -> Clients \cup {NoClient}]
    BY <1>1, <1>6 DEF TypeOK
  <2>3. session' \in [Clients -> Session] /\ committed' \subseteq Write
    BY <1>1, <1>4, <1>6 DEF TypeOK
  <2> QED
    BY <1>1, <1>8, <2>1, <2>2, <2>3 DEF TypeOK, scripts
<1>10. st \in Ended <=> st \notin Holding
  BY DEF Ended, Holding
<1>11. \A s \in Scripts : s # t => stage'[s] = stage[s] /\ held'[s] = held[s]
  BY <1>1, <1>6 DEF TypeOK
<1>12. stage'[t] = st /\ held'[t] = IF st \in Holding THEN c ELSE NoClient
  BY <1>1, <1>6, <1>10 DEF TypeOK
<1>13. HeldInside'
  <2>1. \A s \in Scripts : s # t =>
          /\ stage'[s] \in Holding => s \in atOnce' /\ held'[s] \in Clients /\ engine' # "sqlite"
          /\ stage'[s] \notin Holding => held'[s] = NoClient
          /\ stage'[s] = "each" => s \notin atOnce'
          /\ stage'[s] = "connect" => s \in atOnce'
    BY <1>11 DEF ScriptInv, HeldInside, scripts
  <2>2. st # "each"
    BY DEF Holding
  <2> QED
    BY <1>1, <1>12, <2>1, <2>2 DEF HeldInside, scripts
<1>14. HeldAlone'
  BY <1>11, <1>12 DEF ScriptInv, HeldAlone
<1>15. SessionsFit'
  <2>1. \A d \in Clients : Fits(session'[d])
    BY <1>4, <1>7 DEF ScriptInv, SessionsFit, Fits
  <2> QED
    BY <2>1 DEF SessionsFit, Fits
<1>16. WrittenInTurn'
  <2>1. at' = [at EXCEPT ![t] = @ + 1] \/ (at' = at /\ W = {})
    BY DEF Result
  <2>2. v.pend \subseteq session[c].pend \cup W
    BY <1>4, <1>5
  <2>3. WrittenInTurn
    BY DEF ScriptInv
  <2> HIDE DEF c, v, W
  <2> QED
    BY <1>1, <1>4, <1>5, <1>6, <2>1, <2>2, <2>3, InTurn
<1>17. ASSUME NEW s \in atOnce', s # t, Plain(s)' PROVE Transaction(s)'
  <2>1. s \in atOnce /\ s \in Scripts /\ Plain(s)
    BY <1>1, <1>17 DEF scripts, Plain, Statements, TypeOK
  <2>2. /\ stage'[s] = stage[s] /\ at'[s] = at[s]
        /\ errors'[s] = errors[s] /\ held'[s] = held[s]
    BY <1>8, <1>11, <1>17, <2>1
  <2>3. /\ a.kept \subseteq session[c].pend \cup {<<t, at[t]>>}
        /\ v.pend \subseteq session[c].pend \cup {<<t, at[t]>>}
    BY <1>4, <1>5
  <2>4. UNCHANGED <<engine, text, atOnce>>
    BY DEF scripts
  <2> HIDE DEF c, v, W
  <2>5. c = held[t]
    BY DEF c
  <2> QED
    BY <1>1, <1>4, <1>6, <1>17, <2>1, <2>2, <2>3, <2>4, <2>5, OthersUntouched
<1>18. st \in Holding => v = a.ses
  BY <1>10
<1> QED
  BY <1>1, <1>3, <1>4, <1>7, <1>9, <1>13, <1>14, <1>15, <1>16, <1>17, <1>18 DEF Rest, TypeOK

-----------------------------------------------------------------------------
(* The transaction of a script that leaves transactions to the service. *)

LEMMA NothingYet ==
  ASSUME WrittenInTurn, NEW t \in Scripts, at[t] = 1
  PROVE  /\ NothingOf(t, committed)
         /\ \A d \in Clients : NothingOf(t, session[d].pend)
BY DEF WrittenInTurn, NothingOf

LEMMA StatementKeepsTransaction ==
  ASSUME ScriptInv, NEW t \in atOnce, Plain(t), Statement(t)
  PROVE  Rest(t)' /\ Transaction(t)'
<1> DEFINE c == held[t]
           k == text[t][at[t]]
<1>1. /\ t \in Scripts /\ c \in Clients /\ Transaction(t) /\ TypeOK
      /\ stage[t] = "run" /\ stage[t] \in Holding
  BY DEF ScriptInv, HeldInside, TypeOK, Statement, Holding
<1>2. PICK a \in Outcomes(session[c], k, <<t, at[t]>>) :
        Step(t, a, IF a.ok THEN "run" ELSE "rollback") /\ Result(t, a)
  BY DEF Statement
<1>3. UNCHANGED <<engine, scripts>> /\ at[t] <= Len(text[t])
  BY DEF Statement
<1>4. at[t] \in Statements(t) /\ at[t] \in Nat \ {0} /\ Len(text[t]) \in Nat
  BY <1>1, <1>3, TextsAssumption DEF TypeOK, Statements
<1>5. k \in {"read", "write", "ddl"} /\ (k = "ddl" => engine # "mysql") /\ k \in Kind
  BY <1>4 DEF Plain, Kind
<1>6. DEFINE st == IF a.ok THEN "run" ELSE "rollback"
<1>7. st \in Holding
  BY DEF Holding
<1>8. /\ Rest(t)' /\ a \in Outcome
      /\ session' \in [Clients -> Session]
      /\ session'[c] = a.ses
      /\ \A d \in Clients : d # c => session'[d] = session[d]
  <2> HIDE DEF st
  <2>1. Step(t, a, st)
    BY <1>2 DEF st
  <2> QED
    BY <1>1, <1>2, <1>3, <1>5, <1>7, <2>1, StepKeepsRest
<1>9. /\ stage'[t] = st /\ held'[t] = c /\ committed' = committed \cup a.kept
      /\ at'[t] = at[t] + 1
      /\ errors'[t] = IF a.ok THEN errors[t] ELSE errors[t] \cup {at[t]}
  <2>1. stage' = [stage EXCEPT ![t] = st] /\ held' = held /\ committed' = committed \cup a.kept
    BY <1>2 DEF Step, Ended
  <2>2. text' = text
    BY <1>3 DEF scripts
  <2> QED
    BY <1>1, <1>2, <1>3, <2>1, <2>2, ResultTyped DEF TypeOK
<1>10. /\ session[c] \in Session /\ session[c].txn = "open" /\ errors[t] = {}
       /\ NothingOf(t, committed)
       /\ \A i \in Writes(t) : i < at[t] => <<t, i>> \in session[c].pend
       /\ <<t, at[t]>> \in Write
  BY <1>1, <1>4 DEF Transaction, Running, TypeOK, Write
<1>11. /\ a.kept = {}
       /\ a.ok => /\ a.ses.txn = "open" /\ session[c].pend \subseteq a.ses.pend
                  /\ IsWrite(k) => <<t, at[t]>> \in a.ses.pend
  BY <1>2, <1>5, <1>10, StatementOutcome
<1>12. committed' = committed /\ NothingOf(t, committed)'
  BY <1>9, <1>10, <1>11 DEF NothingOf
<1>13. Confined(t)'
  BY <1>1, <1>8, <1>9 DEF Transaction, Confined
<1>14. Running(t)'
  <2> SUFFICES ASSUME a.ok PROVE Running(t)'
    BY <1>9 DEF Running
  <2>1. ASSUME NEW i \in Writes(t)', i < at'[t] PROVE <<t, i>> \in session'[c].pend
    <3>1. i \in Writes(t) /\ i \in Nat /\ text' = text
      BY <1>1, <1>3, <1>4, <2>1 DEF scripts, Writes, Statements
    <3>2. CASE i < at[t]
      BY <1>8, <1>10, <1>11, <3>1, <3>2
    <3>3. CASE i = at[t]
      BY <1>8, <1>11, <3>1, <3>3 DEF Writes
    <3> QED
      BY <1>4, <1>9, <2>1, <3>1, <3>2, <3>3
  <2> QED
    BY <1>8, <1>9, <1>10, <1>11, <1>12, <2>1 DEF Running
<1>15. RollingBack(t)'
  BY <1>9, <1>12 DEF RollingBack
<1>16. Fresh(t)' /\ Settled(t)' /\ Reported(t)'
  BY <1>9 DEF Fresh, Settled, Reported
<1> QED
  BY <1>8, <1>13, <1>14, <1>15, <1>16 DEF Transaction

\* BEGIN, COMMIT or ROLLBACK of t with outcome a, after which t is at st.
Controlled(t, k, a, st) ==
  /\ a \in Outcomes(session[held[t]], k, <<t, at[t]>>)
  /\ a \in Outcome
  /\ a.kept \subseteq session[held[t]].pend
  /\ stage'[t] = st
  /\ held'[t] = IF st \in Holding THEN held[t] ELSE NoClient
  /\ committed' = committed \cup a.kept
  /\ session'[held[t]].pend \subseteq a.ses.pend
  /\ a.ses.pend \subseteq session[held[t]].pend
  /\ st \in Holding => session'[held[t]] = a.ses
  /\ \A d \in Clients : d # held[t] => session'[d] = session[d]
  /\ UNCHANGED <<at, errors, text, engine, atOnce>>

LEMMA ControlKeepsRest ==
  ASSUME ScriptInv, NEW t \in Scripts, stage[t] \in Holding,
         NEW k \in {"begin", "commit", "rollback"},
         NEW yes \in Holding \cup {"answered", "thrown"},
         NEW no \in Holding \cup {"answered", "thrown"},
         Control(t, k, yes, no)
  PROVE  /\ Rest(t)'
         /\ \E a \in Outcome : Controlled(t, k, a, IF a.ok THEN yes ELSE no)
<1>1. PICK a \in Outcomes(session[held[t]], k, <<t, at[t]>>) :
        Step(t, a, IF a.ok THEN yes ELSE no)
  BY DEF Control
<1>2. UNCHANGED <<engine, scripts, at, errors>> /\ k \in Kind
  BY DEF Control, Kind
<1> DEFINE st == IF a.ok THEN yes ELSE no
<1>3. st \in Holding \cup {"answered", "thrown"}
  OBVIOUS
<1>4. /\ Rest(t)' /\ a \in Outcome
      /\ session'[held[t]].pend \subseteq a.ses.pend
      /\ st \in Holding => session'[held[t]] = a.ses
      /\ \A d \in Clients : d # held[t] => session'[d] = session[d]
  <2> HIDE DEF st
  <2>1. Step(t, a, st)
    BY <1>1 DEF st
  <2> QED
    BY <1>1, <1>2, <1>3, <2>1, StepKeepsRest
<1>5. /\ stage'[t] = st
      /\ held'[t] = IF st \in Holding THEN held[t] ELSE NoClient
      /\ committed' = committed \cup a.kept
  <2>1. st \in Ended <=> st \notin Holding
    BY DEF Ended, Holding
  <2> QED
    BY <1>1, <2>1 DEF Step, ScriptInv, TypeOK
<1>6. a.kept \subseteq session[held[t]].pend /\ a.ses.pend \subseteq session[held[t]].pend
  <2>1. session[held[t]] \in Session /\ <<t, at[t]>> \in Write
    BY DEF ScriptInv, TypeOK, HeldInside, Write
  <2> QED
    BY <1>1, <1>2, <2>1, OutcomesBounded
<1>7. Controlled(t, k, a, st)
  BY <1>1, <1>2, <1>4, <1>5, <1>6 DEF Controlled, scripts
<1> QED
  BY <1>4, <1>7

\* Where a transactional script stands with nothing written.
LEMMA NothingWritten ==
  ASSUME NEW t \in Scripts, WrittenInTurn, at[t] = 1, errors[t] = {},
         stage[t] \in {"new", "connect", "refused", "outer", "begin", "unwind", "thrown"}
  PROVE  Transaction(t)
<1>1. NothingOf(t, committed) /\ \A d \in Clients : NothingOf(t, session[d].pend)
  BY NothingYet
<1> QED
  BY <1>1 DEF Transaction, Confined, Fresh, Running, RollingBack, Settled, Reported

LEMMA BeginKeepsTransaction ==
  ASSUME ScriptInv, NEW t \in atOnce, Plain(t), OuterBegin(t) \/ Begin(t)
  PROVE  Rest(t)' /\ Transaction(t)'
<1>1. t \in Scripts /\ stage[t] \in Holding /\ held[t] \in Clients /\ Transaction(t)
  BY DEF ScriptInv, HeldInside, TypeOK, OuterBegin, Begin, Holding
<1>2. at[t] = 1 /\ errors[t] = {} /\ session[held[t]] \in Session /\ <<t, at[t]>> \in Write
  BY <1>1 DEF Transaction, Fresh, OuterBegin, Begin, ScriptInv, TypeOK, Write
<1>3. Failed \in {"unwind", "thrown"} /\ Failed \in Holding \cup {"answered", "thrown"}
  BY DEF Failed, Holding
<1>4. CASE OuterBegin(t)
  <2>1. PICK a \in Outcome : Controlled(t, "begin", a, IF a.ok THEN "begin" ELSE "unwind")
    BY <1>1, <1>4, ControlKeepsRest DEF OuterBegin, Holding
  <2>2. Rest(t)'
    BY <1>1, <1>4, ControlKeepsRest DEF OuterBegin, Holding
  <2>3. stage'[t] \in {"begin", "unwind"} /\ at'[t] = 1 /\ errors'[t] = {} /\ WrittenInTurn'
    BY <1>2, <2>1, <2>2 DEF Controlled, Rest
  <2> QED
    BY <1>1, <2>2, <2>3 DEF Transaction, Confined, Fresh, Running,
       RollingBack, Settled, Reported, NothingOf, WrittenInTurn
<1>5. CASE Begin(t)
  <2>1. PICK a \in Outcome : Controlled(t, "begin", a, IF a.ok THEN "run" ELSE Failed)
    BY <1>1, <1>3, <1>5, ControlKeepsRest DEF Begin, Holding
  <2>2. Rest(t)'
    BY <1>1, <1>3, <1>5, ControlKeepsRest DEF Begin, Holding
  <2>3. at'[t] = 1 /\ errors'[t] = {} /\ WrittenInTurn'
    BY <1>2, <2>1, <2>2 DEF Controlled, Rest
  <2>4. /\ NothingOf(t, committed')
        /\ \A d \in Clients : NothingOf(t, session'[d].pend)
    BY <1>1, <2>3 DEF WrittenInTurn, NothingOf
  <2>5. CASE a.ok
    <3>1. a.ses.txn = "open"
      BY <1>2, <2>1, <2>5, BeginOutcome DEF Controlled
    <3>2. stage'[t] = "run" /\ held'[t] = held[t] /\ session'[held[t]] = a.ses
      BY <2>1, <2>5 DEF Controlled, Holding
    <3>3. \A i \in Writes(t)' : i \in Nat \ {0}
      <4>1. text' = text /\ Len(text[t]) \in Nat
        BY <1>1, <2>1, TextsAssumption DEF Controlled, ScriptInv, TypeOK
      <4> QED
        BY <4>1 DEF Writes, Statements
    <3>4. Running(t)'
      BY <2>3, <2>4, <3>1, <3>2, <3>3 DEF Running
    <3> QED
      BY <2>2, <2>4, <3>2, <3>4 DEF Transaction, Confined, Fresh, RollingBack, Settled, Reported
  <2>6. CASE ~a.ok
    <3>1. stage'[t] \in {"unwind", "thrown"}
      BY <1>3, <2>1, <2>6 DEF Controlled
    <3> QED
      BY <2>2, <2>4, <3>1 DEF Transaction, Confined, Fresh, Running, RollingBack, Settled, Reported
  <2> QED
    BY <2>5, <2>6
<1> QED
  BY <1>4, <1>5

LEMMA CommitKeepsTransaction ==
  ASSUME ScriptInv, NEW t \in atOnce, Plain(t), Commit(t)
  PROVE  Rest(t)' /\ Transaction(t)'
<1>1. /\ t \in Scripts /\ stage[t] = "run" /\ stage[t] \in Holding /\ held[t] \in Clients
      /\ Transaction(t) /\ at[t] > Len(text[t]) /\ Len(text[t]) \in Nat
  BY TextsAssumption DEF ScriptInv, HeldInside, TypeOK, Commit, Holding
<1>2. /\ Returned \in {"outerCommit", "answered"} /\ Failed \in {"unwind", "thrown"}
      /\ Returned \in Holding \cup {"answered", "thrown"}
      /\ Failed \in Holding \cup {"answered", "thrown"}
  BY DEF Returned, Failed, Holding
<1>3. PICK a \in Outcome : Controlled(t, "commit", a, IF a.ok THEN Returned ELSE Failed)
  BY <1>1, <1>2, ControlKeepsRest DEF Commit
<1>4. Rest(t)'
  BY <1>1, <1>2, ControlKeepsRest DEF Commit
<1>5. /\ session[held[t]] \in Session /\ session[held[t]].txn = "open"
      /\ errors[t] = {} /\ NothingOf(t, committed)
      /\ AllOf(t, session[held[t]].pend)
      /\ <<t, at[t]>> \in Write
  <2>1. \A i \in Writes(t) : i < at[t]
    BY <1>1 DEF Writes, Statements, ScriptInv, TypeOK
  <2> QED
    BY <1>1, <2>1 DEF Transaction, Running, AllOf, WritesOf, ScriptInv, TypeOK, Write
<1>6. a.ses.pend = {} /\ a.kept \in {{}, session[held[t]].pend}
        /\ (a.ok => a.kept = session[held[t]].pend)
  BY <1>3, <1>5, CommitOutcome DEF Controlled
<1>7. \A d \in Clients : NothingOf(t, session'[d].pend)
  <2>1. \A d \in Clients : d # held[t] => NothingOf(t, session[d].pend)
    BY <1>1 DEF Transaction, Confined
  <2> QED
    BY <1>3, <1>6, <2>1 DEF Controlled, NothingOf
<1>8. WritesOf(t)' = WritesOf(t)
  BY <1>3 DEF Controlled, WritesOf, Writes, Statements
<1>9. /\ AllOf(t, committed)' \/ NothingOf(t, committed)'
      /\ a.ok => AllOf(t, committed)'
  BY <1>3, <1>5, <1>6, <1>8 DEF Controlled, AllOf, NothingOf
<1>10. errors'[t] = {}
  BY <1>3, <1>5 DEF Controlled
<1>11. \/ stage'[t] \in {"outerCommit", "answered"} /\ a.ok
       \/ stage'[t] \in {"unwind", "thrown"}
  BY <1>2, <1>3 DEF Controlled
<1> QED
  BY <1>4, <1>7, <1>9, <1>10, <1>11
     DEF Transaction, Confined, Fresh, Running, RollingBack, Settled, Reported

LEMMA RollbackKeepsTransaction ==
  ASSUME ScriptInv, NEW t \in atOnce, Plain(t), Rollback(t)
  PROVE  Rest(t)' /\ Transaction(t)'
<1>1. /\ t \in Scripts /\ stage[t] = "rollback" /\ stage[t] \in Holding
      /\ held[t] \in Clients /\ Transaction(t) /\ engine # "sqlite"
  BY DEF ScriptInv, HeldInside, TypeOK, Rollback, Holding
<1>2. /\ Returned \in {"outerCommit", "answered"} /\ Failed \in {"unwind", "thrown"}
      /\ Returned \in Holding \cup {"answered", "thrown"}
      /\ Failed \in Holding \cup {"answered", "thrown"}
  BY DEF Returned, Failed, Holding
<1>3. PICK a \in Outcome : Controlled(t, "rollback", a, IF a.ok THEN Returned ELSE Failed)
  BY <1>1, <1>2, ControlKeepsRest DEF Rollback
<1>4. Rest(t)'
  BY <1>1, <1>2, ControlKeepsRest DEF Rollback
<1>5. /\ session[held[t]] \in Session /\ Fits(session[held[t]]) /\ <<t, at[t]>> \in Write
      /\ errors[t] # {} /\ NothingOf(t, committed)
  BY <1>1 DEF Transaction, RollingBack, ScriptInv, TypeOK, SessionsFit, Fits, Write
<1>6. a.kept = {} /\ a.ses.pend = {}
  BY <1>1, <1>3, <1>5, RollbackOutcome DEF Controlled, Fits
<1>7. \A d \in Clients : NothingOf(t, session'[d].pend)
  <2>1. \A d \in Clients : d # held[t] => NothingOf(t, session[d].pend)
    BY <1>1 DEF Transaction, Confined
  <2> QED
    BY <1>3, <1>6, <2>1 DEF Controlled, NothingOf
<1>8. NothingOf(t, committed)' /\ errors'[t] # {}
  BY <1>3, <1>5, <1>6 DEF Controlled, NothingOf
<1>9. stage'[t] \in {"outerCommit", "answered", "unwind", "thrown"}
  BY <1>2, <1>3 DEF Controlled
<1> QED
  BY <1>4, <1>7, <1>8, <1>9
     DEF Transaction, Confined, Fresh, Running, RollingBack, Settled, Reported

LEMMA SettledStaysSettled ==
  ASSUME ScriptInv, NEW t \in atOnce, Plain(t), OuterCommit(t) \/ Unwind(t)
  PROVE  Rest(t)' /\ Transaction(t)'
<1>1. /\ t \in Scripts /\ stage[t] \in {"outerCommit", "unwind"} /\ stage[t] \in Holding
      /\ held[t] \in Clients /\ Transaction(t)
  BY DEF ScriptInv, HeldInside, TypeOK, OuterCommit, Unwind, Holding
<1>2. /\ "answered" \in Holding \cup {"answered", "thrown"}
      /\ "unwind" \in Holding \cup {"answered", "thrown"}
      /\ "thrown" \in Holding \cup {"answered", "thrown"}
  BY DEF Holding
<1>3. /\ Rest(t)'
      /\ \E k \in {"commit", "rollback"} : \E a \in Outcome : \E st \in {"answered", "unwind", "thrown"} :
           Controlled(t, k, a, st) /\ (st = "answered" => stage[t] = "outerCommit")
  <2>1. CASE OuterCommit(t)
    <3>1. Rest(t)' /\ \E a \in Outcome : Controlled(t, "commit", a, IF a.ok THEN "answered" ELSE "unwind")
      BY <1>1, <1>2, <2>1, ControlKeepsRest DEF OuterCommit
    <3> QED
      BY <2>1, <3>1 DEF OuterCommit
  <2>2. CASE Unwind(t)
    <3>1. Rest(t)' /\ \E a \in Outcome : Controlled(t, "rollback", a, IF a.ok THEN "thrown" ELSE "thrown")
      BY <1>1, <1>2, <2>2, ControlKeepsRest DEF Unwind
    <3> QED
      BY <3>1
  <2> QED
    BY <2>1, <2>2
<1>4. PICK k \in {"commit", "rollback"}, a \in Outcome, st \in {"answered", "unwind", "thrown"} :
        Controlled(t, k, a, st) /\ (st = "answered" => stage[t] = "outerCommit")
  BY <1>3
<1>5. \A d \in Clients : NothingOf(t, session[d].pend)
  BY <1>1 DEF Transaction, Settled
<1>6. /\ \A d \in Clients : NothingOf(t, session'[d].pend)
      /\ NothingOf(t, a.kept)
  BY <1>1, <1>4, <1>5 DEF Controlled, NothingOf
<1>7. WritesOf(t)' = WritesOf(t) /\ errors'[t] = errors[t]
  BY <1>4 DEF Controlled, WritesOf, Writes, Statements
<1>8. /\ NothingOf(t, committed) => NothingOf(t, committed)'
      /\ AllOf(t, committed) => AllOf(t, committed)'
  BY <1>4, <1>6, <1>7 DEF Controlled, AllOf, NothingOf
<1>9. Settled(t)'
  BY <1>1, <1>6, <1>8 DEF Transaction, Settled
<1>10. Reported(t)'
  BY <1>1, <1>4, <1>7, <1>8 DEF Controlled, Transaction, Reported
<1>11. stage'[t] \in {"answered", "unwind", "thrown"}
  BY <1>4 DEF Controlled
<1> QED
  BY <1>3, <1>6, <1>9, <1>10, <1>11
     DEF Transaction, Confined, Fresh, Running, RollingBack

\* A statement of a script that runs them one by one.
LEMMA EachKeepsInv ==
  ASSUME ScriptInv, NEW t \in Scripts, Each(t)
  PROVE  ScriptInv'
<1>1. /\ t \notin atOnce /\ TypeOK /\ at[t] <= Len(text[t]) /\ Len(text[t]) \in Nat
      /\ UNCHANGED <<engine, scripts, stage, held>> /\ held[t] = NoClient
      /\ stage[t] = "each" /\ at[t] \in Nat \ {0}
  BY TextsAssumption DEF ScriptInv, HeldInside, TypeOK, Each, Holding
<1> DEFINE w == <<t, at[t]>>
<1>a. PICK c \in Free : \E a \in Outcomes(session[c], text[t][at[t]], w) :
        /\ session' = [session EXCEPT ![c] = Renewed(a.ses)]
        /\ committed' = committed \cup a.kept
        /\ Result(t, a)
  BY DEF Each
<1>2. PICK a \in Outcomes(session[c], text[t][at[t]], w) :
        /\ session' = [session EXCEPT ![c] = Renewed(a.ses)]
        /\ committed' = committed \cup a.kept
        /\ Result(t, a)
  BY <1>a
<1>3. c \in Clients /\ text[t][at[t]] \in Kind /\ w \in Write
  BY <1>1, ClientsAssumption, TextsAssumption DEF Free, TypeOK, Write
<1>4. session[c] \in Session /\ Fits(session[c])
  BY <1>1, <1>3 DEF TypeOK, ScriptInv, SessionsFit, Fits
<1>5. /\ a \in Outcome /\ Fits(a.ses)
      /\ a.kept \subseteq session[c].pend \cup {w}
      /\ a.ses.pend \subseteq session[c].pend \cup {w}
  BY <1>2, <1>3, <1>4, OutcomesBounded, OutcomesFit
<1> DEFINE v == Renewed(a.ses)
<1>6. v \in Session /\ Fits(v) /\ v.pend \subseteq session[c].pend \cup {w} /\ a.kept \in SUBSET Write
  BY <1>5, RenewedFits DEF Outcome
<1>7. /\ at' \in [Scripts -> Nat \ {0}]
      /\ \A s \in Scripts : at'[s] <= Len(text'[s]) + 1
      /\ \A s \in Scripts : errors'[s] \subseteq 1..(at'[s] - 1)
      /\ errors' \in [Scripts -> SUBSET Nat]
      /\ \A s \in Scripts : s # t => at'[s] = at[s] /\ errors'[s] = errors[s]
  BY <1>1, <1>2, ResultTyped DEF scripts
<1>8. TypeOK'
  <2>1. session' \in [Clients -> Session] /\ committed' \subseteq Write
    BY <1>1, <1>2, <1>6 DEF TypeOK
  <2> QED
    BY <1>1, <1>7, <2>1 DEF TypeOK, scripts
<1>9. HeldInside' /\ HeldAlone'
  BY <1>1 DEF ScriptInv, HeldInside, HeldAlone, scripts
<1>10. SessionsFit'
  <2>1. \A d \in Clients : session'[d] = IF d = c THEN v ELSE session[d]
    BY <1>1, <1>2 DEF TypeOK
  <2>2. \A d \in Clients : Fits(session'[d])
    BY <1>6, <2>1 DEF ScriptInv, SessionsFit, Fits
  <2>3. engine' = engine
    BY <1>1
  <2> QED
    BY <2>2, <2>3 DEF SessionsFit, Fits
<1>11. WrittenInTurn'
  <2>1. at' = [at EXCEPT ![t] = @ + 1] /\ WrittenInTurn
    BY <1>2 DEF Result, ScriptInv
  <2>2. session' = [session EXCEPT ![c] = v] /\ committed' = committed \cup a.kept
    BY <1>2
  <2>3. {w} \in SUBSET {<<t, at[t]>>}
    OBVIOUS
  <2> HIDE DEF v, w
  <2> QED
    BY <1>1, <1>3, <1>5, <1>6, <2>1, <2>2, <2>3, InTurn
<1>12. ASSUME NEW s \in atOnce', Plain(s)' PROVE Transaction(s)'
  <2>1. s \in atOnce /\ s \in Scripts /\ Plain(s) /\ s # t
    BY <1>1, <1>12 DEF scripts, Plain, Statements, TypeOK
  <2>2. /\ stage'[s] = stage[s] /\ at'[s] = at[s]
        /\ errors'[s] = errors[s] /\ held'[s] = held[s]
    BY <1>1, <1>7, <2>1
  <2>3. UNCHANGED <<engine, text, atOnce>>
    BY <1>1 DEF scripts
  <2>4. /\ a.kept \subseteq session[c].pend \cup {<<t, at[t]>>}
        /\ v.pend \subseteq session[c].pend \cup {<<t, at[t]>>}
        /\ session' = [session EXCEPT ![c] = v] /\ committed' = committed \cup a.kept
        /\ c \in Free
    BY <1>2, <1>5, <1>6
  <2> HIDE DEF v, w
  <2> QED
    BY <1>3, <1>6, <2>1, <2>2, <2>3, <2>4, OthersUntouched
<1> QED
  BY <1>8, <1>9, <1>10, <1>11, <1>12 DEF ScriptInv

\* Whatever the script contains, its commands leave the others alone.
LEMMA CommandKeepsRest ==
  ASSUME ScriptInv, NEW t \in atOnce,
         OuterBegin(t) \/ Begin(t) \/ Statement(t) \/ Commit(t) \/ Rollback(t)
           \/ OuterCommit(t) \/ Unwind(t)
  PROVE  Rest(t)'
<1>1. t \in Scripts /\ stage[t] \in Holding
  BY DEF ScriptInv, TypeOK, Holding, OuterBegin, Begin, Statement, Commit, Rollback,
     OuterCommit, Unwind
<1> DEFINE S == Holding \cup {"answered", "thrown"}
<1>2. /\ Returned \in S /\ Failed \in S
      /\ {"begin", "run", "rollback", "unwind", "answered", "thrown"} \subseteq S
  BY DEF Returned, Failed, Holding
<1>3. ASSUME NEW k \in {"begin", "commit", "rollback"}, NEW yes \in S, NEW no \in S,
             Control(t, k, yes, no)
      PROVE  Rest(t)'
  BY <1>1, <1>3, ControlKeepsRest
<1>4. CASE Statement(t)
  <2>1. PICK a \in Outcomes(session[held[t]], text[t][at[t]], <<t, at[t]>>) :
          Step(t, a, IF a.ok THEN "run" ELSE "rollback") /\ Result(t, a)
    BY <1>4 DEF Statement
  <2>2. UNCHANGED <<engine, scripts>> /\ at[t] <= Len(text[t])
    BY <1>4 DEF Statement
  <2>3. text[t][at[t]] \in Kind
    BY <1>1, <2>2, TextsAssumption DEF ScriptInv, TypeOK
  <2> DEFINE st == IF a.ok THEN "run" ELSE "rollback"
  <2>4. st \in S
    BY <1>2
  <2>5. Step(t, a, st)
    BY <2>1
  <2> HIDE DEF st
  <2> QED
    BY <1>1, <2>1, <2>2, <2>3, <2>4, <2>5, StepKeepsRest
<1>5. CASE OuterBegin(t)
  BY <1>2, <1>3, <1>5 DEF OuterBegin
<1>6. CASE Begin(t)
  BY <1>2, <1>3, <1>6 DEF Begin
<1>7. CASE Commit(t)
  BY <1>2, <1>3, <1>7 DEF Commit
<1>8. CASE Rollback(t)
  BY <1>2, <1>3, <1>8 DEF Rollback
<1>9. CASE OuterCommit(t)
  BY <1>2, <1>3, <1>9 DEF OuterCommit
<1>10. CASE Unwind(t)
  BY <1>2, <1>3, <1>10 DEF Unwind
<1> QED
  BY <1>4, <1>5, <1>6, <1>7, <1>8, <1>9, <1>10

\* Steps that send no command and leave no client in anybody else's hands.
LEMMA MovesKeepInv ==
  ASSUME ScriptInv, NEW t \in Scripts,
         Admit(t) \/ EachEnds(t) \/ SqliteThrows(t) \/ Connect(t)
  PROVE  ScriptInv'
<1>1. /\ TypeOK /\ UNCHANGED <<engine, scripts, at, errors, session, committed>>
      /\ stage[t] \in {"new", "each", "connect"} /\ held[t] = NoClient
      /\ stage[t] = "each" => t \notin atOnce
      /\ stage[t] = "connect" => t \in atOnce
      /\ \A s \in Scripts : s # t => stage'[s] = stage[s] /\ held'[s] = held[s]
  BY DEF ScriptInv, HeldInside, TypeOK, Holding, Admit, EachEnds, SqliteThrows, Connect
<1>2. \/ /\ stage'[t] \in {"refused", "connect", "each", "answered", "thrown"}
         /\ held' = held
         /\ stage'[t] = "answered" => t \notin atOnce
         /\ stage'[t] = "each" => t \notin atOnce
         /\ stage'[t] \in {"connect", "thrown"} => t \in atOnce
      \/ /\ stage'[t] \in {"outer", "begin"} /\ t \in atOnce
         /\ held'[t] \in Clients /\ engine # "sqlite"
         /\ \A s \in Scripts : held[s] # held'[t]
  BY <1>1 DEF Admit, EachEnds, SqliteThrows, Connect, Free, TypeOK
<1>3. TypeOK'
  <2>1. stage' \in [Scripts -> Stage]
    BY <1>1 DEF TypeOK, Stage, Holding, Ended, Admit, EachEnds, SqliteThrows, Connect
  <2>2. held' \in [Scripts -> Clients \cup {NoClient}]
    BY <1>1 DEF TypeOK, Free, Admit, EachEnds, SqliteThrows, Connect
  <2> QED
    BY <1>1, <2>1, <2>2 DEF TypeOK, scripts
<1>4. HeldInside'
  BY <1>1, <1>2, ClientsAssumption DEF ScriptInv, HeldInside, Holding, scripts
<1>5. HeldAlone'
  BY <1>1, <1>2 DEF ScriptInv, HeldAlone
<1>6. SessionsFit' /\ WrittenInTurn'
  BY <1>1 DEF ScriptInv, SessionsFit, WrittenInTurn
<1>7. ASSUME NEW s \in atOnce', Plain(s)' PROVE Transaction(s)'
  <2>1. s \in atOnce /\ s \in Scripts /\ Plain(s) /\ Transaction(s)
    BY <1>1, <1>7 DEF ScriptInv, scripts, Plain, Statements, TypeOK
  <2>2. CASE s # t
    BY <1>1, <2>1, <2>2 DEF Transaction, Confined, Fresh, Running, RollingBack, Settled,
       Reported, AllOf, WritesOf, Writes, Statements, scripts
  <2>3. CASE s = t
    <3>1. at[t] = 1 /\ errors[t] = {}
      BY <1>1, <2>1, <2>3 DEF Transaction, Fresh
    <3>2. stage'[t] \in {"connect", "refused", "outer", "begin", "thrown"}
      BY <1>2, <2>1, <2>3
    <3>3. NothingOf(t, committed) /\ \A d \in Clients : NothingOf(t, session[d].pend)
      BY <3>1, NothingYet DEF ScriptInv
    <3> QED
      BY <1>1, <2>3, <3>1, <3>2, <3>3 DEF Transaction, Confined, Fresh, Running,
         RollingBack, Settled, Reported
  <2> QED
    BY <2>2, <2>3
<1> QED
  BY <1>3, <1>4, <1>5, <1>6, <1>7 DEF ScriptInv

LEMMA SwitchKeepsInv ==
  ASSUME ScriptInv, SwitchReadOnly \/ UNCHANGED vars
  PROVE  ScriptInv'
<1>1. /\ UNCHANGED <<engine, text, atOnce, stage, at, errors, held, session, committed>>
      /\ readOnly' \in BOOLEAN
  BY DEF SwitchReadOnly, vars, scripts, ScriptInv, TypeOK
<1>2. TypeOK' /\ HeldInside' /\ HeldAlone' /\ SessionsFit' /\ WrittenInTurn'
  BY <1>1 DEF ScriptInv, TypeOK, HeldInside, HeldAlone, SessionsFit, WrittenInTurn
<1>3. ASSUME NEW s \in atOnce', Plain(s)' PROVE Transaction(s)'
  <2>1. s \in atOnce /\ Plain(s) /\ Transaction(s)
    BY <1>1, <1>3 DEF ScriptInv, Plain, Statements
  <2> QED
    BY <1>1, <2>1 DEF Transaction, Confined, Fresh, Running, RollingBack, Settled,
       Reported, AllOf, WritesOf, Writes, Statements
<1> QED
  BY <1>2, <1>3 DEF ScriptInv

-----------------------------------------------------------------------------
(* The theorems. *)

LEMMA InitInv == Init => ScriptInv
<1> SUFFICES ASSUME Init PROVE ScriptInv
  OBVIOUS
<1>1. TypeOK
  <2>1. text \in [Scripts -> Texts] /\ at = [s \in Scripts |-> 1]
          /\ errors = [s \in Scripts |-> {}]
    BY DEF Init
  <2>2. ASSUME NEW s \in Scripts
        PROVE  at[s] <= Len(text[s]) + 1 /\ errors[s] \subseteq 1..(at[s] - 1)
    <3>1. text[s] \in Seq(Kind)
      BY <2>1, TextsAssumption
    <3>2. Len(text[s]) \in Nat
      BY <3>1
    <3>3. at[s] = 1 /\ errors[s] = {}
      BY <2>1
    <3> QED
      BY <3>2, <3>3
  <2>3. session \in [Clients -> Session]
    BY SessionForms DEF Init
  <2>4. at \in [Scripts -> Nat \ {0}] /\ errors \in [Scripts -> SUBSET Nat]
    BY DEF Init
  <2> QED
    BY <2>2, <2>3, <2>4 DEF Init, TypeOK, Stage
<1>2. HeldInside /\ HeldAlone
  BY DEF Init, HeldInside, HeldAlone, Holding
<1>3. SessionsFit /\ WrittenInTurn
  BY SessionForms DEF Init, SessionsFit, WrittenInTurn
<1>4. \A s \in atOnce : Transaction(s)
  <2>1. atOnce \subseteq Scripts
    BY DEF Init
  <2> QED
    BY <1>3, <2>1, NothingWritten DEF Init
<1> QED
  BY <1>1, <1>2, <1>3, <1>4 DEF ScriptInv

\* ScriptInv is inductive: who holds a client holds it alone, what a
\* transactional script has written so far is pending on that client only, and
\* where it is in the code says what has become of its writes.
THEOREM ScriptInvariant == Spec => []ScriptInv
<1>1. ScriptInv /\ [Next]_vars => ScriptInv'
  <2> SUFFICES ASSUME ScriptInv, [Next]_vars PROVE ScriptInv'
    OBVIOUS
  <2>1. CASE SwitchReadOnly \/ UNCHANGED vars
    BY <2>1, SwitchKeepsInv
  <2>2. ASSUME NEW t \in Scripts, Execute(t) PROVE ScriptInv'
    <3>1. CASE Admit(t) \/ EachEnds(t) \/ SqliteThrows(t) \/ Connect(t)
      BY <3>1, MovesKeepInv
    <3>2. CASE Each(t)
      BY <3>2, EachKeepsInv
    <3>3. ASSUME OuterBegin(t) \/ Begin(t) \/ Statement(t) \/ Commit(t) \/ Rollback(t)
                   \/ OuterCommit(t) \/ Unwind(t)
          PROVE  ScriptInv'
      <4>1. t \in atOnce
        BY <3>3 DEF ScriptInv, HeldInside, Holding, OuterBegin, Begin, Statement, Commit,
           Rollback, OuterCommit, Unwind
      <4>2. Rest(t)'
        BY <3>3, <4>1, CommandKeepsRest
      <4>3. Plain(t) => Transaction(t)'
        BY <3>3, <4>1, BeginKeepsTransaction, StatementKeepsTransaction,
           CommitKeepsTransaction, RollbackKeepsTransaction, SettledStaysSettled
      <4>4. Plain(t)' => Plain(t)
        <5>1. UNCHANGED <<text, engine>>
          BY <3>3 DEF OuterBegin, Begin, Statement, Commit, Rollback, OuterCommit, Unwind,
             Control, scripts
        <5> QED
          BY <5>1 DEF Plain, Statements
      <4> QED
        BY <4>2, <4>3, <4>4 DEF Rest, ScriptInv
    <3> QED
      BY <2>2, <3>1, <3>2, <3>3 DEF Execute
  <2> QED
    BY <2>1, <2>2 DEF Next
<1> QED
  BY InitInv, <1>1, PTL DEF Spec

\* Type correctness: every result belongs to a statement of its script, and no
\* statement runs after the last one.
THEOREM ScriptTypeCorrect == Spec => []TypeOK
<1>1. ScriptInv => TypeOK
  BY DEF ScriptInv
<1> QED
  BY <1>1, ScriptInvariant, PTL

\* A transactional script that leaves transactions to the service is committed
\* as a whole or not at all, on every engine and whatever its client was used
\* for before.
THEOREM ScriptsAreAtomic == Spec => []AllOrNothing
<1>1. ScriptInv => AllOrNothing
  <2> SUFFICES ASSUME ScriptInv, NEW s \in atOnce, Plain(s)
               PROVE  Kept(s) \in {{}, WritesOf(s)}
    BY DEF AllOrNothing
  <2>1. Transaction(s) /\ s \in Scripts /\ stage[s] \in Stage /\ stage[s] # "each"
    BY DEF ScriptInv, TypeOK, HeldInside
  <2>2. NothingOf(s, committed) => Kept(s) = {}
    BY DEF NothingOf, Kept, WritesOf, Writes, Statements
  <2>3. AllOf(s, committed) => Kept(s) = WritesOf(s)
    BY DEF AllOf, Kept
  <2>4. NothingOf(s, committed) \/ AllOf(s, committed)
    <3>1. CASE stage[s] \in {"new", "connect", "refused", "outer", "begin"}
      BY <2>1, <3>1, NothingYet DEF Transaction, Fresh, ScriptInv
    <3>2. CASE stage[s] \in {"run", "rollback"}
      BY <2>1, <3>2 DEF Transaction, Running, RollingBack
    <3>3. CASE stage[s] \in {"outerCommit", "unwind", "answered", "thrown"}
      BY <2>1, <3>3 DEF Transaction, Settled
    <3> QED
      BY <2>1, <3>1, <3>2, <3>3 DEF Stage, Holding, Ended
  <2> QED
    BY <2>2, <2>3, <2>4
<1> QED
  BY <1>1, ScriptInvariant, PTL

\* A write of such a script that the audit trail calls a failure is neither
\* committed nor pending on any client.
THEOREM AuditedFailuresAreVoid == Spec => []FailureLeavesNothing
<1>1. ScriptInv => FailureLeavesNothing
  <2> SUFFICES ASSUME ScriptInv, NEW s \in atOnce, Plain(s), NEW i \in AuditedFailure(s)
               PROVE  <<s, i>> \notin committed \cup Pending(s)
    BY DEF FailureLeavesNothing
  <2>1. Transaction(s) /\ s \in Scripts /\ WrittenInTurn
    BY DEF ScriptInv, TypeOK
  <2>2. i \in Writes(s) /\ Len(text[s]) \in Nat
    BY <2>1, TextsAssumption DEF AuditedFailure, Attempted, ScriptInv, TypeOK
  <2>3. i \in Nat \ {0}
    BY <2>2 DEF Writes, Statements
  <2>4. NothingOf(s, committed) /\ \A c \in Clients : NothingOf(s, session[c].pend)
    <3>1. CASE stage[s] = "refused"
      BY <2>1, <3>1, NothingYet DEF Transaction, Fresh
    <3>2. CASE stage[s] = "answered" /\ errors[s] # {}
      BY <2>1, <3>2 DEF Transaction, Settled, Reported
    <3>3. stage[s] = "refused" \/ (stage[s] = "answered" /\ errors[s] # {})
      BY <2>1 DEF AuditedFailure, RolledBack
    <3> QED
      BY <3>1, <3>2, <3>3
  <2> QED
    BY <2>3, <2>4 DEF NothingOf, Pending
<1> QED
  BY <1>1, ScriptInvariant, PTL

-----------------------------------------------------------------------------
(* Statements run one by one, next to scripts that leave transactions to   *)
(* the service.                                                            *)

\* withSession gives its client back outside of any transaction: after a
\* COMMIT, after a ROLLBACK, and after a BEGIN that failed on MySQL.
LEMMA EndsClean ==
  ASSUME NEW v \in Session, Fits(v), engine # "sqlite", NEW w \in Write,
         NEW k \in {"begin", "commit", "rollback"}, NEW a \in Outcomes(v, k, w),
         k = "begin" => engine = "mysql" /\ ~a.ok
  PROVE  Renewed(a.ses) = Clean
<1>0. Renewed(Clean) = Clean /\ Renewed(LostSession) = Clean
  BY SessionForms DEF Renewed
<1>1. CASE v.txn = "lost"
  BY <1>1 DEF Outcomes, Error, Renewed
<1>2. CASE a \in Loses(v, k, w)
  <2>1. PICK K : a = [ok |-> FALSE, ses |-> LostSession, kept |-> K]
    BY <1>2 DEF Loses
  <2> QED
    BY <2>1, <1>0
<1>3. CASE k = "commit" /\ a \in Answers(v, k, w)
  <2>1. a \in Commits(v)
    BY <1>3 DEF Answers
  <2>2. a = Done(Clean, {}) \/ a = Done(Clean, v.pend) \/ a = Error(Clean)
    BY <2>1 DEF Commits
  <2> QED
    BY <2>2, <1>0 DEF Done, Error
<1>4. CASE k = "rollback" /\ a \in Answers(v, k, w)
  <2>1. a \in RollsBack(v)
    BY <1>4 DEF Answers
  <2>2. a = Done(Clean, {})
    BY <2>1 DEF RollsBack
  <2> QED
    BY <2>2, <1>0 DEF Done
<1>5. CASE k = "begin" /\ a \in Answers(v, k, w)
  <2>1. a \in Begins(v)
    BY <1>5 DEF Answers
  <2>2. a = Done(Open({}), v.pend)
    BY <2>1, <1>5 DEF Begins, Fits
  <2> QED
    BY <2>2, <1>5 DEF Done
<1> QED
  BY <1>1, <1>2, <1>3, <1>4, <1>5 DEF Outcomes

\* On a clean session every statement is a transaction of its own.
LEMMA AloneOutcome ==
  ASSUME NEW k \in {"read", "write", "ddl"}, NEW w \in Write,
         k = "ddl" => engine # "mysql",
         NEW a \in Outcomes(Clean, k, w)
  PROVE  /\ Renewed(a.ses) = Clean
         /\ a.ok /\ IsWrite(k) => w \in a.kept
<1>0. Renewed(Clean) = Clean /\ Renewed(LostSession) = Clean
  BY SessionForms DEF Renewed
<1>1. CASE a \in Loses(Clean, k, w)
  <2>1. PICK K : a = [ok |-> FALSE, ses |-> LostSession, kept |-> K]
    BY <1>1 DEF Loses
  <2> QED
    BY <2>1, <1>0
<1>2. CASE a \in Answers(Clean, k, w)
  <2>1. a \in Runs(Clean, IF k = "read" THEN {} ELSE {w})
    BY <1>2 DEF Answers
  <2>2. a = Done(Clean, IF k = "read" THEN {} ELSE {w}) \/ a = Error(Clean)
    BY <2>1, SessionForms DEF Runs, Takes, Breaks
  <2> QED
    BY <2>2, <1>0 DEF Done, Error, IsWrite
<1> QED
  BY <1>1, <1>2, SessionForms DEF Outcomes

\* A command of a transactional script, as others see it.
LEMMA CommandSeenFromOutside ==
  ASSUME ScriptInv, NEW t \in atOnce,
         OuterBegin(t) \/ Begin(t) \/ Statement(t) \/ Commit(t) \/ Rollback(t)
           \/ OuterCommit(t) \/ Unwind(t)
  PROVE  /\ t \in Scripts /\ held[t] \in Clients /\ engine # "sqlite"
         /\ \A d \in Clients : d # held[t] => session'[d] = session[d]
         /\ \A s \in Scripts : s # t =>
              at'[s] = at[s] /\ errors'[s] = errors[s] /\ held'[s] = held[s]
         /\ committed \subseteq committed'
         /\ held'[t] = held[t] \/ session'[held[t]] = Clean
         /\ UNCHANGED <<engine, text, atOnce>>
<1>1. /\ t \in Scripts /\ stage[t] \in Holding /\ held[t] \in Clients /\ engine # "sqlite"
      /\ TypeOK
  BY DEF ScriptInv, HeldInside, TypeOK, Holding, OuterBegin, Begin, Statement, Commit,
     Rollback, OuterCommit, Unwind
<1>2. session[held[t]] \in Session /\ Fits(session[held[t]]) /\ <<t, at[t]>> \in Write
  BY <1>1 DEF ScriptInv, SessionsFit, Fits, TypeOK, Write
<1>3. CASE Statement(t)
  <2>1. PICK a \in Outcomes(session[held[t]], text[t][at[t]], <<t, at[t]>>) :
          Step(t, a, IF a.ok THEN "run" ELSE "rollback") /\ Result(t, a)
    BY <1>3 DEF Statement
  <2>2. UNCHANGED <<engine, text, atOnce>> /\ at[t] <= Len(text[t])
    BY <1>3 DEF Statement, scripts
  <2>3. /\ held' = held /\ committed \subseteq committed'
        /\ session' = [session EXCEPT ![held[t]] = a.ses]
    BY <2>1 DEF Step, Ended
  <2>4. \A s \in Scripts : s # t => at'[s] = at[s] /\ errors'[s] = errors[s]
    BY <1>1, <2>1, <2>2, ResultTyped
  <2> QED
    BY <1>1, <2>2, <2>3, <2>4 DEF TypeOK
<1>4. ASSUME NEW k \in {"begin", "commit", "rollback"}, NEW yes, NEW no, Control(t, k, yes, no),
             k = "begin" => yes \notin Ended /\ (no \in Ended => engine = "mysql")
      PROVE  /\ \A d \in Clients : d # held[t] => session'[d] = session[d]
             /\ \A s \in Scripts : s # t =>
                  at'[s] = at[s] /\ errors'[s] = errors[s] /\ held'[s] = held[s]
             /\ committed \subseteq committed'
             /\ held'[t] = held[t] \/ session'[held[t]] = Clean
             /\ UNCHANGED <<engine, text, atOnce>>
  <2>1. PICK a \in Outcomes(session[held[t]], k, <<t, at[t]>>) :
          Step(t, a, IF a.ok THEN yes ELSE no)
    BY <1>4 DEF Control
  <2>2. UNCHANGED <<engine, text, atOnce, at, errors>>
    BY <1>4 DEF Control, scripts
  <2> DEFINE st == IF a.ok THEN yes ELSE no
  <2>3. /\ held' = IF st \in Ended THEN [held EXCEPT ![t] = NoClient] ELSE held
        /\ session' = [session EXCEPT ![held[t]] = IF st \in Ended THEN Renewed(a.ses) ELSE a.ses]
        /\ committed \subseteq committed'
    BY <2>1 DEF Step
  <2>4. st \in Ended => Renewed(a.ses) = Clean
    <3>1. ASSUME st \in Ended, k = "begin" PROVE engine = "mysql" /\ ~a.ok
      BY <1>4, <3>1
    <3> QED
      BY <1>1, <1>2, <2>1, <3>1, EndsClean
  <2> QED
    BY <1>1, <2>2, <2>3, <2>4 DEF TypeOK
<1>5. CASE OuterBegin(t)
  <2>1. "begin" \notin Ended /\ "unwind" \notin Ended
    BY DEF Ended
  <2> QED
    BY <1>1, <1>4, <1>5, <2>1 DEF OuterBegin
<1>6. CASE Begin(t)
  <2>1. "run" \notin Ended /\ (Failed \in Ended => engine = "mysql")
    BY <1>1 DEF Failed, Ended, TypeOK
  <2> QED
    BY <1>1, <1>4, <1>6, <2>1 DEF Begin
<1>7. CASE Commit(t)
  BY <1>1, <1>4, <1>7 DEF Commit
<1>8. CASE Rollback(t)
  BY <1>1, <1>4, <1>8 DEF Rollback
<1>9. CASE OuterCommit(t)
  BY <1>1, <1>4, <1>9 DEF OuterCommit
<1>10. CASE Unwind(t)
  BY <1>1, <1>4, <1>10 DEF Unwind
<1> QED
  BY <1>1, <1>3, <1>5, <1>6, <1>7, <1>8, <1>9, <1>10

LEMMA EachInvStep ==
  ASSUME ScriptInv, EachInv, [Next]_vars
  PROVE  EachInv'
<1> DEFINE AllPlain == \A s \in Scripts : Plain(s)
           Durable == \A s \in Scripts \ atOnce :
                        \A i \in Attempted(s) : i \notin errors[s] => <<s, i>> \in committed
<1>1. UNCHANGED <<engine, text, atOnce>>
  BY DEF Next, vars, scripts, SwitchReadOnly, Execute, Admit, Each, EachEnds, Connect,
     SqliteThrows, OuterBegin, Begin, Statement, Commit, Rollback, OuterCommit, Unwind, Control
<1>2. SUFFICES ASSUME AllPlain, \A c \in Free : session[c] = Clean, Durable
               PROVE  (\A c \in Free : session[c] = Clean)' /\ Durable'
  <2>1. AllPlain' => AllPlain
    BY <1>1 DEF Plain, Statements
  <2> QED
    BY <1>2, <2>1 DEF EachInv
<1>3. TypeOK
  BY DEF ScriptInv
<1>4. ASSUME UNCHANGED <<session, held, at, errors, committed>>
      PROVE  (\A c \in Free : session[c] = Clean)' /\ Durable'
  BY <1>1, <1>2, <1>4 DEF Free, Attempted, Writes, Statements
<1>5. CASE SwitchReadOnly \/ UNCHANGED vars
  BY <1>4, <1>5 DEF SwitchReadOnly, vars
<1>6. ASSUME NEW t \in Scripts, Admit(t) \/ EachEnds(t) \/ SqliteThrows(t)
      PROVE  (\A c \in Free : session[c] = Clean)' /\ Durable'
  BY <1>4, <1>6 DEF Admit, EachEnds, SqliteThrows
<1>7. ASSUME NEW t \in Scripts, Connect(t)
      PROVE  (\A c \in Free : session[c] = Clean)' /\ Durable'
  <2>1. /\ UNCHANGED <<session, at, errors, committed>> /\ engine # "sqlite"
        /\ \E c \in Free : held' = [held EXCEPT ![t] = c]
    BY <1>7 DEF Connect
  <2>2. held[t] = NoClient
    BY <1>7 DEF Connect, ScriptInv, HeldInside, Holding
  <2>3. \A s \in Scripts : held[s] # NoClient => held'[s] = held[s]
    BY <1>3, <2>1, <2>2 DEF TypeOK
  <2>4. Free' \subseteq Free
    BY <1>1, <2>1, <2>3, ClientsAssumption DEF Free
  <2> QED
    BY <1>1, <1>2, <2>1, <2>4 DEF Attempted, Writes, Statements
<1>8. ASSUME NEW t \in Scripts, Each(t)
      PROVE  (\A c \in Free : session[c] = Clean)' /\ Durable'
  <2>1. /\ t \notin atOnce /\ at[t] <= Len(text[t]) /\ Len(text[t]) \in Nat /\ held' = held
        /\ at[t] \in Statements(t) /\ at[t] \in Nat \ {0}
    BY <1>3, <1>8, TextsAssumption DEF Each, ScriptInv, HeldInside, TypeOK, Statements
  <2>2. PICK c \in Free : \E a \in Outcomes(session[c], text[t][at[t]], <<t, at[t]>>) :
          /\ session' = [session EXCEPT ![c] = Renewed(a.ses)]
          /\ committed' = committed \cup a.kept
          /\ Result(t, a)
    BY <1>8 DEF Each
  <2>3. PICK a \in Outcomes(session[c], text[t][at[t]], <<t, at[t]>>) :
          /\ session' = [session EXCEPT ![c] = Renewed(a.ses)]
          /\ committed' = committed \cup a.kept
          /\ Result(t, a)
    BY <2>2
  <2>4. /\ text[t][at[t]] \in {"read", "write", "ddl"}
        /\ text[t][at[t]] = "ddl" => engine # "mysql"
        /\ session[c] = Clean /\ c \in Clients /\ <<t, at[t]>> \in Write
    BY <1>2, <2>1, <2>2, ClientsAssumption DEF Plain, Free, Write
  <2>5. /\ Renewed(a.ses) = Clean
        /\ a.ok /\ IsWrite(text[t][at[t]]) => <<t, at[t]>> \in a.kept
    BY <2>3, <2>4, AloneOutcome
  <2>6. \A c2 \in Free' : session'[c2] = Clean
    BY <1>1, <1>2, <1>3, <2>1, <2>3, <2>5, ClientsAssumption DEF TypeOK, Free
  <2>7. /\ \A s \in Scripts : s # t => at'[s] = at[s] /\ errors'[s] = errors[s]
        /\ at'[t] = at[t] + 1
        /\ errors'[t] = IF a.ok THEN errors[t] ELSE errors[t] \cup {at[t]}
    BY <1>1, <1>3, <2>1, <2>3, ResultTyped
  <2>8. ASSUME NEW s \in Scripts \ atOnce, NEW i \in Writes(s), i < at'[s], i \notin errors'[s]
        PROVE  <<s, i>> \in committed'
    <3>1. CASE s = t /\ i = at[t]
      BY <2>3, <2>5, <2>7, <2>8, <3>1 DEF Writes
    <3>2. CASE ~(s = t /\ i = at[t])
      <4>1. i \in Nat
        BY <1>3, TextsAssumption, <2>8 DEF Writes, Statements, TypeOK
      <4>2. i < at[s] /\ i \notin errors[s]
        BY <2>1, <2>7, <2>8, <3>2, <4>1
      <4> QED
        BY <1>2, <2>3, <2>8, <4>2 DEF Attempted
    <3> QED
      BY <3>1, <3>2
  <2>9. Durable'
    BY <1>1, <2>8 DEF Attempted, Writes, Statements
  <2> QED
    BY <2>6, <2>9
<1>9. ASSUME NEW t \in Scripts,
             OuterBegin(t) \/ Begin(t) \/ Statement(t) \/ Commit(t) \/ Rollback(t)
               \/ OuterCommit(t) \/ Unwind(t)
      PROVE  (\A c \in Free : session[c] = Clean)' /\ Durable'
  <2>1. t \in atOnce
    BY <1>9 DEF ScriptInv, HeldInside, Holding, OuterBegin, Begin, Statement, Commit,
       Rollback, OuterCommit, Unwind
  <2>2. /\ held[t] \in Clients /\ engine # "sqlite"
        /\ \A d \in Clients : d # held[t] => session'[d] = session[d]
        /\ \A s \in Scripts : s # t =>
             at'[s] = at[s] /\ errors'[s] = errors[s] /\ held'[s] = held[s]
        /\ committed \subseteq committed'
        /\ held'[t] = held[t] \/ session'[held[t]] = Clean
    BY <1>9, <2>1, CommandSeenFromOutside
  <2>3. Durable'
    BY <1>1, <1>2, <2>1, <2>2 DEF Attempted, Writes, Statements
  <2>4. ASSUME NEW c \in Free' PROVE session'[c] = Clean
    <3>1. c \in Clients /\ \A s \in Scripts : held'[s] # c
      BY <1>1, <2>2, <2>4 DEF Free
    <3>2. CASE c = held[t]
      BY <2>2, <3>1, <3>2
    <3>3. CASE c # held[t]
      <4>1. c \in Free
        BY <2>2, <3>1, <3>3 DEF Free
      <4> QED
        BY <1>2, <2>2, <3>1, <3>3, <4>1
    <3> QED
      BY <3>2, <3>3
  <2> QED
    BY <2>3, <2>4
<1> QED
  BY <1>5, <1>6, <1>7, <1>8, <1>9 DEF Next, Execute

LEMMA EachInvariant == Spec => []EachInv
<1>1. Init => EachInv
  <2> SUFFICES ASSUME Init PROVE EachInv
    OBVIOUS
  <2>1. \A c \in Free : session[c] = Clean
    BY ClientsAssumption DEF Init, Free
  <2>2. ASSUME NEW s \in Scripts PROVE Attempted(s) = {}
    <3>1. text[s] \in Seq(Kind)
      BY TextsAssumption DEF Init
    <3>2. Len(text[s]) \in Nat
      BY <3>1
    <3>3. at[s] = 1
      BY DEF Init
    <3> QED
      BY <3>2, <3>3 DEF Attempted, Writes, Statements
  <2> QED
    BY <2>1, <2>2 DEF EachInv
<1>2. ScriptInv /\ EachInv /\ [Next]_vars => EachInv'
  BY EachInvStep
<1> QED
  BY <1>1, <1>2, ScriptInvariant, PTL DEF Spec

\* As long as no script opens transactions by itself, every client the pool
\* can hand out is outside of any transaction.
THEOREM ClientsComeBackClean == Spec => []FreeClientsAreClean
<1>1. EachInv => FreeClientsAreClean
  BY DEF EachInv, FreeClientsAreClean
<1> QED
  BY <1>1, EachInvariant, PTL

\* What the audit trail calls a success is durable: for a transactional script
\* that leaves transactions to the service always, for one run statement by
\* statement as long as all scripts do.
THEOREM AuditedSuccessesAreDurable == Spec => []SuccessIsDurable
<1>1. ScriptInv /\ EachInv => SuccessIsDurable
  <2> SUFFICES ASSUME ScriptInv, EachInv, NEW s \in Scripts, Plain(s),
                      s \in atOnce \/ \A t \in Scripts : Plain(t),
                      NEW i \in AuditedSuccess(s)
               PROVE  <<s, i>> \in committed
    BY DEF SuccessIsDurable
  <2>1. stage[s] = "answered" /\ ~RolledBack(s) /\ i \in Attempted(s) /\ i \notin errors[s]
    BY DEF AuditedSuccess
  <2>2. CASE s \in atOnce
    <3>1. Reported(s) /\ errors[s] = {}
      BY <2>1, <2>2 DEF ScriptInv, Transaction, RolledBack
    <3>2. AllOf(s, committed) /\ i \in Writes(s)
      BY <2>1, <3>1 DEF Reported, Attempted
    <3> QED
      BY <3>2 DEF AllOf, WritesOf
  <2>3. CASE s \notin atOnce
    BY <2>1, <2>3 DEF EachInv
  <2> QED
    BY <2>2, <2>3
<1> QED
  BY <1>1, ScriptInvariant, EachInvariant, PTL
=============================================================================
