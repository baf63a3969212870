---------------------------- MODULE ChatThreads ----------------------------
(***************************************************************************)
(* The AI chat panel (ChatPanel) and the conversations it is kept in       *)
(* (ConversationService): turns that stream, are stopped or fail, finished *)
(* exchanges appended to a conversation, new chats and loaded ones, read   *)
(* queries whose results are fed back, and the connection being switched   *)
(* under the panel, which stays mounted.                                   *)
(*                                                                         *)
(* An exchange - a user message and its answer - is the number of its      *)
(* turn.  A conversation is named by the turn that created it, the one     *)
(* there is at the start by 0.  Refs and the states that mirror them are   *)
(* one variable.                                                           *)
(***************************************************************************)
EXTENDS Naturals, Sequences, FiniteSets

CONSTANTS
  Conns,
  FirstConn,     \* the connection chosen at the start
  MaxAutoRuns,   \* MAX_AUTO_RUNS
  MaxTurns, MaxChats, MaxPending   \* bounds: turns, chats, requests of one kind in flight

ASSUME ChatAssumption ==
  /\ FirstConn \in Conns
  /\ MaxAutoRuns \in Nat /\ MaxTurns \in Nat /\ MaxChats \in Nat \ {0}

Turns == 1..MaxTurns
NoThread == MaxTurns + 1

VARIABLES
  conn,        \* the active connection
  messages,    \* the number of exchanges on display
  thread,      \* conversationId: the conversation they are appended to, or NoThread
  stream,      \* the turn that streams, or NoStream
  turns,       \* turns sent so far
  appends,     \* exchanges on their way to the server
  loads,       \* conversations being fetched
  queries,     \* the read query being run, named by the connection its closure has
  autoRuns,    \* autoRunCountRef
  resumed,     \* autoLoadedConnRef: no connection, or one
  convs,       \* the conversations the server keeps
  chat,        \* history: the chat on display; a loaded conversation is its chat
  chats,       \* history: the chats begun so far
  finished,    \* history: turns whose answer streamed to its end
  disturbed    \* history: an append overlapped with the next step of the chat, or failed

chatVars == <<conn, messages, thread, stream, turns, appends, loads, queries,
          autoRuns, resumed, convs, chat, chats, finished, disturbed>>

panel == <<messages, thread, chat, chats>>
history == <<finished, disturbed>>

NoStream == [turn |-> NoThread]
NoConv == [conn |-> FirstConn, chat |-> 0, items |-> <<>>, kept |-> FALSE]
Kept == {c \in 0..MaxTurns : convs[c].kept}

ChatInit ==
  /\ conn = FirstConn /\ messages = 0 /\ thread = NoThread /\ stream = NoStream
  /\ turns = 0 /\ appends = {} /\ loads = {} /\ queries = {}
  /\ autoRuns = 0 /\ resumed = {}
  /\ convs = [c \in 0..MaxTurns |-> [NoConv EXCEPT !.kept = (c = 0)]]
  /\ chat = 1 /\ chats = 1
  /\ finished = {} /\ disturbed = FALSE

Disturb(b) == disturbed' = (disturbed \/ b)

\* TanStack's observer of a mutation follows the latest call alone.
Latest(S, call) == {[c EXCEPT !.latest = FALSE] : c \in S} \cup {call}

-----------------------------------------------------------------------------
\* sendMessage: the turn is shown and begins to stream on the connection of the
\* calling closure.
StartTurn(c) ==
  /\ turns < MaxTurns
  /\ turns' = turns + 1
  /\ messages' = messages + 1
  /\ stream' = [turn |-> turns + 1, chat |-> chat, conn |-> c,
                stopped |-> FALSE, received |-> FALSE]

\* handleSend: a press of Enter gives the auto-runs their budget back, also while a
\* turn streams, when nothing is sent.
PressSend ==
  /\ autoRuns' = 0
  /\ \/ /\ stream = NoStream
        /\ StartTurn(conn)
     \/ UNCHANGED <<turns, messages, stream>>
  /\ UNCHANGED <<conn, thread, appends, loads, queries, resumed, convs, chat, chats, history>>

\* A prompt handed in by "Fix with AI"; it is dropped while a turn streams.
HandIn ==
  /\ stream = NoStream
  /\ StartTurn(conn)
  /\ UNCHANGED <<conn, thread, appends, loads, queries, autoRuns, resumed, convs,
                 chat, chats, history>>

Delta ==
  /\ stream # NoStream /\ ~stream.stopped /\ ~stream.received
  /\ stream' = [stream EXCEPT !.received = TRUE]
  /\ UNCHANGED <<conn, panel, turns, appends, loads, queries, autoRuns, resumed,
                 convs, history>>

\* The answer is complete: the exchange is appended to the thread of the moment,
\* through the connection of the moment; a query it proposes may be run at once.
TurnDone ==
  /\ stream # NoStream /\ ~stream.stopped
  /\ stream' = NoStream
  /\ \/ /\ ~stream.received
        /\ UNCHANGED <<appends, queries, autoRuns, history>>
     \/ /\ stream.received
        /\ Cardinality(appends) < MaxPending
        /\ appends' = Latest(appends, [turn |-> stream.turn, chat |-> stream.chat,
                                       asked |-> stream.conn, conn |-> conn, to |-> thread,
                                       at |-> "sent", latest |-> TRUE])
        /\ finished' = finished \cup {stream.turn}
        /\ Disturb(appends # {})
        /\ \/ UNCHANGED <<queries, autoRuns>>
           \/ /\ autoRuns < MaxAutoRuns /\ queries = {}
              /\ autoRuns' = autoRuns + 1
              /\ queries' \in {queries, {stream.conn}}
  /\ UNCHANGED <<conn, panel, turns, loads, resumed, convs>>

\* The stream fails: without a delta the last exchange on display is taken away.
\* A stream that was stopped ends, and keeps what it has shown.
TurnFailed ==
  /\ stream # NoStream
  /\ stream' = NoStream
  /\ messages' = IF ~stream.stopped /\ ~stream.received /\ messages > 0
                 THEN messages - 1 ELSE messages
  /\ UNCHANGED <<conn, thread, turns, appends, loads, queries, autoRuns, resumed,
                 convs, chat, chats, history>>

\* The button of a proposed query.
RunQuery ==
  /\ stream = NoStream /\ queries = {} /\ messages > 0
  /\ queries' = {conn}
  /\ UNCHANGED <<conn, panel, stream, turns, appends, loads, autoRuns, resumed,
                 convs, history>>

\* A query's results are fed back as a turn of the chat then on display, unless a
\* turn streams; an error is only shown.
QueryAnswered(r) ==
  /\ queries' = queries \ {r}
  /\ \/ /\ stream = NoStream
        /\ StartTurn(r)
     \/ UNCHANGED <<turns, messages, stream>>
  /\ UNCHANGED <<conn, thread, appends, loads, autoRuns, resumed, convs,
                 chat, chats, history>>

-----------------------------------------------------------------------------
\* abortRef.current?.abort()
Stopped == IF stream = NoStream THEN stream ELSE [stream EXCEPT !.stopped = TRUE]

Stop ==
  /\ stream # NoStream
  /\ stream' = Stopped
  /\ UNCHANGED <<conn, panel, turns, appends, loads, queries, autoRuns, resumed,
                 convs, history>>

Clear ==
  /\ chats < MaxChats
  /\ stream' = Stopped
  /\ messages' = 0 /\ thread' = NoThread
  /\ chats' = chats + 1 /\ chat' = chats + 1
  /\ Disturb(appends # {})

NewChat ==
  /\ messages > 0 \/ stream # NoStream
  /\ Clear
  /\ UNCHANGED <<conn, turns, appends, loads, queries, autoRuns, resumed, convs,
                 finished>>

\* A conversation is opened from the history of the active connection.
Load(c) ==
  /\ loads = {} /\ convs[c].conn = conn
  /\ stream' = Stopped
  /\ loads' = {c}

LoadConversation(c) ==
  /\ c \in Kept
  /\ Load(c)
  /\ UNCHANGED <<conn, panel, turns, appends, queries, autoRuns, resumed, convs,
                 history>>

\* The latest conversation is opened once for each connection, into an empty panel.
Resume(c) ==
  /\ c \in Kept /\ convs[c].conn = conn /\ resumed # {conn}
  /\ resumed' = {conn}
  /\ IF messages = 0 /\ thread = NoThread
     THEN Load(c)
     ELSE UNCHANGED <<stream, loads>>
  /\ UNCHANGED <<conn, panel, turns, appends, queries, autoRuns, convs, history>>

\* A fetched conversation replaces the display, whatever streams there by now; one
\* that is gone is an error.
Loaded(c) ==
  /\ c \in loads
  /\ loads' = {}
  /\ \/ /\ c \in Kept
        /\ messages' = Len(convs[c].items) /\ thread' = c /\ chat' = convs[c].chat
        /\ Disturb(appends # {} \/ (stream # NoStream /\ ~stream.stopped))
     \/ UNCHANGED <<messages, thread, chat, disturbed>>
  /\ UNCHANGED <<conn, stream, turns, appends, queries, autoRuns, resumed, convs,
                 chats, finished>>

\* A conversation is deleted with its messages; if it is on display, the panel is
\* cleared.  The request is taken to be answered at once.
Delete(c) ==
  /\ c \in Kept /\ convs[c].conn = conn
  /\ convs' = [convs EXCEPT ![c] = [NoConv EXCEPT !.chat = convs[c].chat]]
  /\ IF thread = c THEN Clear ELSE UNCHANGED <<stream, panel, disturbed>>
  /\ UNCHANGED <<conn, turns, appends, loads, queries, autoRuns, resumed, finished>>

\* The user selects another connection: the panel is given it as a property and
\* keeps its state.  (Bound: one switch.)
SwitchConnection(c) ==
  /\ c # conn /\ conn = FirstConn
  /\ conn' = c
  /\ UNCHANGED <<panel, stream, turns, appends, loads, queries, autoRuns, resumed,
                 convs, history>>

-----------------------------------------------------------------------------
\* ConversationService.append: the conversation is touched or created, then the
\* messages are stored; a conversation that is gone refuses them.
AppendTouch(a) ==
  /\ a.at = "sent" /\ (a.to = NoThread \/ a.to \in Kept)
  /\ LET c == IF a.to = NoThread THEN a.turn ELSE a.to
     IN /\ appends' = (appends \ {a}) \cup {[a EXCEPT !.at = "touched", !.to = c]}
        /\ convs' = IF a.to = NoThread
                    THEN [convs EXCEPT ![c] = [conn |-> a.conn, chat |-> a.chat, items |-> <<>>, kept |-> TRUE]]
                    ELSE convs
  /\ UNCHANGED <<conn, panel, stream, turns, loads, queries, autoRuns, resumed,
                 history>>

\* Mutant of AppendStore: the store is tried again though it has taken place.
AppendStoreAgain(a) ==
  /\ a.at = "touched" /\ a.to \in Kept /\ Len(convs[a.to].items) < MaxTurns
  /\ convs' = [convs EXCEPT ![a.to].items = Append(@, a.turn)]
  /\ UNCHANGED <<conn, panel, stream, turns, appends, loads, queries, autoRuns, resumed,
                 history>>

AppendStore(a) ==
  /\ a.at = "touched" /\ a.to \in Kept
  /\ convs' = [convs EXCEPT ![a.to].items =
                 Append(@, a.turn)]
  /\ appends' = (appends \ {a}) \cup {[a EXCEPT !.at = "stored"]}
  /\ UNCHANGED <<conn, panel, stream, turns, loads, queries, autoRuns, resumed,
                 history>>

\* The answer of the latest append names the thread of the panel, whatever chat is
\* on display by then.
Appended(a) ==
  /\ a.at = "stored"
  /\ appends' = appends \ {a}
  /\ thread' = IF a.latest THEN a.to ELSE thread
  /\ UNCHANGED <<conn, messages, stream, turns, loads, queries, autoRuns, resumed,
                 convs, chat, chats, history>>

\* An append fails, on the server at any point or on its way back: nobody is told.
AppendLost(a) ==
  /\ appends' = appends \ {a}
  /\ Disturb(a.at # "sent")
  /\ UNCHANGED <<conn, panel, stream, turns, loads, queries, autoRuns, resumed,
                 convs, finished>>

ChatNext ==
  \/ PressSend \/ HandIn \/ Delta \/ TurnDone \/ TurnFailed \/ RunQuery \/ Stop \/ NewChat
  \/ \E r \in queries : QueryAnswered(r)
  \/ \E c \in 0..MaxTurns : LoadConversation(c) \/ Resume(c) \/ Loaded(c) \/ Delete(c)
  \/ \E c \in Conns : SwitchConnection(c)
  \/ \E a \in appends : AppendTouch(a) \/ AppendStore(a) \/ Appended(a) \/ AppendLost(a)

ChatSpec == ChatInit /\ [][ChatNext]_chatVars

-----------------------------------------------------------------------------
Streams ==
  {NoStream} \cup
  [turn : Turns, chat : Nat, conn : Conns, stopped : BOOLEAN, received : BOOLEAN]

Requests ==
  [turn : Turns, chat : Nat, asked : Conns, conn : Conns, to : 0..NoThread,
   at : {"sent", "touched", "stored"}, latest : BOOLEAN]

Conversations == [conn : Conns, chat : Nat, items : Seq(Turns), kept : BOOLEAN]

ChatTypeOK ==
  /\ conn \in Conns /\ turns \in 0..MaxTurns
  /\ messages \in 0..turns /\ thread \in 0..NoThread /\ stream \in Streams
  /\ appends \subseteq Requests /\ loads \subseteq 0..MaxTurns
  /\ queries \subseteq Conns /\ resumed \subseteq Conns /\ autoRuns \in 0..MaxAutoRuns
  /\ convs \in [0..MaxTurns -> Conversations]
  /\ chats \in 1..MaxChats /\ chat \in 0..chats
  /\ finished \subseteq Turns /\ disturbed \in BOOLEAN

Stored(c) == {convs[c].items[i] : i \in 1..Len(convs[c].items)}

\* Only exchanges whose answer streamed to its end are stored, and each once.
WholeExchangesStoredOnce ==
  \A c \in Kept :
    /\ Stored(c) \subseteq finished
    /\ Cardinality(Stored(c)) = Len(convs[c].items)
    /\ \A d \in Kept \ {c} : Stored(c) \cap Stored(d) = {}

\* Unless an append is out when the next exchange is complete or the chat is left,
\* a loaded chat arrives under a turn, or an append fails half-way, a chat is kept in
\* one conversation and its exchanges in order: no fork, and no stray exchange.
UndisturbedChatIsOneThread ==
  ~disturbed =>
    /\ \A c \in Kept : \A i, j \in 1..Len(convs[c].items) :
         i < j => convs[c].items[i] < convs[c].items[j]
    /\ \A a \in appends : a.to \in Kept => convs[a.to].chat = a.chat
    /\ \A c, d \in Kept : c # d => convs[c].chat # convs[d].chat

\* What was said is stored whole, once, and in one conversation unless disturbed.
StoredAsSaid == WholeExchangesStoredOnce /\ UndisturbedChatIsOneThread

-----------------------------------------------------------------------------
(***************************************************************************)
(* The parts of the inductive invariant behind StoredAsSaid.               *)
(***************************************************************************)

\* The turn that streams is the latest one, of a chat that was begun, and its answer is
\* not complete.
TurnStreams ==
  /\ finished \subseteq 1..turns
  /\ stream # NoStream =>
       stream.turn = turns /\ turns \notin finished /\ stream.chat \in 0..chats

\* Each exchange is sent to the server in one request, after its answer was complete;
\* until the request stores it, no conversation has it.
SentOnce ==
  /\ \A a \in appends :
       /\ a.turn \in finished
       /\ a.at # "stored" => \A c \in 0..MaxTurns : a.turn \notin Stored(c)
  /\ \A a, b \in appends : a.turn = b.turn => a = b

\* What a conversation has was complete, and no exchange is kept twice; a deleted
\* conversation has nothing.
StoredOnce ==
  /\ \A c \in 0..MaxTurns :
       Stored(c) \subseteq finished /\ Cardinality(Stored(c)) = Len(convs[c].items)
  /\ \A c, d \in 0..MaxTurns : c # d => Stored(c) \cap Stored(d) = {}

\* A request that has not reached the server can still create its conversation, and
\* the chat that begins next is kept nowhere.
Uncreated ==
  /\ \A c \in Kept : c \in finished \cup {0} /\ convs[c].chat \in 0..chats
  /\ \A a \in appends : a.chat \in 0..chats /\ (a.at = "sent" => a.turn \notin Kept)

\* Undisturbed, the one request that is out belongs to the chat on display and goes to
\* its thread; a chat without a thread is kept nowhere; and the request has the latest
\* exchange of all.
OneThread ==
  ~disturbed =>
    /\ \A a, b \in appends : a = b
    /\ stream # NoStream /\ ~stream.stopped => stream.chat = chat
    /\ thread \in Kept => convs[thread].chat = chat
    /\ appends = {} /\ thread = NoThread => \A c \in Kept : convs[c].chat # chat
    /\ \A a \in appends :
         /\ a.latest /\ a.chat = chat
         /\ IF a.at = "sent" THEN a.to = thread ELSE a.to # NoThread
         /\ a.at = "sent" /\ a.to = NoThread => \A c \in Kept : convs[c].chat # chat
         /\ a.at # "stored" => \A t \in finished : t <= a.turn

ChatInv ==
  ChatTypeOK /\ TurnStreams /\ SentOnce /\ StoredOnce /\ Uncreated /\ OneThread
  /\ UndisturbedChatIsOneThread
=============================================================================
