---------------------------- MODULE Conversation ----------------------------
(***************************************************************************)
(* The requests that query-agent serves: POST /ask (delivery/ask.py) over  *)
(* the tables of adapters/conversation_history.py, and the stateless POST  *)
(* /v1/chat/completions (delivery/openai_compat.py) beside it.             *)
(*                                                                         *)
(*  - ask is a plain function: each request has a thread of the server's   *)
(*    pool, and requests of one session may overlap.  chat_completions is  *)
(*    a coroutine that never awaits: while it runs the agent, the event    *)
(*    loop accepts no request and sends no reply.                          *)
(*  - One action is one call, to Postgres or of the agent, with the work   *)
(*    up to the next call.  The run of the agent is QueryAgent; here it    *)
(*    returns an answer or raises.                                         *)
(*  - save_message stamps a row when it builds it and commits it after     *)
(*    that.  No two stamps are equal: stamps of one request are a commit   *)
(*    apart, and those of different requests microseconds.                 *)
(*  - A session is known by the request that created it.                   *)
(*  - The ORM binds every id as a String, which psycopg sends as VARCHAR.  *)
(*    The classes SessionRow and MessageRow declare the columns so, but    *)
(*    infra/postgres/init.sql, which makes the tables of the deployment,   *)
(*    declares them UUID, and Postgres converts no VARCHAR to UUID by      *)
(*    itself: there, each INSERT and the SELECT by session_id raise.       *)
(***************************************************************************)
EXTENDS Naturals, FiniteSets

CONSTANTS Asks,        \* POST /ask requests
          Chats,       \* POST /v1/chat/completions requests
          Ghost,       \* a session id that the table does not have
          Window,      \* settings.openai_compat_memory_window
          UuidColumns, \* the id columns are UUID (init.sql) and not VARCHAR (the ORM)
          DbFaults,    \* Postgres calls may raise, before or after committing
          AgentFaults  \* the run of the agent may raise

None == "none"
ASSUME ConversationAssumption == /\ Window \in Nat
                                 /\ UuidColumns \in BOOLEAN
                                 /\ DbFaults \in BOOLEAN
                                 /\ AgentFaults \in BOOLEAN
                                 /\ Ghost \notin Asks
                                 /\ None \notin Asks \cup Chats \cup {Ghost}

Sessions == Asks \cup {Ghost}
Senders == {"user", "assistant"}
Messages == [ask : Asks, sender : Senders, created : Nat]

VARIABLES
  at,        \* of each ask: its next call
  session,   \* its session id
  memory,    \* the rows in its memory_context, which are ordered by created
  stamp,     \* created_at of the row it is about to commit
  sessions,  \* the sessions table
  messages,  \* the messages table
  clock,     \* stamps given so far
  chat,      \* of each chat completion: "new", "running" or "answered"
  disturbed  \* history: sessions of which requests overlapped or failed

vars == <<at, session, memory, stamp, sessions, messages, clock, chat, disturbed>>
tables == <<sessions, messages>>

AskPcs == {"new", "createSession", "readMemory", "runAgent", "saveQuestion",
           "saveAnswer", "reply", "raised", "answered", "failed"}
Over == {"answered", "failed"}
\* The calls that bind an id: an INSERT or a SELECT.
TableCalls == {"createSession", "readMemory", "saveQuestion", "saveAnswer"}
Named == {"readMemory", "runAgent", "saveQuestion", "saveAnswer", "reply", "answered"}

Init == /\ at = [a \in Asks |-> "new"]
        /\ session = [a \in Asks |-> None]
        /\ memory = [a \in Asks |-> {}]
        /\ stamp = [a \in Asks |-> 0]
        /\ sessions = {}
        /\ messages = {}
        /\ clock = 0
        /\ chat = [c \in Chats |-> "new"]
        /\ disturbed = {}

LoopFree == \A c \in Chats : chat[c] # "running"
InProgress(a) == at[a] \notin {"new"} \cup Over
Goto(a, l) == at' = [at EXCEPT ![a] = l]
RowsOf(s) == {m \in messages : session[m.ask] = s}

\* An exception leaves the handler: FastAPI answers 500.
Raise(a) == /\ Goto(a, "raised")
            /\ disturbed' = disturbed \cup {session[a]}

-----------------------------------------------------------------------------
\* A client may go on with a session that a reply has named, or with an id of
\* its own making; without one, a session is created for it.
Accept(a, s) ==
  /\ at[a] = "new"
  /\ LoopFree
  /\ s \in {None, Ghost} \cup {session[b] : b \in {x \in Asks : at[x] = "answered"}}
  /\ session' = [session EXCEPT ![a] = s]
  /\ Goto(a, IF s = None THEN "createSession" ELSE "readMemory")
  /\ disturbed' = IF \E b \in Asks : InProgress(b) /\ session[b] = s /\ s # None
                  THEN disturbed \cup {s} ELSE disturbed
  /\ UNCHANGED <<memory, stamp, tables, clock, chat>>

\* Variant: the id is left to the database, and read before it has one.
CreateSessionUnflushed(a) ==
  /\ at[a] = "createSession"
  /\ sessions' = sessions \cup {a}
  /\ Goto(a, "readMemory")
  /\ UNCHANGED <<session, memory, stamp, messages, clock, chat, disturbed>>

\* history.create_session.
CreateSession(a) ==
  /\ at[a] = "createSession"
  /\ ~UuidColumns
  /\ sessions' = sessions \cup {a}
  /\ session' = [session EXCEPT ![a] = a]
  /\ \/ Goto(a, "readMemory") /\ UNCHANGED disturbed
     \/ DbFaults /\ Goto(a, "raised") /\ disturbed' = disturbed \cup {a}
  /\ UNCHANGED <<memory, stamp, messages, clock, chat>>

\* The k rows of s that were stamped last.
Latest(s, k) ==
  {m \in RowsOf(s) : Cardinality({x \in RowsOf(s) : x.created > m.created}) < k}

\* Variant: the window counts messages and not turns.
ReadMemoryByMessages(a) ==
  /\ at[a] = "readMemory"
  /\ memory' = [memory EXCEPT ![a] = Latest(session[a], Window)]
  /\ Goto(a, "runAgent")
  /\ UNCHANGED <<session, stamp, tables, clock, chat, disturbed>>

\* history.get_memory_context: whatever of the session is committed by now.
ReadMemory(a) ==
  /\ at[a] = "readMemory"
  /\ ~UuidColumns
  /\ memory' = [memory EXCEPT ![a] = Latest(session[a], 2 * Window)]
  /\ Goto(a, "runAgent")
  /\ UNCHANGED <<session, stamp, tables, clock, chat, disturbed>>

\* save_message stamps the row that the next action commits.
Stamp(a) == /\ stamp' = [stamp EXCEPT ![a] = clock + 1]
            /\ clock' = clock + 1

\* Variant: a question that gets no answer from the documents is not saved.
RunAgentUnsaved(a) == /\ at[a] = "runAgent"
                      /\ Stamp(a)
                      /\ Goto(a, "saveAnswer") \/ Goto(a, "saveQuestion")
                      /\ UNCHANGED <<session, memory, tables, chat, disturbed>>

\* factory.run, which may take minutes.
RunAgent(a) == /\ at[a] = "runAgent"
               /\ Stamp(a)
               /\ Goto(a, "saveQuestion")
               /\ UNCHANGED <<session, memory, tables, chat, disturbed>>

Row(a, sender) == [ask |-> a, sender |-> sender, created |-> stamp[a]]

\* The foreign key refuses rows of a session that does not exist, which nobody
\* has tested before the agent ran.
SaveQuestion(a) ==
  /\ at[a] = "saveQuestion"
  /\ ~UuidColumns
  /\ session[a] \in sessions
  /\ messages' = messages \cup {Row(a, "user")}
  /\ \/ Goto(a, "saveAnswer") /\ Stamp(a) /\ UNCHANGED disturbed
     \/ DbFaults /\ Raise(a) /\ UNCHANGED <<stamp, clock>>
  /\ UNCHANGED <<session, memory, sessions, chat>>

\* Variant: a failure to save the answer is logged.
SaveAnswerIgnoringErrors(a) ==
  /\ at[a] = "saveAnswer"
  /\ \/ messages' = messages \cup {Row(a, "assistant")}
     \/ DbFaults /\ UNCHANGED messages
  /\ Goto(a, "reply")
  /\ UNCHANGED <<session, memory, stamp, sessions, clock, chat, disturbed>>

SaveAnswer(a) ==
  /\ at[a] = "saveAnswer"
  /\ ~UuidColumns
  /\ messages' = messages \cup {Row(a, "assistant")}
  /\ \/ Goto(a, "reply") /\ UNCHANGED disturbed
     \/ DbFaults /\ Raise(a)
  /\ UNCHANGED <<session, memory, stamp, sessions, clock, chat>>

\* A call raises before it changed a table.
CallRaises(a) ==
  /\ \/ (DbFaults \/ UuidColumns) /\ at[a] \in TableCalls
     \/ AgentFaults /\ at[a] = "runAgent"
     \/ session[a] = Ghost /\ at[a] = "saveQuestion"
  /\ Raise(a)
  /\ UNCHANGED <<session, memory, stamp, tables, clock, chat>>

\* The event loop sends what the thread has left.
Reply(a) == /\ LoopFree
            /\ \/ at[a] = "reply" /\ Goto(a, "answered")
               \/ at[a] = "raised" /\ Goto(a, "failed")
            /\ UNCHANGED <<session, memory, stamp, tables, clock, chat, disturbed>>

-----------------------------------------------------------------------------
\* chat_completions: memory and question come with the request; nothing is read
\* or saved, and an exception of the agent becomes the text of the answer.
StartChat(c) == /\ chat[c] = "new"
                /\ LoopFree
                /\ chat' = [chat EXCEPT ![c] = "running"]
                /\ UNCHANGED <<at, session, memory, stamp, tables, clock, disturbed>>

\* Variant: the clients of the model and of document-index have no timeout.
FinishChatHanging(c) == chat[c] = "running" /\ UNCHANGED vars

FinishChat(c) == /\ chat[c] = "running"
                 /\ chat' = [chat EXCEPT ![c] = "answered"]
                 /\ UNCHANGED <<at, session, memory, stamp, tables, clock, disturbed>>

-----------------------------------------------------------------------------
AskStep(a) == \/ CreateSession(a) \/ ReadMemory(a) \/ RunAgent(a)
              \/ SaveQuestion(a) \/ SaveAnswer(a) \/ CallRaises(a) \/ Reply(a)

Next == \/ \E a \in Asks : (\E s \in Sessions \cup {None} : Accept(a, s)) \/ AskStep(a)
        \/ \E c \in Chats : StartChat(c) \/ FinishChat(c)

Spec == Init /\ [][Next]_vars

\* Threads run on, the event loop takes turns, the agent's run ends (RunEnds of
\* QueryAgent).  Nothing obliges a client to ask.
Fairness == /\ \A a \in Asks : WF_vars(AskStep(a))
            /\ \A c \in Chats : WF_vars(FinishChat(c))

FairSpec == Spec /\ Fairness

-----------------------------------------------------------------------------
(* Properties.                                                             *)

TypeOK == /\ at \in [Asks -> AskPcs]
          /\ session \in [Asks -> Sessions \cup {None}]
          /\ \A a \in Asks : at[a] \in Named => session[a] \in Sessions
          /\ memory \in [Asks -> SUBSET Messages]
          /\ stamp \in [Asks -> Nat]
          /\ sessions \subseteq Asks
          /\ messages \subseteq Messages
          /\ clock \in Nat
          /\ chat \in [Chats -> {"new", "running", "answered"}]
          /\ disturbed \subseteq Sessions \cup {None}

\* Whatever overlaps or fails between the two commits, no answer is in the table
\* without its question, stamped earlier (ask.py:52-60).
AnswerAfterQuestion ==
  \A m \in messages : m.sender = "assistant" =>
    \E q \in messages : q.ask = m.ask /\ q.sender = "user" /\ q.created < m.created

\* A question that was answered with 200 is remembered, both halves of it, in a
\* session that exists.
AnsweredIsStored ==
  \A a \in Asks : at[a] = "answered" =>
    /\ session[a] \in sessions
    /\ \A sender \in Senders : \E m \in messages : m.ask = a /\ m.sender = sender

\* In a session whose requests neither overlapped nor failed, the memory is the
\* last Window exchanges, whole (conversation_history.py:78-84).  An overlap or
\* a failure lets the window begin with an answer.  This speaks of tables as
\* the ORM declares them: with UUID columns every request fails.
WholeTurns ==
  \A a \in Asks : at[a] = "runAgent" /\ session[a] \notin disturbed =>
    LET past == {b \in Asks : at[b] = "answered" /\ session[b] = session[a]}
        stamps(b) == {m.created : m \in {x \in messages : x.ask = b}}
        after(b) == {c \in past \ {b} : \A i \in stamps(b), j \in stamps(c) : i < j}
        last == {b \in past : Cardinality(after(b)) < Window}
    IN memory[a] = {m \in messages : m.ask \in last}

\* Every request that was accepted is answered, 200 or 500, though chat
\* completions hold up the event loop.
AskReplied == \A a \in Asks : at[a] \in {"createSession", "readMemory"} ~> at[a] \in Over
=============================================================================
