------------------------ MODULE ConversationProofs -------------------------
(***************************************************************************)
(* What the tables of query-agent hold, for any number of requests that    *)
(* overlap and fail in any way: types, AnswerAfterQuestion and             *)
(* AnsweredIsStored; and what is read back as the memory of a session that *)
(* is not disturbed: WholeTurns.  Last, that the tables of the deployment, *)
(* whose ids are UUID columns, never hold anything.                        *)
(***************************************************************************)
EXTENDS Conversation, FiniteSetTheorems, TLAPS

\* The question of a is in the table, in a session that exists.
Asked(a) == /\ session[a] \in sessions
            /\ \E q \in messages : q.ask = a /\ q.sender = "user"

Stored(a) == /\ Asked(a)
             /\ \E m \in messages : m.ask = a /\ m.sender = "assistant"

\* The stamp that an answer will have is later than its question's.
PendingAnswer(a) == /\ session[a] \in sessions
                    /\ \E q \in messages : /\ q.ask = a
                                           /\ q.sender = "user"
                                           /\ q.created < stamp[a]

ConversationInv == /\ \A a \in Asks : stamp[a] <= clock
                   /\ \A a \in Asks : at[a] = "saveAnswer" => PendingAnswer(a)
                   /\ \A a \in Asks : at[a] \in {"reply", "answered"} => Stored(a)
                   /\ AnswerAfterQuestion

LEMMA TypeInit == Init => TypeOK
BY ConversationAssumption, SMT DEF Init, TypeOK, AskPcs, Named, Sessions, Messages

LEMMA RowsAreMessages ==
  ASSUME TypeOK, NEW a \in Asks, NEW sender \in Senders
  PROVE  Row(a, sender) \in Messages
BY DEF TypeOK, Row, Messages

LEMMA TypeStep == TypeOK /\ [Next]_vars => TypeOK'
<1> USE ConversationAssumption
<1> SUFFICES ASSUME TypeOK, [Next]_vars PROVE TypeOK'
  OBVIOUS
<1>1. ASSUME NEW a \in Asks, NEW s \in Sessions \cup {None}, Accept(a, s) PROVE TypeOK'
  <2>1. memory' = memory /\ stamp' = stamp /\ sessions' = sessions /\ messages' = messages
        /\ clock' = clock /\ chat' = chat
    BY <1>1 DEF Accept, tables
  <2>2. /\ at' = [at EXCEPT ![a] = IF s = None THEN "createSession" ELSE "readMemory"]
        /\ session' = [session EXCEPT ![a] = s]
        /\ disturbed' \subseteq disturbed \cup {s}
    BY <1>1, Zenon DEF Accept, Goto
  <2> QED
    BY <2>1, <2>2, SMT DEF TypeOK, AskPcs, Named, Sessions
<1>2. ASSUME NEW a \in Asks, CreateSession(a) PROVE TypeOK'
  <2>1. memory' = memory /\ stamp' = stamp /\ messages' = messages /\ clock' = clock
        /\ chat' = chat /\ sessions' = sessions \cup {a}
        /\ session' = [session EXCEPT ![a] = a]
    BY <1>2 DEF CreateSession
  <2>2. /\ \E l \in {"readMemory", "raised"} : at' = [at EXCEPT ![a] = l]
        /\ disturbed' \in {disturbed, disturbed \cup {a}}
    BY <1>2 DEF CreateSession, Goto
  <2> QED
    BY <2>1, <2>2, SMT DEF TypeOK, AskPcs, Named, Sessions
<1>3. ASSUME NEW a \in Asks, ReadMemory(a) PROVE TypeOK'
  <2>1. session' = session /\ stamp' = stamp /\ sessions' = sessions /\ messages' = messages
        /\ clock' = clock /\ chat' = chat /\ disturbed' = disturbed
    BY <1>3 DEF ReadMemory, tables
  <2>2. at' = [at EXCEPT ![a] = "runAgent"] /\ at[a] = "readMemory"
        /\ memory' = [memory EXCEPT ![a] = Latest(session[a], 2 * Window)]
    BY <1>3 DEF ReadMemory, Goto
  <2>3. Latest(session[a], 2 * Window) \subseteq Messages
    BY DEF Latest, RowsOf, TypeOK
  <2> QED
    BY <2>1, <2>2, <2>3, SMT DEF TypeOK, AskPcs, Named
<1>4. ASSUME NEW a \in Asks, RunAgent(a) PROVE TypeOK'
  <2>1. session' = session /\ memory' = memory /\ sessions' = sessions /\ messages' = messages
        /\ chat' = chat /\ disturbed' = disturbed
    BY <1>4 DEF RunAgent, tables
  <2>2. at' = [at EXCEPT ![a] = "saveQuestion"] /\ at[a] = "runAgent"
        /\ stamp' = [stamp EXCEPT ![a] = clock + 1] /\ clock' = clock + 1
    BY <1>4 DEF RunAgent, Goto, Stamp
  <2> QED
    BY <2>1, <2>2, SMT DEF TypeOK, AskPcs, Named
<1>5. ASSUME NEW a \in Asks, SaveQuestion(a) PROVE TypeOK'
  <2>1. session' = session /\ memory' = memory /\ sessions' = sessions /\ chat' = chat
        /\ at[a] = "saveQuestion" /\ messages' = messages \cup {Row(a, "user")}
    BY <1>5 DEF SaveQuestion
  <2>2. \/ /\ at' = [at EXCEPT ![a] = "saveAnswer"]
           /\ stamp' = [stamp EXCEPT ![a] = clock + 1] /\ clock' = clock + 1
           /\ disturbed' = disturbed
        \/ /\ at' = [at EXCEPT ![a] = "raised"]
           /\ stamp' = stamp /\ clock' = clock
           /\ disturbed' = disturbed \cup {session[a]}
    BY <1>5 DEF SaveQuestion, Goto, Stamp, Raise
  <2>3. Row(a, "user") \in Messages
    BY RowsAreMessages DEF Senders
  <2> QED
    BY <2>1, <2>2, <2>3, SMT DEF TypeOK, AskPcs, Named
<1>6. ASSUME NEW a \in Asks, SaveAnswer(a) PROVE TypeOK'
  <2>1. session' = session /\ memory' = memory /\ sessions' = sessions /\ chat' = chat
        /\ stamp' = stamp /\ clock' = clock
        /\ at[a] = "saveAnswer" /\ messages' = messages \cup {Row(a, "assistant")}
    BY <1>6 DEF SaveAnswer
  <2>2. \/ at' = [at EXCEPT ![a] = "reply"] /\ disturbed' = disturbed
        \/ at' = [at EXCEPT ![a] = "raised"] /\ disturbed' = disturbed \cup {session[a]}
    BY <1>6 DEF SaveAnswer, Goto, Raise
  <2>3. Row(a, "assistant") \in Messages
    BY RowsAreMessages DEF Senders
  <2> QED
    BY <2>1, <2>2, <2>3, SMT DEF TypeOK, AskPcs, Named
<1>7. ASSUME NEW a \in Asks, CallRaises(a) PROVE TypeOK'
  <2>1. session' = session /\ memory' = memory /\ stamp' = stamp /\ sessions' = sessions
        /\ messages' = messages /\ clock' = clock /\ chat' = chat
    BY <1>7 DEF CallRaises, tables
  <2>2. at' = [at EXCEPT ![a] = "raised"] /\ disturbed' = disturbed \cup {session[a]}
    BY <1>7 DEF CallRaises, Raise, Goto
  <2> QED
    BY <2>1, <2>2, SMT DEF TypeOK, AskPcs, Named
<1>8. ASSUME NEW a \in Asks, Reply(a) PROVE TypeOK'
  <2>1. session' = session /\ memory' = memory /\ stamp' = stamp /\ sessions' = sessions
        /\ messages' = messages /\ clock' = clock /\ chat' = chat /\ disturbed' = disturbed
    BY <1>8 DEF Reply, tables
  <2>2. \/ at[a] = "reply" /\ at' = [at EXCEPT ![a] = "answered"]
        \/ at[a] = "raised" /\ at' = [at EXCEPT ![a] = "failed"]
    BY <1>8 DEF Reply, Goto
  <2> QED
    BY <2>1, <2>2, SMT DEF TypeOK, AskPcs, Named
<1>9. ASSUME NEW c \in Chats, StartChat(c) \/ FinishChat(c) PROVE TypeOK'
  <2>1. at' = at /\ session' = session /\ memory' = memory /\ stamp' = stamp
        /\ sessions' = sessions /\ messages' = messages /\ clock' = clock
        /\ disturbed' = disturbed
    BY <1>9 DEF StartChat, FinishChat, tables
  <2>2. \E l \in {"running", "answered"} : chat' = [chat EXCEPT ![c] = l]
    BY <1>9 DEF StartChat, FinishChat
  <2> QED
    BY <2>1, <2>2, SMT DEF TypeOK
<1>10. CASE UNCHANGED vars
  BY <1>10 DEF vars, tables, TypeOK
<1> QED
  BY <1>1, <1>2, <1>3, <1>4, <1>5, <1>6, <1>7, <1>8, <1>9, <1>10, Zenon DEF Next, AskStep

\* The types of all variables, for any sets of requests and any faults.
THEOREM ConversationTypeOK == Spec => []TypeOK
BY TypeInit, TypeStep, PTL DEF Spec

-----------------------------------------------------------------------------
(* The tables.                                                             *)

LEMMA InvInit == Init => ConversationInv
BY SMT DEF Init, ConversationInv, AnswerAfterQuestion

\* A step of a to l that adds no row, and stamps only what comes after all
\* stamps; the session of a request changes only before its first read.
NoWrite(a, l) ==
  /\ at' = [at EXCEPT ![a] = l]
  /\ l \notin {"saveAnswer", "reply"}
  /\ l = "answered" => at[a] = "reply"
  /\ \A b \in Asks \ {a} : session'[b] = session[b]
  /\ session'[a] = session[a] \/ at[a] \in {"new", "createSession"}
  /\ sessions \subseteq sessions'
  /\ messages' = messages
  /\ \/ stamp' = stamp /\ clock' = clock
     \/ stamp' = [stamp EXCEPT ![a] = clock + 1] /\ clock' = clock + 1

LEMMA InvNoWrite ==
  ASSUME TypeOK, ConversationInv, NEW a \in Asks, NEW l \in AskPcs, NoWrite(a, l)
  PROVE  ConversationInv'
<1> USE DEF NoWrite
<1>1. \A b \in Asks : stamp'[b] <= clock'
  BY SMT DEF ConversationInv, TypeOK
<1>2. \A b \in Asks : at'[b] = "saveAnswer" => PendingAnswer(b)'
  <2> SUFFICES ASSUME NEW b \in Asks, at'[b] = "saveAnswer" PROVE PendingAnswer(b)'
    OBVIOUS
  <2>1. b # a /\ at[b] = "saveAnswer" /\ stamp'[b] = stamp[b] /\ session'[b] = session[b]
    BY SMT DEF TypeOK
  <2> QED
    BY <2>1 DEF PendingAnswer, ConversationInv
<1>3. \A b \in Asks : at'[b] \in {"reply", "answered"} => Stored(b)'
  <2> SUFFICES ASSUME NEW b \in Asks, at'[b] \in {"reply", "answered"} PROVE Stored(b)'
    OBVIOUS
  <2>1. at[b] \in {"reply", "answered"} /\ session'[b] = session[b]
    BY SMT DEF TypeOK
  <2> QED
    BY <2>1 DEF Stored, Asked, ConversationInv
<1>4. AnswerAfterQuestion'
  BY DEF AnswerAfterQuestion, ConversationInv
<1> QED
  BY <1>1, <1>2, <1>3, <1>4 DEF ConversationInv

\* A commit adds the row of a, and keeps what the table had.
LEMMA InvSaveQuestion ==
  ASSUME TypeOK, ConversationInv, NEW a \in Asks, SaveQuestion(a)
  PROVE  ConversationInv'
<1>1. /\ at[a] = "saveQuestion" /\ session[a] \in sessions
      /\ session' = session /\ sessions' = sessions
      /\ messages' = messages \cup {Row(a, "user")}
  BY DEF SaveQuestion
<1>2. \/ /\ at' = [at EXCEPT ![a] = "saveAnswer"]
         /\ stamp' = [stamp EXCEPT ![a] = clock + 1] /\ clock' = clock + 1
      \/ at' = [at EXCEPT ![a] = "raised"] /\ stamp' = stamp /\ clock' = clock
  BY DEF SaveQuestion, Goto, Stamp, Raise
<1>3. /\ Row(a, "user").ask = a /\ Row(a, "user").sender = "user"
      /\ Row(a, "user").created = stamp[a]
  BY DEF Row
<1>4. stamp[a] <= clock /\ stamp[a] \in Nat /\ clock \in Nat
  BY DEF ConversationInv, TypeOK
<1>5. \A b \in Asks : stamp'[b] <= clock'
  BY <1>2, SMT DEF ConversationInv, TypeOK
<1>6. \A b \in Asks : at'[b] = "saveAnswer" => PendingAnswer(b)'
  <2> SUFFICES ASSUME NEW b \in Asks, at'[b] = "saveAnswer" PROVE PendingAnswer(b)'
    OBVIOUS
  <2>1. CASE b = a
    <3>1. stamp'[a] = clock + 1
      BY <1>2, <2>1, SMT DEF TypeOK
    <3>2. Row(a, "user") \in messages' /\ Row(a, "user").created < stamp'[a]
      BY <1>1, <1>3, <1>4, <3>1, SMT
    <3> QED
      BY <1>1, <1>3, <2>1, <3>2, Zenon DEF PendingAnswer
  <2>2. CASE b # a
    <3>1. at[b] = "saveAnswer" /\ stamp'[b] = stamp[b]
      BY <1>2, <2>2, SMT DEF TypeOK
    <3> QED
      BY <1>1, <3>1 DEF PendingAnswer, ConversationInv
  <2> QED
    BY <2>1, <2>2
<1>7. \A b \in Asks : at'[b] \in {"reply", "answered"} => Stored(b)'
  <2> SUFFICES ASSUME NEW b \in Asks, at'[b] \in {"reply", "answered"} PROVE Stored(b)'
    OBVIOUS
  <2>1. at[b] \in {"reply", "answered"}
    BY <1>2, SMT DEF TypeOK
  <2> QED
    BY <1>1, <2>1 DEF Stored, Asked, ConversationInv
<1>8. AnswerAfterQuestion'
  BY <1>1, <1>3, SMT DEF AnswerAfterQuestion, ConversationInv
<1> QED
  BY <1>5, <1>6, <1>7, <1>8 DEF ConversationInv

LEMMA InvSaveAnswer ==
  ASSUME TypeOK, ConversationInv, NEW a \in Asks, SaveAnswer(a)
  PROVE  ConversationInv'
<1>1. /\ at[a] = "saveAnswer"
      /\ session' = session /\ sessions' = sessions /\ stamp' = stamp /\ clock' = clock
      /\ messages' = messages \cup {Row(a, "assistant")}
  BY DEF SaveAnswer
<1>2. at' = [at EXCEPT ![a] = "reply"] \/ at' = [at EXCEPT ![a] = "raised"]
  BY DEF SaveAnswer, Goto, Raise
<1>3. /\ Row(a, "assistant").ask = a /\ Row(a, "assistant").sender = "assistant"
      /\ Row(a, "assistant").created = stamp[a]
  BY DEF Row
<1>4. PendingAnswer(a)
  BY <1>1 DEF ConversationInv
<1>5. \A b \in Asks : stamp'[b] <= clock'
  BY <1>1 DEF ConversationInv
<1>6. \A b \in Asks : at'[b] = "saveAnswer" => PendingAnswer(b)'
  <2> SUFFICES ASSUME NEW b \in Asks, at'[b] = "saveAnswer" PROVE PendingAnswer(b)'
    OBVIOUS
  <2>1. at[b] = "saveAnswer"
    BY <1>2, SMT DEF TypeOK
  <2> QED
    BY <1>1, <2>1 DEF PendingAnswer, ConversationInv
<1>7. \A b \in Asks : at'[b] \in {"reply", "answered"} => Stored(b)'
  <2> SUFFICES ASSUME NEW b \in Asks, at'[b] \in {"reply", "answered"} PROVE Stored(b)'
    OBVIOUS
  <2>1. CASE b = a
    BY <1>1, <1>3, <1>4, <2>1 DEF Stored, Asked, PendingAnswer
  <2>2. CASE b # a
    <3>1. at[b] \in {"reply", "answered"}
      BY <1>2, <2>2, SMT DEF TypeOK
    <3> QED
      BY <1>1, <3>1 DEF Stored, Asked, ConversationInv
  <2> QED
    BY <2>1, <2>2
<1>8. AnswerAfterQuestion'
  BY <1>1, <1>3, <1>4, SMT DEF AnswerAfterQuestion, ConversationInv, PendingAnswer
<1> QED
  BY <1>5, <1>6, <1>7, <1>8 DEF ConversationInv

LEMMA InvStep == TypeOK /\ ConversationInv /\ [Next]_vars => ConversationInv'
<1> SUFFICES ASSUME TypeOK, ConversationInv, [Next]_vars PROVE ConversationInv'
  OBVIOUS
<1>1. ASSUME NEW a \in Asks, NEW s \in Sessions \cup {None}, Accept(a, s)
      PROVE  ConversationInv'
  <2>1. \E l \in {"createSession", "readMemory"} : at' = [at EXCEPT ![a] = l]
    <3>1. at' = [at EXCEPT ![a] = IF s = None THEN "createSession" ELSE "readMemory"]
      BY <1>1, Zenon DEF Accept, Goto
    <3> QED
      BY <3>1
  <2>2. at[a] = "new" /\ session' = [session EXCEPT ![a] = s] /\ stamp' = stamp
        /\ sessions' = sessions /\ messages' = messages /\ clock' = clock
    BY <1>1 DEF Accept, tables
  <2> QED
    <3>1. PICK l \in {"createSession", "readMemory"} : at' = [at EXCEPT ![a] = l]
      BY <2>1
    <3>2. NoWrite(a, l) /\ l \in AskPcs
      BY <2>2, <3>1, SMT DEF NoWrite, TypeOK, AskPcs
    <3> QED
      BY <3>2, InvNoWrite
<1>2. ASSUME NEW a \in Asks, CreateSession(a) PROVE ConversationInv'
  <2>1. \E l \in {"readMemory", "raised"} : at' = [at EXCEPT ![a] = l]
    BY <1>2 DEF CreateSession, Goto
  <2>2. at[a] = "createSession" /\ session' = [session EXCEPT ![a] = a] /\ stamp' = stamp
        /\ sessions' = sessions \cup {a} /\ messages' = messages /\ clock' = clock
    BY <1>2 DEF CreateSession
  <2> QED
    <3>1. PICK l \in {"readMemory", "raised"} : at' = [at EXCEPT ![a] = l]
      BY <2>1
    <3>2. NoWrite(a, l) /\ l \in AskPcs
      BY <2>2, <3>1, SMT DEF NoWrite, TypeOK, AskPcs
    <3> QED
      BY <3>2, InvNoWrite
<1>3. ASSUME NEW a \in Asks, ReadMemory(a) PROVE ConversationInv'
  <2>1. at' = [at EXCEPT ![a] = "runAgent"] /\ at[a] = "readMemory"
        /\ session' = session /\ stamp' = stamp /\ sessions' = sessions
        /\ messages' = messages /\ clock' = clock
    BY <1>3 DEF ReadMemory, Goto, tables
  <2> QED
    <3>1. NoWrite(a, "runAgent") /\ "runAgent" \in AskPcs
      BY <2>1, SMT DEF NoWrite, AskPcs
    <3> QED
      BY <3>1, InvNoWrite
<1>4. ASSUME NEW a \in Asks, RunAgent(a) PROVE ConversationInv'
  <2>1. at' = [at EXCEPT ![a] = "saveQuestion"] /\ at[a] = "runAgent"
        /\ session' = session /\ sessions' = sessions /\ messages' = messages
        /\ stamp' = [stamp EXCEPT ![a] = clock + 1] /\ clock' = clock + 1
    BY <1>4 DEF RunAgent, Goto, Stamp, tables
  <2> QED
    <3>1. NoWrite(a, "saveQuestion") /\ "saveQuestion" \in AskPcs
      BY <2>1, SMT DEF NoWrite, AskPcs
    <3> QED
      BY <3>1, InvNoWrite
<1>5. ASSUME NEW a \in Asks, SaveQuestion(a) PROVE ConversationInv'
  BY <1>5, InvSaveQuestion
<1>6. ASSUME NEW a \in Asks, SaveAnswer(a) PROVE ConversationInv'
  BY <1>6, InvSaveAnswer
<1>7. ASSUME NEW a \in Asks, CallRaises(a) PROVE ConversationInv'
  <2>1. at' = [at EXCEPT ![a] = "raised"] /\ at[a] \notin {"reply", "answered"}
        /\ session' = session /\ stamp' = stamp /\ sessions' = sessions
        /\ messages' = messages /\ clock' = clock
    BY <1>7 DEF CallRaises, TableCalls, Raise, Goto, tables
  <2> QED
    <3>1. NoWrite(a, "raised") /\ "raised" \in AskPcs
      BY <2>1, SMT DEF NoWrite, AskPcs
    <3> QED
      BY <3>1, InvNoWrite
<1>8. ASSUME NEW a \in Asks, Reply(a) PROVE ConversationInv'
  <2>1. \/ at[a] = "reply" /\ at' = [at EXCEPT ![a] = "answered"]
        \/ at[a] = "raised" /\ at' = [at EXCEPT ![a] = "failed"]
    BY <1>8 DEF Reply, Goto
  <2>2. session' = session /\ stamp' = stamp /\ sessions' = sessions
        /\ messages' = messages /\ clock' = clock
    BY <1>8 DEF Reply, tables
  <2> QED
    <3>1. NoWrite(a, "answered") \/ NoWrite(a, "failed")
      BY <2>1, <2>2, SMT DEF NoWrite
    <3> QED
      BY <3>1, InvNoWrite DEF AskPcs
<1>9. CASE \/ \E c \in Chats : StartChat(c) \/ FinishChat(c)
           \/ UNCHANGED vars
  <2>1. at' = at /\ session' = session /\ stamp' = stamp /\ sessions' = sessions
        /\ messages' = messages /\ clock' = clock
    BY <1>9 DEF StartChat, FinishChat, vars, tables
  <2> QED
    BY <2>1 DEF ConversationInv, PendingAnswer, Stored, Asked, AnswerAfterQuestion
<1> QED
  BY <1>1, <1>2, <1>3, <1>4, <1>5, <1>6, <1>7, <1>8, <1>9, Zenon DEF Next, AskStep

\* The inductive invariant: stamps are given in order, an answer is only about
\* to be committed when its question is, and a reply only sent when both are.
THEOREM ConversationInvariant == Spec => [](TypeOK /\ ConversationInv)
<1>1. Init => TypeOK /\ ConversationInv
  BY TypeInit, InvInit
<1>2. TypeOK /\ ConversationInv /\ [Next]_vars => (TypeOK /\ ConversationInv)'
  BY TypeStep, InvStep
<1> QED
  BY <1>1, <1>2, PTL DEF Spec

\* However requests overlap and fail, no answer is stored without its question,
\* which was stamped earlier.
THEOREM AnswersFollowQuestions == Spec => []AnswerAfterQuestion
<1>1. ConversationInv => AnswerAfterQuestion
  BY DEF ConversationInv
<1> QED
  BY <1>1, ConversationInvariant, PTL

\* A request that was answered with 200 is stored, in a session that exists.
THEOREM AnsweredRequestsAreStored == Spec => []AnsweredIsStored
<1>1. ConversationInv => AnsweredIsStored
  BY DEF ConversationInv, AnsweredIsStored, Stored, Asked, Senders
<1> QED
  BY <1>1, ConversationInvariant, PTL

-----------------------------------------------------------------------------
(* The memory.                                                             *)

Rows(a) == {m \in messages : m.ask = a}

\* The rows of a are one question and its answer, stamped later.
Exchange(a) ==
  \E q, r \in messages : /\ Rows(a) = {q, r}
                         /\ q.sender = "user" /\ r.sender = "assistant"
                         /\ q.created < r.created

Unsaved == {"new", "createSession", "readMemory", "runAgent", "saveQuestion"}

\* What is in the table of a request, at each of its calls.
RowsAsSaved ==
  \A a \in Asks : /\ at[a] \in Unsaved => Rows(a) = {}
                  /\ at[a] = "saveAnswer" =>
                       \E q \in messages : /\ Rows(a) = {q} /\ q.sender = "user"
                                           /\ q.created < stamp[a]
                  /\ at[a] \in {"reply", "answered"} => Exchange(a)

RowsStamped == /\ IsFiniteSet(messages)
               /\ \A m \in messages : m.created <= clock

\* No request is in a session that is not yet created.
SessionsFresh ==
  \A a, b \in Asks : at[a] \in {"new", "createSession"} => session[b] # a

\* The requests of s neither overlap nor fail.
Undisturbed == Sessions \ disturbed
OneAtATime ==
  \A a, b \in Asks : session[a] = session[b] /\ session[a] \in Undisturbed =>
    /\ at[a] \notin {"raised", "failed"}
    /\ InProgress(a) /\ InProgress(b) => a = b

\* All rows of b were stamped before all rows of c.
Precedes(b, c) == \A m \in Rows(b), n \in Rows(c) : m.created < n.created

\* In an undisturbed session, exchanges are stamped one after the other, and the
\* one in progress after all that were answered.
InOrder ==
  \A b, c \in Asks :
    session[b] = session[c] /\ session[b] \in Undisturbed /\ at[b] = "answered" =>
      /\ InProgress(c) => Precedes(b, c)
      /\ at[c] \in {"saveQuestion", "saveAnswer"} => \A m \in Rows(b) : m.created < stamp[c]
      /\ at[c] = "answered" /\ b # c => Precedes(b, c) \/ Precedes(c, b)

\* While the agent runs, nothing of the session is saved.
MemoryIsCurrent ==
  \A a \in Asks : at[a] = "runAgent" /\ session[a] \in Undisturbed =>
    memory[a] = Latest(session[a], 2 * Window)

\* The inductive invariant of WholeTurns.
TurnsInv == /\ RowsAsSaved
            /\ RowsStamped
            /\ SessionsFresh
            /\ OneAtATime
            /\ InOrder
            /\ MemoryIsCurrent

LEMMA TurnsInit == Init => TurnsInv
<1> SUFFICES ASSUME Init PROVE TurnsInv
  OBVIOUS
<1> USE ConversationAssumption
<1>1. RowsAsSaved
  BY SMT DEF Init, RowsAsSaved, Rows, Unsaved
<1>2. RowsStamped
  BY FS_EmptySet DEF Init, RowsStamped
<1>3. SessionsFresh
  BY DEF Init, SessionsFresh
<1>4. OneAtATime /\ InOrder /\ MemoryIsCurrent
  BY SMT DEF Init, OneAtATime, InOrder, MemoryIsCurrent, InProgress, Over
<1> QED
  BY <1>1, <1>2, <1>3, <1>4 DEF TurnsInv

\* A step of a that leaves the table alone.
Silent(a) == /\ messages' = messages
             /\ \A b \in Asks \ {a} : /\ at'[b] = at[b] /\ session'[b] = session[b]
                                      /\ memory'[b] = memory[b] /\ stamp'[b] = stamp[b]
             /\ disturbed \subseteq disturbed'
             /\ clock <= clock'

\* Rows appear at the two saves only, and a stamp is not changed between.
LEMMA SilentRows ==
  ASSUME TypeOK, TypeOK', RowsAsSaved, RowsStamped, NEW a \in Asks, Silent(a),
         \/ at[a] \in Unsaved /\ at'[a] \in Unsaved \cup {"raised"}
         \/ at[a] = "reply" /\ at'[a] = "answered"
         \/ at'[a] \in {"raised", "failed"}
  PROVE  RowsAsSaved' /\ RowsStamped'
<1>1. RowsStamped'
  BY SMT DEF Silent, RowsStamped, TypeOK, Messages
<1>2. \A b \in Asks : Rows(b)' = Rows(b) /\ Exchange(b)' = Exchange(b)
  BY DEF Silent, Rows, Exchange
<1>3. ASSUME NEW b \in Asks
      PROVE  /\ at'[b] \in Unsaved => Rows(b)' = {}
             /\ at'[b] = "saveAnswer" =>
                  \E q \in messages' : /\ Rows(b)' = {q} /\ q.sender = "user"
                                       /\ q.created < stamp'[b]
             /\ at'[b] \in {"reply", "answered"} => Exchange(b)'
  <2>1. CASE b = a
    BY <1>2, <2>1, SMT DEF RowsAsSaved, Unsaved
  <2>2. CASE b # a
    <3>1. at'[b] = at[b] /\ stamp'[b] = stamp[b] /\ messages' = messages
      BY <2>2 DEF Silent
    <3> QED
      BY <1>2, <3>1 DEF RowsAsSaved
  <2> QED
    BY <2>1, <2>2
<1> QED
  BY <1>1, <1>3 DEF RowsAsSaved

LEMMA AcceptKeepsTurns ==
  ASSUME TypeOK, TypeOK', TurnsInv, NEW a \in Asks, NEW s \in Sessions \cup {None}, Accept(a, s)
  PROVE  TurnsInv'
<1> USE ConversationAssumption DEF TurnsInv
<1>1. /\ at[a] = "new"
      /\ at' = [at EXCEPT ![a] = IF s = None THEN "createSession" ELSE "readMemory"]
      /\ session' = [session EXCEPT ![a] = s]
      /\ memory' = memory /\ stamp' = stamp /\ messages' = messages /\ clock' = clock
  BY Zenon DEF Accept, Goto, tables
<1>2. /\ disturbed \subseteq disturbed'
      /\ (\E b \in Asks : InProgress(b) /\ session[b] = s /\ s # None) => s \in disturbed'
  BY DEF Accept
<1>3. s \in {None, Ghost} \/ \E b \in Asks : at[b] = "answered" /\ session[b] = s
  BY DEF Accept
<1>4. at'[a] \in {"createSession", "readMemory"} /\ session'[a] = s
  BY <1>1 DEF TypeOK
<1>5. Silent(a)
  BY <1>1, <1>2, SMT DEF Silent, TypeOK
<1>6. RowsAsSaved' /\ RowsStamped'
  BY <1>1, <1>4, <1>5, SilentRows DEF Unsaved
<1>7. \A b \in Asks : Rows(b)' = Rows(b)
  BY <1>1 DEF Rows
<1>8. Rows(a) = {}
  BY <1>1 DEF RowsAsSaved, Unsaved
<1>9. SessionsFresh'
  <2> SUFFICES ASSUME NEW b \in Asks, NEW c \in Asks, at'[b] \in {"new", "createSession"}
               PROVE  session'[c] # b
    BY DEF SessionsFresh
  <2>1. at[b] \in {"new", "createSession"}
    BY <1>1, <1>4, <1>5 DEF Silent
  <2>2. s # b
    BY <1>3, <2>1 DEF SessionsFresh
  <2> QED
    BY <1>4, <1>5, <2>1, <2>2 DEF SessionsFresh, Silent
<1>10. OneAtATime'
  <2> SUFFICES ASSUME NEW b \in Asks, NEW c \in Asks, session'[b] = session'[c],
                      session'[b] \in Undisturbed'
               PROVE  /\ at'[b] \notin {"raised", "failed"}
                      /\ InProgress(b)' /\ InProgress(c)' => b = c
    BY DEF OneAtATime
  <2>1. session'[b] # None /\ session'[b] \in Undisturbed
    BY <1>2 DEF Undisturbed, Sessions
  <2>2. CASE b # a /\ c # a
    BY <1>5, <2>1, <2>2 DEF Silent, OneAtATime, InProgress
  <2>3. CASE b = a /\ c # a
    BY <1>2, <1>4, <1>5, <2>1, <2>3 DEF Silent, InProgress, Undisturbed
  <2>4. CASE c = a /\ b # a
    <3>1. at'[b] = at[b] /\ session'[b] = session[b] /\ session[b] = s
      BY <1>4, <1>5, <2>4 DEF Silent
    <3>2. at[b] \notin {"raised", "failed"}
      BY <2>1, <3>1 DEF OneAtATime
    <3> QED
      BY <1>2, <2>1, <3>1, <3>2 DEF InProgress, Undisturbed
  <2>5. CASE b = a /\ c = a
    BY <1>4, <2>5
  <2> QED
    BY <2>2, <2>3, <2>4, <2>5
<1>11. InOrder'
  <2> SUFFICES ASSUME NEW b \in Asks, NEW c \in Asks, session'[b] = session'[c],
                      session'[b] \in Undisturbed', at'[b] = "answered"
               PROVE  /\ InProgress(c)' => Precedes(b, c)'
                      /\ at'[c] \in {"saveQuestion", "saveAnswer"} =>
                           \A m \in Rows(b)' : m.created < stamp'[c]
                      /\ at'[c] = "answered" /\ b # c => Precedes(b, c)' \/ Precedes(c, b)'
    BY DEF InOrder
  <2>1. b # a /\ session'[b] \in Undisturbed
    BY <1>2, <1>4 DEF Undisturbed
  <2>2. CASE c # a
    BY <1>5, <1>7, <2>1, <2>2 DEF Silent, InOrder, Precedes, InProgress
  <2>3. CASE c = a
    BY <1>4, <1>7, <1>8, <2>3 DEF Precedes
  <2> QED
    BY <2>2, <2>3
<1>12. MemoryIsCurrent'
  <2> SUFFICES ASSUME NEW b \in Asks, at'[b] = "runAgent", session'[b] \in Undisturbed'
               PROVE  memory'[b] = Latest(session[b], 2 * Window)'
    BY DEF MemoryIsCurrent
  <2>1. b # a /\ session'[b] = session[b] /\ at[b] = "runAgent" /\ session[b] \in Undisturbed
    BY <1>2, <1>4, <1>5 DEF Silent, Undisturbed
  <2>2. RowsOf(session[b])' = RowsOf(session[b])
    <3>1. \A m \in messages : m.ask \in Asks /\ m.ask # a
      BY <1>8 DEF Rows, TypeOK, Messages
    <3> QED
      BY <1>1, <1>5, <2>1, <3>1 DEF RowsOf, Silent
  <2> QED
    BY <1>1, <2>1, <2>2 DEF MemoryIsCurrent, Latest
<1> QED
  BY <1>6, <1>9, <1>10, <1>11, <1>12

\* A step of a in its session, whether or not it writes: if a fails, its session
\* is disturbed.
Alone(a) == /\ \A b \in Asks \ {a} : at'[b] = at[b]
            /\ session' = session
            /\ disturbed \subseteq disturbed'
            /\ InProgress(a)
            /\ at'[a] \notin {"new", "createSession"}
            /\ at'[a] \in {"raised", "failed"} => session[a] \notin Undisturbed'

LEMMA AloneKeepsSessions ==
  ASSUME TypeOK, TypeOK', TurnsInv, NEW a \in Asks, Alone(a)
  PROVE  SessionsFresh' /\ OneAtATime'
<1> USE DEF TurnsInv, Alone
<1>1. SessionsFresh'
  BY DEF SessionsFresh
<1>2. OneAtATime'
  <2> SUFFICES ASSUME NEW b \in Asks, NEW c \in Asks, session[b] = session[c],
                      session[b] \in Undisturbed'
               PROVE  /\ at'[b] \notin {"raised", "failed"}
                      /\ InProgress(b)' /\ InProgress(c)' => b = c
    BY DEF OneAtATime
  <2>1. session[b] \in Undisturbed
    BY DEF Undisturbed
  <2>2. at'[b] \notin {"raised", "failed"}
    BY <2>1 DEF OneAtATime
  <2>3. (InProgress(b)' => InProgress(b)) /\ (InProgress(c)' => InProgress(c))
    BY DEF InProgress
  <2> QED
    BY <2>1, <2>2, <2>3 DEF OneAtATime
<1> QED
  BY <1>1, <1>2

\* While a is in its undisturbed session, no other request of it is in progress.
LEMMA OthersRest ==
  ASSUME TypeOK, TurnsInv, NEW a \in Asks, InProgress(a), NEW b \in Asks \ {a},
         session[b] = session[a], session[a] \in Undisturbed
  PROVE  ~ InProgress(b) /\ at[b] \notin {"saveQuestion", "saveAnswer", "runAgent"}
BY DEF TurnsInv, OneAtATime, InProgress, Over

\* The rows and the stamp of each other request.
OthersKept(a) == /\ \A b \in Asks \ {a} : stamp'[b] = stamp[b] /\ memory'[b] = memory[b]
                 /\ \A m \in Messages : m.ask # a => (m \in messages' <=> m \in messages)

LEMMA OtherRows ==
  ASSUME TypeOK, TypeOK', NEW a \in Asks, OthersKept(a), NEW b \in Asks \ {a}
  PROVE  Rows(b)' = Rows(b)
BY DEF OthersKept, Rows, TypeOK

\* The order is kept if what was answered before precedes a.
LEMMA AloneKeepsOrder ==
  ASSUME TypeOK, TypeOK', TurnsInv, NEW a \in Asks, Alone(a), OthersKept(a),
         \A b \in Asks \ {a} :
           session[b] = session[a] /\ session[a] \in Undisturbed' /\ at[b] = "answered" =>
             /\ Precedes(b, a)'
             /\ at'[a] \in {"saveQuestion", "saveAnswer"} =>
                  \A m \in Rows(b) : m.created < stamp'[a]
  PROVE  InOrder'
<1> SUFFICES ASSUME NEW b \in Asks, NEW c \in Asks, session[b] = session[c],
                    session[b] \in Undisturbed', at'[b] = "answered"
             PROVE  /\ InProgress(c)' => Precedes(b, c)'
                    /\ at'[c] \in {"saveQuestion", "saveAnswer"} =>
                         \A m \in Rows(b)' : m.created < stamp'[c]
                    /\ at'[c] = "answered" /\ b # c => Precedes(b, c)' \/ Precedes(c, b)'
  BY DEF InOrder, Alone
<1>1. session[b] \in Undisturbed
  BY DEF Undisturbed, Alone
<1>2. CASE b # a /\ c # a
  <2>1. at'[b] = at[b] /\ at'[c] = at[c] /\ stamp'[c] = stamp[c]
        /\ Rows(b)' = Rows(b) /\ Rows(c)' = Rows(c)
    BY <1>2, OtherRows DEF Alone, OthersKept
  <2>2. Precedes(b, c)' = Precedes(b, c) /\ Precedes(c, b)' = Precedes(c, b)
    BY <2>1 DEF Precedes
  <2> QED
    BY <1>1, <2>1, <2>2 DEF TurnsInv, InOrder, InProgress
<1>3. CASE b # a /\ c = a
  <2>1. at[b] = "answered" /\ Rows(b)' = Rows(b)
    BY <1>3, OtherRows DEF Alone
  <2> QED
    BY <1>3, <2>1
<1>4. CASE b = a /\ c # a
  <2>1. at'[c] = at[c] /\ ~ InProgress(c)
    BY <1>1, <1>4, OthersRest DEF Alone
  <2>2. at[c] = "answered" => Precedes(c, b)'
    BY <1>4
  <2> QED
    BY <1>4, <2>1, <2>2 DEF InProgress, Over
<1>5. CASE b = a /\ c = a
  BY <1>5 DEF InProgress, Over
<1> QED
  BY <1>2, <1>3, <1>4, <1>5

LEMMA AloneKeepsMemory ==
  ASSUME TypeOK, TypeOK', TurnsInv, NEW a \in Asks, Alone(a), OthersKept(a),
         at'[a] = "runAgent" => memory'[a] = Latest(session[a], 2 * Window)'
  PROVE  MemoryIsCurrent'
<1> SUFFICES ASSUME NEW b \in Asks, at'[b] = "runAgent", session[b] \in Undisturbed', b # a
             PROVE  memory'[b] = Latest(session[b], 2 * Window)'
  BY DEF MemoryIsCurrent, Alone
<1>1. at[b] = "runAgent" /\ session[b] \in Undisturbed /\ memory'[b] = memory[b]
  BY DEF Alone, OthersKept, Undisturbed
<1>2. session[a] # session[b]
  BY <1>1, OthersRest DEF Alone
<1>3. RowsOf(session[b])' = RowsOf(session[b])
  BY <1>2 DEF RowsOf, Alone, OthersKept, TypeOK
<1> QED
  BY <1>1, <1>3 DEF TurnsInv, MemoryIsCurrent, Latest

LEMMA CreateSessionKeepsTurns ==
  ASSUME TypeOK, TypeOK', TurnsInv, NEW a \in Asks, CreateSession(a)
  PROVE  TurnsInv'
<1> USE DEF TurnsInv
<1>1. /\ at[a] = "createSession"
      /\ session' = [session EXCEPT ![a] = a]
      /\ memory' = memory /\ stamp' = stamp /\ messages' = messages /\ clock' = clock
      /\ disturbed \subseteq disturbed'
  BY DEF CreateSession
<1>2. /\ \E l \in {"readMemory", "raised"} : at' = [at EXCEPT ![a] = l]
      /\ at'[a] = "raised" => a \in disturbed'
  BY <1>1 DEF CreateSession, Goto, TypeOK
<1>3. Silent(a) /\ session'[a] = a /\ at'[a] \in {"readMemory", "raised"}
  BY <1>1, <1>2, SMT DEF Silent, TypeOK
<1>4. RowsAsSaved' /\ RowsStamped'
  BY <1>1, <1>3, SilentRows DEF Unsaved
<1>5. \A b \in Asks : session[b] # a
  BY <1>1 DEF SessionsFresh
<1>6. Rows(a) = {} /\ \A b \in Asks : Rows(b)' = Rows(b)
  BY <1>1 DEF RowsAsSaved, Unsaved, Rows
<1>7. SessionsFresh'
  BY <1>3 DEF SessionsFresh, Silent
<1>8. OneAtATime'
  <2> SUFFICES ASSUME NEW b \in Asks, NEW c \in Asks, session'[b] = session'[c],
                      session'[b] \in Undisturbed'
               PROVE  /\ at'[b] \notin {"raised", "failed"}
                      /\ InProgress(b)' /\ InProgress(c)' => b = c
    BY DEF OneAtATime
  <2>1. session'[b] \in Undisturbed
    BY <1>1 DEF Undisturbed
  <2>2. CASE b = a \/ c = a
    <3>1. b = a /\ c = a
      BY <1>3, <1>5, <2>2 DEF Silent
    <3> QED
      BY <1>2, <1>3, <3>1 DEF Undisturbed
  <2>3. CASE b # a /\ c # a
    BY <1>3, <2>1, <2>3 DEF Silent, OneAtATime, InProgress
  <2> QED
    BY <2>2, <2>3
<1>9. InOrder'
  <2> SUFFICES ASSUME NEW b \in Asks, NEW c \in Asks, session'[b] = session'[c],
                      session'[b] \in Undisturbed', at'[b] = "answered"
               PROVE  /\ InProgress(c)' => Precedes(b, c)'
                      /\ at'[c] \in {"saveQuestion", "saveAnswer"} =>
                           \A m \in Rows(b)' : m.created < stamp'[c]
                      /\ at'[c] = "answered" /\ b # c => Precedes(b, c)' \/ Precedes(c, b)'
    BY DEF InOrder
  <2>1. b # a /\ c # a /\ session'[b] \in Undisturbed
    BY <1>1, <1>3, <1>5 DEF Silent, Undisturbed
  <2> QED
    BY <1>3, <1>6, <2>1 DEF Silent, InOrder, Precedes, InProgress
<1>10. MemoryIsCurrent'
  <2> SUFFICES ASSUME NEW b \in Asks, at'[b] = "runAgent", session'[b] \in Undisturbed'
               PROVE  memory'[b] = Latest(session[b], 2 * Window)'
    BY DEF MemoryIsCurrent
  <2>1. b # a /\ session'[b] = session[b] /\ at[b] = "runAgent" /\ session[b] \in Undisturbed
    BY <1>1, <1>3 DEF Silent, Undisturbed
  <2>2. RowsOf(session[b])' = RowsOf(session[b])
    <3>1. \A m \in messages : m.ask \in Asks /\ m.ask # a
      BY <1>6 DEF Rows, TypeOK, Messages
    <3> QED
      BY <1>1, <1>3, <2>1, <3>1 DEF RowsOf, Silent
  <2> QED
    BY <1>1, <2>1, <2>2 DEF MemoryIsCurrent, Latest
<1> QED
  BY <1>4, <1>7, <1>8, <1>9, <1>10

LEMMA ReadMemoryKeepsTurns ==
  ASSUME TypeOK, TypeOK', TurnsInv, NEW a \in Asks, ReadMemory(a)
  PROVE  TurnsInv'
<1> USE DEF TurnsInv
<1>1. /\ at[a] = "readMemory" /\ at' = [at EXCEPT ![a] = "runAgent"]
      /\ memory' = [memory EXCEPT ![a] = Latest(session[a], 2 * Window)]
      /\ session' = session /\ stamp' = stamp /\ messages' = messages /\ clock' = clock
      /\ disturbed' = disturbed
  BY DEF ReadMemory, Goto, tables
<1>2. Silent(a) /\ at'[a] = "runAgent"
  BY <1>1, SMT DEF Silent, TypeOK
<1>3. Alone(a) /\ OthersKept(a)
  BY <1>1, <1>2, SMT DEF Alone, OthersKept, Silent, InProgress, Over, TypeOK
<1>4. RowsAsSaved' /\ RowsStamped'
  BY <1>1, <1>2, SilentRows DEF Unsaved
<1>5. SessionsFresh' /\ OneAtATime'
  BY <1>3, AloneKeepsSessions
<1>6. Rows(a)' = {}
  BY <1>2, <1>4 DEF RowsAsSaved, Unsaved
<1>7. InOrder'
  BY <1>2, <1>3, <1>6, AloneKeepsOrder DEF Precedes
<1>8. MemoryIsCurrent'
  <2>1. RowsOf(session[a])' = RowsOf(session[a])
    BY <1>1 DEF RowsOf
  <2>2. memory'[a] = Latest(session[a], 2 * Window)'
    BY <1>1, <2>1 DEF Latest, TypeOK
  <2> QED
    BY <1>3, <2>2, AloneKeepsMemory
<1> QED
  BY <1>4, <1>5, <1>7, <1>8

LEMMA RunAgentKeepsTurns ==
  ASSUME TypeOK, TypeOK', TurnsInv, NEW a \in Asks, RunAgent(a)
  PROVE  TurnsInv'
<1> USE DEF TurnsInv
<1>1. /\ at[a] = "runAgent" /\ at' = [at EXCEPT ![a] = "saveQuestion"]
      /\ stamp' = [stamp EXCEPT ![a] = clock + 1] /\ clock' = clock + 1
      /\ session' = session /\ memory' = memory /\ messages' = messages
      /\ disturbed' = disturbed
  BY DEF RunAgent, Goto, Stamp, tables
<1>2. Silent(a) /\ at'[a] = "saveQuestion" /\ stamp'[a] = clock + 1
  BY <1>1, SMT DEF Silent, TypeOK
<1>3. Alone(a) /\ OthersKept(a)
  BY <1>1, <1>2, SMT DEF Alone, OthersKept, Silent, InProgress, Over, TypeOK
<1>4. RowsAsSaved' /\ RowsStamped'
  BY <1>1, <1>2, SilentRows DEF Unsaved
<1>5. SessionsFresh' /\ OneAtATime'
  BY <1>3, AloneKeepsSessions
<1>6. Rows(a)' = {}
  BY <1>2, <1>4 DEF RowsAsSaved, Unsaved
<1>7. \A m \in messages : m.created < clock + 1
  BY SMT DEF RowsStamped, TypeOK, Messages
<1>8. InOrder'
  BY <1>2, <1>3, <1>6, <1>7, AloneKeepsOrder DEF Precedes, Rows
<1>9. MemoryIsCurrent'
  BY <1>2, <1>3, AloneKeepsMemory
<1> QED
  BY <1>4, <1>5, <1>8, <1>9

\* A commit adds one row of a.
LEMMA CommitKeepsOthers ==
  ASSUME TypeOK, NEW a \in Asks, NEW sender \in Senders,
         messages' = messages \cup {Row(a, sender)}
  PROVE  /\ \A m \in Messages : m.ask # a => (m \in messages' <=> m \in messages)
         /\ Rows(a)' = Rows(a) \cup {Row(a, sender)}
         /\ \A b \in Asks \ {a} : Rows(b)' = Rows(b) /\ (Exchange(b) => Exchange(b)')
<1>1. Row(a, sender).ask = a
  BY DEF Row
<1>2. \A m \in Messages : m.ask # a => (m \in messages' <=> m \in messages)
  BY <1>1
<1>3. Rows(a)' = Rows(a) \cup {Row(a, sender)}
  BY <1>1 DEF Rows
<1>4. \A b \in Asks \ {a} : Rows(b)' = Rows(b)
  BY <1>1 DEF Rows
<1>5. \A b \in Asks \ {a} : Exchange(b) => Exchange(b)'
  BY <1>4 DEF Exchange
<1> QED
  BY <1>2, <1>3, <1>4, <1>5

\* What both saves of a share; the stamp of a row was given after all rows of
\* the requests that were answered before.
LEMMA SaveKeepsTurns ==
  ASSUME TypeOK, TypeOK', TurnsInv, NEW a \in Asks, NEW sender \in Senders,
         at[a] \in {"saveQuestion", "saveAnswer"},
         messages' = messages \cup {Row(a, sender)},
         stamp[a] <= clock, clock <= clock',
         session' = session, memory' = memory, disturbed \subseteq disturbed',
         \A b \in Asks \ {a} : at'[b] = at[b] /\ stamp'[b] = stamp[b],
         \/ at'[a] = "saveAnswer" /\ stamp'[a] = clock + 1
         \/ at'[a] = "reply"
         \/ at'[a] = "raised" /\ session[a] \notin Undisturbed'
  PROVE  RowsStamped' /\ SessionsFresh' /\ OneAtATime' /\ InOrder' /\ MemoryIsCurrent'
<1> USE DEF TurnsInv
<1>1. Alone(a) /\ OthersKept(a)
  BY CommitKeepsOthers DEF Alone, OthersKept, InProgress, Over
<1>2. SessionsFresh' /\ OneAtATime'
  BY <1>1, AloneKeepsSessions
<1>3. Row(a, sender).created = stamp[a] /\ Row(a, sender) \in Messages
  BY RowsAreMessages DEF Row
<1>4. RowsStamped'
  <2>1. IsFiniteSet(messages')
    BY FS_AddElement DEF RowsStamped
  <2>2. \A m \in messages' : m.created <= clock'
    BY <1>3, SMT DEF RowsStamped, TypeOK, Messages
  <2> QED
    BY <2>1, <2>2 DEF RowsStamped
<1>5. ASSUME NEW b \in Asks \ {a}, session[b] = session[a], session[a] \in Undisturbed',
             at[b] = "answered"
      PROVE  /\ Precedes(b, a)'
             /\ at'[a] \in {"saveQuestion", "saveAnswer"} =>
                  \A m \in Rows(b) : m.created < stamp'[a]
  <2>1. session[a] \in Undisturbed /\ InProgress(a)
    BY <1>5 DEF Undisturbed, InProgress, Over
  <2>2. Precedes(b, a) /\ \A m \in Rows(b) : m.created < stamp[a]
    BY <1>5, <2>1 DEF InOrder
  <2>3. Rows(b)' = Rows(b) /\ Rows(a)' = Rows(a) \cup {Row(a, sender)}
    BY CommitKeepsOthers
  <2>4. Precedes(b, a)'
    BY <1>3, <2>2, <2>3 DEF Precedes
  <2>5. \A m \in Rows(b) : m.created < clock + 1
    BY SMT DEF RowsStamped, TypeOK, Messages, Rows
  <2> QED
    BY <2>4, <2>5
<1>6. InOrder'
  BY <1>1, <1>5, AloneKeepsOrder
<1>7. MemoryIsCurrent'
  BY <1>1, AloneKeepsMemory
<1> QED
  BY <1>2, <1>4, <1>6, <1>7

LEMMA SaveQuestionKeepsTurns ==
  ASSUME TypeOK, TypeOK', ConversationInv, TurnsInv, NEW a \in Asks, SaveQuestion(a)
  PROVE  TurnsInv'
<1> USE DEF TurnsInv
<1>1. /\ at[a] = "saveQuestion" /\ session' = session /\ memory' = memory
      /\ messages' = messages \cup {Row(a, "user")} /\ stamp[a] <= clock
  BY DEF SaveQuestion, ConversationInv
<1>2. \/ /\ at' = [at EXCEPT ![a] = "saveAnswer"]
         /\ stamp' = [stamp EXCEPT ![a] = clock + 1] /\ clock' = clock + 1
         /\ disturbed' = disturbed
      \/ /\ at' = [at EXCEPT ![a] = "raised"]
         /\ stamp' = stamp /\ clock' = clock
         /\ disturbed' = disturbed \cup {session[a]}
  BY DEF SaveQuestion, Goto, Stamp, Raise
<1>3. /\ \A b \in Asks \ {a} : at'[b] = at[b] /\ stamp'[b] = stamp[b]
      /\ \/ at'[a] = "saveAnswer" /\ stamp'[a] = clock + 1
         \/ at'[a] = "raised" /\ session[a] \in disturbed'
      /\ disturbed \subseteq disturbed' /\ clock <= clock' /\ "user" \in Senders
  BY <1>2, SMT DEF TypeOK, Senders
<1>4. RowsStamped' /\ SessionsFresh' /\ OneAtATime' /\ InOrder' /\ MemoryIsCurrent'
  BY <1>1, <1>3, SaveKeepsTurns DEF Undisturbed
<1>5. RowsAsSaved'
  <2>1. Rows(a)' = {Row(a, "user")} /\ Row(a, "user") \in messages'
    BY <1>1, <1>3, CommitKeepsOthers DEF RowsAsSaved, Unsaved
  <2>2. Row(a, "user").sender = "user" /\ Row(a, "user").created = stamp[a]
    BY DEF Row
  <2>3. stamp[a] < clock + 1
    BY <1>1, SMT DEF TypeOK
  <2>4. ASSUME NEW b \in Asks \ {a}
        PROVE  Rows(b)' = Rows(b) /\ (Exchange(b) => Exchange(b)')
               /\ at'[b] = at[b] /\ stamp'[b] = stamp[b] /\ messages \subseteq messages'
    BY <1>1, <1>3, CommitKeepsOthers
  <2> QED
    BY <1>3, <2>1, <2>2, <2>3, <2>4 DEF RowsAsSaved, Unsaved
<1> QED
  BY <1>4, <1>5

LEMMA SaveAnswerKeepsTurns ==
  ASSUME TypeOK, TypeOK', ConversationInv, TurnsInv, NEW a \in Asks, SaveAnswer(a)
  PROVE  TurnsInv'
<1> USE DEF TurnsInv
<1>1. /\ at[a] = "saveAnswer" /\ session' = session /\ memory' = memory /\ stamp' = stamp
      /\ messages' = messages \cup {Row(a, "assistant")} /\ clock' = clock
      /\ stamp[a] <= clock
  BY DEF SaveAnswer, ConversationInv
<1>2. \/ at' = [at EXCEPT ![a] = "reply"] /\ disturbed' = disturbed
      \/ at' = [at EXCEPT ![a] = "raised"] /\ disturbed' = disturbed \cup {session[a]}
  BY DEF SaveAnswer, Goto, Raise
<1>3. /\ \A b \in Asks \ {a} : at'[b] = at[b]
      /\ \/ at'[a] = "reply"
         \/ at'[a] = "raised" /\ session[a] \in disturbed'
      /\ disturbed \subseteq disturbed' /\ clock <= clock' /\ "assistant" \in Senders
  BY <1>1, <1>2, SMT DEF TypeOK, Senders
<1>4. RowsStamped' /\ SessionsFresh' /\ OneAtATime' /\ InOrder' /\ MemoryIsCurrent'
  BY <1>1, <1>3, SaveKeepsTurns DEF Undisturbed
<1>5. RowsAsSaved'
  <2>1. PICK q \in messages : Rows(a) = {q} /\ q.sender = "user" /\ q.created < stamp[a]
    BY <1>1 DEF RowsAsSaved
  <2>2. Rows(a)' = {q, Row(a, "assistant")} /\ Row(a, "assistant") \in messages' /\ q \in messages'
    BY <1>1, <1>3, <2>1, CommitKeepsOthers
  <2>3. Row(a, "assistant").sender = "assistant" /\ Row(a, "assistant").created = stamp[a]
    BY DEF Row
  <2>4. Exchange(a)'
    BY <2>1, <2>2, <2>3 DEF Exchange
  <2>5. ASSUME NEW b \in Asks \ {a}
        PROVE  Rows(b)' = Rows(b) /\ (Exchange(b) => Exchange(b)')
               /\ at'[b] = at[b] /\ stamp'[b] = stamp[b] /\ messages \subseteq messages'
    BY <1>1, <1>3, CommitKeepsOthers
  <2> QED
    BY <1>3, <2>4, <2>5 DEF RowsAsSaved, Unsaved
<1> QED
  BY <1>4, <1>5

\* A request of which nothing more is written: it raises, or its reply is sent.
LEMMA EndKeepsTurns ==
  ASSUME TypeOK, TypeOK', TurnsInv, NEW a \in Asks, CallRaises(a) \/ Reply(a)
  PROVE  TurnsInv'
<1> USE DEF TurnsInv
<1>1. /\ session' = session /\ memory' = memory /\ stamp' = stamp /\ messages' = messages
      /\ clock' = clock
  BY DEF CallRaises, Reply, tables
<1>2. \/ /\ at' = [at EXCEPT ![a] = "raised"] /\ disturbed' = disturbed \cup {session[a]}
         /\ at[a] \in {"createSession", "readMemory", "runAgent", "saveQuestion", "saveAnswer"}
      \/ at[a] = "reply" /\ at' = [at EXCEPT ![a] = "answered"] /\ disturbed' = disturbed
      \/ at[a] = "raised" /\ at' = [at EXCEPT ![a] = "failed"] /\ disturbed' = disturbed
  BY DEF CallRaises, TableCalls, Raise, Reply, Goto
<1>3. /\ \/ at'[a] = "raised" /\ session[a] \in disturbed'
         \/ at[a] = "reply" /\ at'[a] = "answered"
         \/ at[a] = "raised" /\ at'[a] = "failed"
      /\ \A b \in Asks \ {a} : at'[b] = at[b]
      /\ disturbed \subseteq disturbed' /\ InProgress(a)
  BY <1>2, SMT DEF TypeOK, InProgress, Over
<1>4. at[a] = "raised" => session[a] \notin Undisturbed
  BY DEF OneAtATime
<1>5. Silent(a) /\ Alone(a) /\ OthersKept(a)
  BY <1>1, <1>3, <1>4, SMT DEF Silent, Alone, OthersKept, Undisturbed, TypeOK
<1>6. RowsAsSaved' /\ RowsStamped'
  BY <1>3, <1>5, SilentRows
<1>7. SessionsFresh' /\ OneAtATime'
  BY <1>5, AloneKeepsSessions
<1>8. ASSUME NEW b \in Asks \ {a}, session[b] = session[a], session[a] \in Undisturbed',
             at[b] = "answered"
      PROVE  Precedes(b, a)'
  <2>1. Precedes(b, a)' = Precedes(b, a)
    BY <1>1 DEF Precedes, Rows
  <2> QED
    BY <1>3, <1>8, <2>1 DEF InOrder, Undisturbed
<1>9. InOrder'
  BY <1>3, <1>5, <1>8, AloneKeepsOrder
<1>10. MemoryIsCurrent'
  BY <1>3, <1>5, AloneKeepsMemory
<1> QED
  BY <1>6, <1>7, <1>9, <1>10

LEMMA TurnsStep == TypeOK /\ TypeOK' /\ ConversationInv /\ TurnsInv /\ [Next]_vars => TurnsInv'
<1> SUFFICES ASSUME TypeOK, TypeOK', ConversationInv, TurnsInv, [Next]_vars
             PROVE  TurnsInv'
  OBVIOUS
<1>1. CASE \E a \in Asks : (\E s \in Sessions \cup {None} : Accept(a, s)) \/ AskStep(a)
  BY <1>1, AcceptKeepsTurns, CreateSessionKeepsTurns, ReadMemoryKeepsTurns, RunAgentKeepsTurns,
     SaveQuestionKeepsTurns, SaveAnswerKeepsTurns, EndKeepsTurns DEF AskStep
<1>2. CASE (\E c \in Chats : StartChat(c) \/ FinishChat(c)) \/ UNCHANGED vars
  <2>1. /\ at' = at /\ session' = session /\ memory' = memory /\ stamp' = stamp
        /\ messages' = messages /\ clock' = clock /\ disturbed' = disturbed
    BY <1>2 DEF StartChat, FinishChat, vars, tables
  <2>2. /\ RowsAsSaved' = RowsAsSaved /\ RowsStamped' = RowsStamped
        /\ SessionsFresh' = SessionsFresh
    BY <2>1 DEF RowsAsSaved, Rows, Exchange, RowsStamped, SessionsFresh
  <2>3. OneAtATime' = OneAtATime /\ InOrder' = InOrder /\ MemoryIsCurrent' = MemoryIsCurrent
    BY <2>1 DEF OneAtATime, InOrder, MemoryIsCurrent, InProgress, Undisturbed, Precedes, Rows,
                Latest, RowsOf
  <2> QED
    BY <2>2, <2>3 DEF TurnsInv
<1> QED
  BY <1>1, <1>2 DEF Next

-----------------------------------------------------------------------------
(* Counting exchanges.                                                     *)

\* The rows of the requests in A are two for each.
LEMMA ExchangesArePairs ==
  ASSUME IsFiniteSet(messages), messages \subseteq Messages,
         NEW A \in SUBSET Asks, \A b \in A : Exchange(b)
  PROVE  /\ IsFiniteSet(A)
         /\ Cardinality({m \in messages : m.ask \in A}) = 2 * Cardinality(A)
<1> DEFINE of(sender) == {m \in messages : m.ask \in A /\ m.sender = sender}
           row(sender) == [b \in A |-> CHOOSE m \in messages : m.ask = b /\ m.sender = sender]
<1>1. ASSUME NEW sender \in Senders
      PROVE  IsFiniteSet(A) /\ IsFiniteSet(of(sender)) /\ Cardinality(of(sender)) = Cardinality(A)
  <2>1. ASSUME NEW b \in A
        PROVE  \E m \in messages : /\ m.ask = b /\ m.sender = sender
                                   /\ \A n \in messages : n.ask = b /\ n.sender = sender => n = m
    BY DEF Exchange, Rows, Senders
  <2>2. \A b \in A : /\ row(sender)[b] \in of(sender) /\ row(sender)[b].ask = b
                     /\ \A n \in messages : n.ask = b /\ n.sender = sender => n = row(sender)[b]
    BY <2>1
  <2> HIDE DEF row
  <2>3. DOMAIN row(sender) = A
    BY DEF row
  <2>4. row(sender) \in [A -> of(sender)]
    BY <2>2, <2>3 DEF row
  <2>5. row(sender) \in Bijection(A, of(sender))
    <3>1. \A b, c \in A : row(sender)[b] = row(sender)[c] => b = c
      BY <2>2
    <3>2. \A m \in of(sender) : \E b \in A : row(sender)[b] = m
      BY <2>2
    <3> QED
      BY <2>3, <2>4, <3>1, <3>2 DEF Bijection, Injection, Surjection, IsInjective
  <2>6. IsFiniteSet(of(sender))
    BY FS_Subset
  <2> HIDE DEF of
  <2>7. IsFiniteSet(A) /\ Cardinality(A) <= Cardinality(of(sender))
        /\ (Cardinality(A) = Cardinality(of(sender)) <=> row(sender) \in Surjection(A, of(sender)))
    BY <2>5, <2>6, FS_Injection DEF Bijection
  <2> QED
    BY <2>5, <2>6, <2>7 DEF Bijection
<1>2. {m \in messages : m.ask \in A} = of("user") \cup of("assistant")
  BY DEF Messages, Senders
<1>3. of("user") \cap of("assistant") = {}
  OBVIOUS
<1> HIDE DEF of
<1>4. Cardinality(of("user") \cup of("assistant")) = 2 * Cardinality(A)
  <2>1. /\ Cardinality(of("user")) = Cardinality(A) /\ Cardinality(of("assistant")) = Cardinality(A)
        /\ IsFiniteSet(of("user")) /\ IsFiniteSet(of("assistant")) /\ IsFiniteSet(A)
    BY <1>1 DEF Senders
  <2>2. Cardinality(of("user") \cup of("assistant"))
          = Cardinality(of("user")) + Cardinality(of("assistant")) - 0
    BY <1>3, <2>1, FS_Union, FS_EmptySet
  <2>3. Cardinality(A) \in Nat
    BY <2>1, FS_CardinalityType
  <2> QED
    BY <2>1, <2>2, <2>3, SMT
<1> QED
  BY <1>1, <1>2, <1>4 DEF Senders

\* Of the exchanges A of a session, in an order without overlaps, the rows
\* stamped after a row of b are those of the exchanges after b, and b's answer
\* if the row is its question.
LEMMA RowsAfter ==
  ASSUME TypeOK, IsFiniteSet(messages),
         NEW A \in SUBSET Asks, \A b \in A : Exchange(b),
         \A b, c \in A : b # c => Precedes(b, c) \/ Precedes(c, b),
         NEW b \in A, NEW m \in Rows(b)
  PROVE  LET after == {c \in A \ {b} : Precedes(b, c)}
             later == {x \in {y \in messages : y.ask \in A} : x.created > m.created}
         IN /\ IsFiniteSet(after)
            /\ Cardinality(later) \in {2 * Cardinality(after), 2 * Cardinality(after) + 1}
<1> DEFINE after == {c \in A \ {b} : Precedes(b, c)}
           later == {x \in {y \in messages : y.ask \in A} : x.created > m.created}
           theirs == {x \in messages : x.ask \in after}
<1>1. IsFiniteSet(after) /\ Cardinality(theirs) = 2 * Cardinality(after)
  BY ExchangesArePairs DEF TypeOK
<1>2. PICK q, r \in messages : /\ Rows(b) = {q, r} /\ q.sender = "user"
                               /\ r.sender = "assistant" /\ q.created < r.created
  BY DEF Exchange
<1>3. q.created \in Nat /\ r.created \in Nat /\ q.ask = b /\ r.ask = b /\ q # r
  BY <1>2 DEF TypeOK, Messages, Rows
<1>4. \A x \in messages : x.created \in Nat
  BY DEF TypeOK, Messages
<1>5. theirs \subseteq later
  <2> SUFFICES ASSUME NEW x \in theirs PROVE x \in later
    OBVIOUS
  <2>1. Precedes(b, x.ask) /\ x \in Rows(x.ask) /\ x.ask \in A
    BY DEF Rows
  <2>2. m.created < x.created
    BY <2>1 DEF Precedes
  <2> QED
    BY <1>4, <2>1, <2>2, SMT DEF Rows
<1>6. \A x \in later : x \in theirs \/ x.ask = b
  <2> SUFFICES ASSUME NEW x \in later, x.ask # b, x \notin theirs PROVE FALSE
    OBVIOUS
  <2>1. x.ask \in A /\ x \in Rows(x.ask) /\ ~ Precedes(b, x.ask)
    BY DEF Rows
  <2>2. Precedes(x.ask, b)
    BY <2>1
  <2>3. x.created < m.created
    BY <2>1, <2>2 DEF Precedes
  <2> QED
    BY <1>4, <2>3, SMT DEF Rows
<1>7. r \notin theirs /\ q \notin theirs
  BY <1>3
<1>8. CASE m = r
  <2>1. later = theirs
    BY <1>2, <1>3, <1>5, <1>6, <1>8, SMT DEF Rows
  <2> QED
    BY <1>1, <2>1
<1>9. CASE m = q
  <2>1. later = theirs \cup {r}
    BY <1>2, <1>3, <1>5, <1>6, <1>9, SMT DEF Rows
  <2>2. IsFiniteSet(theirs)
    BY FS_Subset
  <2>3. Cardinality(later) = Cardinality(theirs) + 1
    BY <1>7, <2>1, <2>2, FS_AddElement
  <2> QED
    BY <1>1, <2>3
<1> QED
  BY <1>1, <1>2, <1>8, <1>9

LEMMA TurnsAreWhole == TypeOK /\ TurnsInv => WholeTurns
<1> SUFFICES ASSUME TypeOK, TurnsInv, NEW a \in Asks,
                    at[a] = "runAgent", session[a] \notin disturbed
             PROVE  LET past == {b \in Asks : at[b] = "answered" /\ session[b] = session[a]}
                        stamps(b) == {m.created : m \in {x \in messages : x.ask = b}}
                        after(b) == {c \in past \ {b} : \A i \in stamps(b), j \in stamps(c) : i < j}
                        last == {b \in past : Cardinality(after(b)) < Window}
                    IN memory[a] = {m \in messages : m.ask \in last}
  BY DEF WholeTurns
<1> DEFINE past == {b \in Asks : at[b] = "answered" /\ session[b] = session[a]}
           stamps(b) == {m.created : m \in {x \in messages : x.ask = b}}
           after(b) == {c \in past \ {b} : \A i \in stamps(b), j \in stamps(c) : i < j}
           last == {b \in past : Cardinality(after(b)) < Window}
<1> USE DEF TurnsInv
<1>1. session[a] \in Undisturbed /\ InProgress(a)
  BY DEF Undisturbed, TypeOK, Named, InProgress, Over
<1>2. memory[a] = Latest(session[a], 2 * Window)
  BY <1>1 DEF MemoryIsCurrent
<1>3. \A b \in past : Exchange(b)
  BY DEF RowsAsSaved
<1>4. \A b, c \in past : b # c => Precedes(b, c) \/ Precedes(c, b)
  BY <1>1 DEF InOrder
<1>5. RowsOf(session[a]) = {m \in messages : m.ask \in past}
  <2> SUFFICES ASSUME NEW m \in messages, session[m.ask] = session[a] PROVE m.ask \in past
    BY DEF RowsOf
  <2>1. m.ask \in Asks /\ m \in Rows(m.ask)
    BY DEF TypeOK, Messages, Rows
  <2>2. m.ask # a /\ at[m.ask] # "new"
    BY <2>1 DEF RowsAsSaved, Unsaved
  <2>3. ~ InProgress(m.ask)
    BY <1>1, <2>1, <2>2, OthersRest
  <2>4. at[m.ask] # "failed"
    BY <1>1, <2>1 DEF OneAtATime
  <2> QED
    BY <2>1, <2>2, <2>3, <2>4 DEF InProgress, Over
<1>6. \A b \in past : after(b) = {c \in past \ {b} : Precedes(b, c)}
  BY DEF Precedes, Rows
<1>7. ASSUME NEW m \in messages, m.ask \in past
      PROVE  m \in Latest(session[a], 2 * Window) <=> m.ask \in last
  <2> DEFINE later == {x \in {y \in messages : y.ask \in past} : x.created > m.created}
             next == {c \in past \ {m.ask} : Precedes(m.ask, c)}
  <2>1. /\ IsFiniteSet(next)
        /\ Cardinality(later) \in {2 * Cardinality(next), 2 * Cardinality(next) + 1}
    <3>1. m \in Rows(m.ask) /\ IsFiniteSet(messages) /\ past \in SUBSET Asks
      BY DEF Rows, RowsStamped
    <3> HIDE DEF past
    <3> QED
      BY <1>3, <1>4, <1>7, <3>1, RowsAfter
  <2>2. m \in Latest(session[a], 2 * Window) <=> Cardinality(later) < 2 * Window
    BY <1>5, <1>7 DEF Latest
  <2>3. m.ask \in last <=> Cardinality(next) < Window
    BY <1>6, <1>7
  <2>4. Cardinality(next) \in Nat
    BY <2>1, FS_CardinalityType
  <2> HIDE DEF later, next, last
  <2> QED
    BY <2>1, <2>2, <2>3, <2>4, ConversationAssumption, SMT
<1>8. Latest(session[a], 2 * Window) \subseteq {m \in messages : m.ask \in past}
  BY <1>5 DEF Latest
<1> QED
  BY <1>2, <1>7, <1>8

\* The memory of a request whose session was never disturbed is made of the last
\* exchanges of it, as many as the window, none of them cut in half: for any
\* number of requests, in this session and in others, and any window.  Requests
\* that reach the agent exist over the tables that the ORM declares; over those
\* of init.sql there is none (UuidColumnsStoreNothing).
THEOREM MemoryHoldsWholeTurns == Spec => []WholeTurns
<1>1. Init => TurnsInv
  BY TurnsInit
<1>2. TypeOK /\ TypeOK' /\ ConversationInv /\ TurnsInv /\ [Next]_vars => TurnsInv'
  BY TurnsStep
<1>3. TypeOK /\ TurnsInv => WholeTurns
  BY TurnsAreWhole
<1> QED
  BY <1>1, <1>2, <1>3, ConversationInvariant, PTL DEF Spec
-----------------------------------------------------------------------------
(* The tables of the deployment, whose ids are UUID columns.               *)

\* Each call that binds an id raises: nothing is stored and nobody answered.
NothingStored == /\ sessions = {}
                 /\ messages = {}
                 /\ \A a \in Asks : at[a] \in {"new", "createSession", "readMemory",
                                              "raised", "failed"}

LEMMA NothingStoredInit == Init => NothingStored
  BY DEF Init, NothingStored

LEMMA NothingStoredNext ==
  ASSUME UuidColumns, TypeOK, NothingStored, [Next]_vars
  PROVE  NothingStored'
<1> USE DEF NothingStored, TypeOK
<1>1. ASSUME NEW a \in Asks, NEW s \in Sessions \cup {None}, Accept(a, s)
      PROVE  NothingStored'
  BY <1>1 DEF Accept, Goto, tables
<1>2. ASSUME NEW a \in Asks, AskStep(a)
      PROVE  NothingStored'
  <2>1. CallRaises(a) \/ Reply(a)
    BY <1>2 DEF AskStep, CreateSession, ReadMemory, RunAgent, SaveQuestion, SaveAnswer
  <2>2. \E l \in {"raised", "failed"} : at' = [at EXCEPT ![a] = l]
    BY <2>1 DEF CallRaises, Raise, Reply, Goto
  <2>3. UNCHANGED tables
    BY <2>1 DEF CallRaises, Reply, tables
  <2> QED BY <2>2, <2>3 DEF tables
<1>3. ASSUME NEW c \in Chats, StartChat(c) \/ FinishChat(c)
      PROVE  NothingStored'
  BY <1>3 DEF StartChat, FinishChat, tables
<1>4. CASE UNCHANGED vars
  BY <1>4 DEF vars, tables
<1> QED BY <1>1, <1>2, <1>3, <1>4 DEF Next

\* Over the tables of infra/postgres/init.sql no session and no message is ever
\* stored and no question answered with 200 (conversation_history.py:17, 24-25):
\* there, what is said above of stored rows is said of none.
THEOREM UuidColumnsStoreNothing == UuidColumns => (Spec => []NothingStored)
<1>1. UuidColumns /\ TypeOK /\ NothingStored /\ [Next]_vars => NothingStored'
  BY NothingStoredNext
<1>2. UuidColumns => (TypeOK /\ NothingStored /\ [Next]_vars => NothingStored')
  BY <1>1
<1>3. CASE UuidColumns
  <2>1. TypeOK /\ NothingStored /\ [Next]_vars => NothingStored'
    BY <1>2, <1>3
  <2>2. Spec => []NothingStored
    BY <2>1, NothingStoredInit, ConversationTypeOK, PTL DEF Spec
  <2> QED BY <2>2
<1> QED BY <1>3
=============================================================================
