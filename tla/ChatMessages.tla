---------------------------- MODULE ChatMessages ----------------------------
(***************************************************************************)
(* What query-agent makes of the messages of a chat completion:            *)
(* usecases/parse_webui_rag.py and _build_memory_context of                *)
(* delivery/openai_compat.py.  A client sends the whole conversation each  *)
(* time; WebUI puts attached files into user messages as <source> blocks.  *)
(*                                                                         *)
(*  - Of a text is kept: the question that remains when markup and all but *)
(*    the last line are dropped, the files whose <source> blocks are not   *)
(*    blank, and whether it has markup (a <source> or "### Task:").        *)
(*  - A text is empty, or all spaces, or has visible characters.  A memory *)
(*    line is known by the index of its message.                           *)
(***************************************************************************)
EXTENDS Integers, Sequences, Rankings

CONSTANTS MaxLines,  \* lines of memory: 10
          Turns      \* settings.openai_compat_memory_window

ASSUME ChatMessagesAssumption == MaxLines \in Nat /\ Turns \in Nat

NoText == "none"
Spaces == "spaces"
Raw == "raw"  \* the text as it came, markup included

IsBlank(text) == text.asked \in {NoText, Spaces} /\ ~ text.markup

\* parse_webui_message: the question; markup without one is the question itself.
QuestionOf(text) == IF text.markup /\ text.asked = NoText THEN Raw ELSE text.asked

\* Messages of these roles that are not blank.
Said(messages, roles) ==
  {i \in DOMAIN messages : messages[i].role \in roles /\ ~ IsBlank(messages[i].text)}

\* Variant: the last message, whoever wrote it.
LastUserIsLast(messages) == Len(messages)

\* last_user_idx; 0 if there is none.
LastUser(messages) ==
  LET asked == Said(messages, {"user"})
  IN IF asked = {} THEN 0 ELSE CHOOSE i \in asked : \A j \in asked : j <= i

FilesOf(messages, S) == UNION {messages[i].text.files : i \in S}

\* prefetched_hits: those of the question, or else of all that users and
\* systems have sent.  When no user message has any text, _build_memory_context
\* parses a blank one again, which has no files.
Prefetched(messages) ==
  LET last == LastUser(messages)
      own == IF last = 0 THEN {} ELSE messages[last].text.files
  IN IF own # {} THEN own
     ELSE IF last = 0 /\ \E i \in DOMAIN messages : messages[i].role = "user" THEN {}
     ELSE FilesOf(messages, Said(messages, {"user", "system"}))

\* The n last of S, in their order.
LastOf(S, n) == FirstOf(S, [i \in S |-> {j \in S : j > i}], n)

\* Variant: the question is a line of memory like any other.
MemoryWithQuestion(messages) == LastOf(Said(messages, {"user", "assistant"}), MaxLines)

\* memory_lines[-10:]; if there are none, messages[:-1][-window * 2:] that are not
\* empty, and list[-0:] is the whole list.
Memory(messages) ==
  LET turns == Said(messages, {"user", "assistant"}) \ {LastUser(messages)}
  IN IF turns # {} THEN LastOf(turns, MaxLines)
     ELSE LET prior == IF Turns = 0 THEN 1 .. Len(messages) - 1
                       ELSE LastOf(1 .. Len(messages) - 1, 2 * Turns)
          IN {i \in prior : messages[i].text.asked # NoText \/ messages[i].text.markup}

\* _build_memory_context.
BuildMemoryContext(messages) ==
  [question |-> IF LastUser(messages) = 0 THEN NoText
                ELSE QuestionOf(messages[LastUser(messages)].text),
   files |-> Prefetched(messages),
   memory |-> Memory(messages)]

-----------------------------------------------------------------------------
(* Properties.                                                             *)

\* Whatever follows it, a placeholder of an assistant or a system message, the
\* question is the last that a user has asked, and its own files are preferred
\* to those of earlier ones (parse_webui_rag.py:81-113).
QuestionIsLastAsked(messages) ==
  LET parsed == BuildMemoryContext(messages)
  IN \A i \in Said(messages, {"user"}) :
       (\A j \in Said(messages, {"user"}) : j <= i) =>
         /\ parsed.question = QuestionOf(messages[i].text)
         /\ messages[i].text.files # {} => parsed.files = messages[i].text.files

\* The question is not in the memory, unless it is all that was said and some
\* message follows it: the fallback of openai_compat.py:58 leaves out the last
\* message by its position, whatever it is.
MemoryWithoutQuestion(messages) ==
  LET last == LastUser(messages)
  IN last = Len(messages) \/ Said(messages, {"user", "assistant"}) # {last} =>
       last \notin BuildMemoryContext(messages).memory
=============================================================================
